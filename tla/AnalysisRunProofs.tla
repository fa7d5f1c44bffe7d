------------------------- MODULE AnalysisRunProofs --------------------------
(***************************************************************************)
(* Theorems about AnalysisRun for any knowledge base, payload, number of   *)
(* tools and records, and any settings: what the nodes of a run agree on,  *)
(* and that they are the nodes of ApprovalRuns.                            *)
(***************************************************************************)
EXTENDS AnalysisRun, NumberLemmas, FiniteSetTheorems

-----------------------------------------------------------------------------
(* Lists without repetition, and their beginnings.                         *)
LEMMA RankValue ==
    ASSUME NEW s, IsInjective(s), NEW i \in DOMAIN s
    PROVE  s[i] \in Range(s) /\ Rank(s, s[i]) = i
<1>1. Rank(s, s[i]) \in DOMAIN s /\ s[Rank(s, s[i])] = s[i]
  BY DEF Rank
<1>2. QED
  BY <1>1 DEF IsInjective, Range

LEMMA PlaceInList ==
    ASSUME NEW S, NEW s \in Seq(S), IsInjective(s), NEW c \in Range(s)
    PROVE  Rank(s, c) \in 1..Len(s) /\ s[Rank(s, c)] = c
<1>1. PICK i \in DOMAIN s : s[i] = c
  BY DEF Range
<1>2. QED
  BY <1>1, RankValue

LEMMA CutValue ==
    ASSUME NEW S, NEW s \in Seq(S), NEW n \in Nat
    PROVE  /\ Cut(s, n) \in Seq(S)
           /\ Len(Cut(s, n)) = Min({n, Len(s)})
           /\ DOMAIN Cut(s, n) = 1..Min({n, Len(s)})
           /\ Min({n, Len(s)}) \in Nat /\ Min({n, Len(s)}) <= Len(s) /\ Min({n, Len(s)}) <= n
           /\ \A i \in DOMAIN Cut(s, n) : i \in DOMAIN s /\ Cut(s, n)[i] = s[i]
<1>1. PICK m : m = Min({n, Len(s)})
  OBVIOUS
<1>2. m = IF n <= Len(s) THEN n ELSE Len(s)
  BY <1>1, SmallerOf
<1>3. Cut(s, n) = SubSeq(s, 1, m)
  BY <1>1 DEF Cut
<1>4. QED
  BY <1>1, <1>2, <1>3

LEMMA InRange ==
    ASSUME NEW f, NEW x \in DOMAIN f
    PROVE  f[x] \in Range(f)
  BY DEF Range

LEMMA CutInjective ==
    ASSUME NEW S, NEW s \in Seq(S), NEW n \in Nat, IsInjective(s)
    PROVE  IsInjective(Cut(s, n)) /\ Range(Cut(s, n)) \subseteq Range(s)
<1>1. \A i \in DOMAIN Cut(s, n) : i \in DOMAIN s /\ Cut(s, n)[i] = s[i]
  BY CutValue
<1>2. PICK c : c = Cut(s, n) /\ \A i \in DOMAIN c : i \in DOMAIN s /\ c[i] = s[i]
  BY <1>1
<1>3. IsInjective(c)
  BY <1>2 DEF IsInjective
<1>4. Range(c) \subseteq Range(s)
  BY <1>2 DEF Range
<1>5. QED
  BY <1>2, <1>3, <1>4

(* A list that is as long as a set and does not repeat has all of it.      *)
LEMMA Enumerates ==
    ASSUME NEW S, IsFiniteSet(S), NEW s \in [1..Cardinality(S) -> S],
           \A i, j \in DOMAIN s : i < j => s[i] # s[j]
    PROVE  s \in Seq(S) /\ Len(s) = Cardinality(S) /\ IsInjective(s) /\ Range(s) = S
<1>1. PICK n : n = Cardinality(S)
  OBVIOUS
<1>2. n \in Nat /\ DOMAIN s = 1..n
  BY <1>1, FS_CardinalityType
<1>3. IsInjective(s)
  BY <1>2 DEF IsInjective
<1>4. s \in Surjection(1..n, S)
  <2>1. s \in Injection(1..n, S)
    BY <1>1, <1>3 DEF Injection
  <2>2. Cardinality(1..n) = Cardinality(S)
    BY <1>1, <1>2, FS_Interval
  <2>3. QED
    BY <2>1, <2>2, FS_Injection
<1>5. Range(s) = S
  BY <1>1, <1>2, <1>4 DEF Surjection, Range
<1>6. QED
  BY <1>1, <1>2, <1>3, <1>5

(* The length of a list that does not repeat is the number of its members. *)
LEMMA LengthOfInjective ==
    ASSUME NEW S, NEW s \in Seq(S), IsInjective(s)
    PROVE  IsFiniteSet(Range(s)) /\ Cardinality(Range(s)) = Len(s)
<1>1. PICK n : n = Len(s)
  OBVIOUS
<1>2. n \in Nat /\ s \in [1..n -> Range(s)]
  BY <1>1 DEF Range
<1>3. s \in Surjection(1..n, Range(s)) /\ s \in Injection(1..n, Range(s))
  BY <1>2 DEF Surjection, Injection, Range
<1>4. IsFiniteSet(1..n) /\ Cardinality(1..n) = n
  BY <1>2, FS_Interval
<1>5. QED
  BY <1>1, <1>3, <1>4, FS_Surjection

-----------------------------------------------------------------------------
(* The fusion of two rankings.                                             *)
LEMMA Quotient ==
    ASSUME NEW u \in Nat \ {0}, NEW a \in Nat \ {0}, u % a = 0
    PROVE  u \div a \in Nat \ {0} /\ a * (u \div a) = u
  BY SMTT(30)

LEMMA QuotientFalls ==
    ASSUME NEW u \in Nat \ {0}, NEW a \in Nat \ {0}, NEW b \in Nat \ {0}, a < b,
           u % a = 0, u % b = 0
    PROVE  u \div a > u \div b
<1>1. PICK p \in Nat \ {0} : p = u \div a /\ a * p = u
  BY Quotient
<1>2. PICK q \in Nat \ {0} : q = u \div b /\ b * q = u
  BY Quotient
<1>3. SUFFICES ASSUME p <= q PROVE FALSE
  BY <1>1, <1>2
<1>4. a * p <= a * q
  BY <1>3
<1>5. b * q - a * q >= 1
  <2>1. b * q - a * q = (b - a) * q
    OBVIOUS
  <2>2. (b - a) * q >= 1 * q
    BY ONLY b \in Nat, a \in Nat, a < b, q \in Nat
  <2>3. QED
    BY <2>1, <2>2
<1>6. QED
  BY <1>1, <1>2, <1>4, <1>5

(* A ranking that a search can have returned.                              *)
Ranking(s) ==
    s \in Seq(Chunks) /\ IsInjective(s) /\ (Len(s) <= Candidates \/ Len(s) <= TopK)

LEMMA ShareValue ==
    ASSUME NEW s, Ranking(s), NEW c, NEW d
    PROVE  /\ c \notin Range(s) => Share(s, c) = 0
           /\ c \in Range(s) => Share(s, c) \in Nat \ {0}
           /\ c \in Range(s) /\ d \in Range(s) /\ Rank(s, c) < Rank(s, d) =>
                 Share(s, c) > Share(s, d)
<1>1. /\ Unit \in Nat \ {0} /\ RrfK \in Nat /\ Len(s) \in Nat
      /\ \A i \in 1..Len(s) : RrfK + i \in Nat \ {0} /\ Unit % (RrfK + i) = 0
  <2>1. /\ Unit \in Nat \ {0} /\ RrfK \in Nat \ {0} /\ TopK \in Nat /\ Candidates \in Nat
        /\ \A i \in 1..Candidates \cup 1..TopK : Unit % (RrfK + i) = 0
    BY UnitAssumption, SettingsAssumption
  <2>2. Len(s) \in Nat /\ (Len(s) <= Candidates \/ Len(s) <= TopK)
    BY DEF Ranking
  <2>3. \A i \in 1..Len(s) : i \in 1..Candidates \cup 1..TopK /\ RrfK + i \in Nat \ {0}
    BY <2>1, <2>2
  <2>4. QED
    BY <2>1, <2>2, <2>3
<1>2. \A x \in Range(s) : Rank(s, x) \in 1..Len(s)
  BY PlaceInList DEF Ranking
<1>3. c \in Range(s) => Share(s, c) \in Nat \ {0}
  BY <1>1, <1>2, Quotient DEF Share
<1>4. ASSUME c \in Range(s), d \in Range(s), Rank(s, c) < Rank(s, d)
      PROVE  Share(s, c) > Share(s, d)
  <2>1. PICK i \in 1..Len(s), j \in 1..Len(s) : i = Rank(s, c) /\ j = Rank(s, d) /\ i < j
    BY <1>2, <1>4
  <2>2. RrfK + i < RrfK + j
    BY <1>1, <2>1
  <2>3. Unit \div (RrfK + i) > Unit \div (RrfK + j)
    BY <1>1, <2>2, QuotientFalls
  <2>4. QED
    BY <1>4, <2>1, <2>3 DEF Share
<1>5. QED
  BY <1>3, <1>4 DEF Share

LEMMA SharePlace ==
    ASSUME NEW s, Ranking(s), NEW c, NEW d, c # d, Place(s, c) <= Place(s, d)
    PROVE  /\ Share(s, c) \in Nat /\ Share(s, d) \in Nat /\ Share(s, c) >= Share(s, d)
           /\ c \in Range(s) \/ d \in Range(s) => Share(s, c) > Share(s, d)
<1>1. Share(s, c) \in Nat /\ Share(s, d) \in Nat
  BY ShareValue
<1>2. /\ \A x \in Range(s) : Rank(s, x) \in 1..Len(s) /\ s[Rank(s, x)] = x
      /\ Len(s) \in Nat
  BY PlaceInList DEF Ranking
<1>3. CASE c \in Range(s) /\ d \in Range(s)
  <2>1. Rank(s, c) <= Rank(s, d) /\ Rank(s, c) # Rank(s, d)
    BY <1>2, <1>3 DEF Place
  <2>2. Rank(s, c) < Rank(s, d)
    BY <1>2, <1>3, <2>1
  <2>3. Share(s, c) > Share(s, d)
    BY <1>3, <2>2, ShareValue
  <2>4. QED
    BY <1>1, <2>3
<1>4. CASE c \in Range(s) /\ d \notin Range(s)
  <2>1. Share(s, d) = 0 /\ Share(s, c) \in Nat \ {0}
    BY <1>4, ShareValue
  <2>2. QED
    BY <2>1
<1>5. CASE c \notin Range(s) /\ d \in Range(s)
  <2>1. Len(s) + 1 <= Rank(s, d) /\ Rank(s, d) \in 1..Len(s)
    BY <1>2, <1>5 DEF Place
  <2>2. QED
    BY <1>2, <2>1
<1>6. CASE c \notin Range(s) /\ d \notin Range(s)
  <2>1. Share(s, c) = 0 /\ Share(s, d) = 0
    BY <1>6, ShareValue
  <2>2. QED
    BY <1>6, <2>1
<1>7. QED
  BY <1>3, <1>4, <1>5, <1>6

(* The order of the fused list respects both rankings, and is strict.      *)
LEMMA AboveIsBefore ==
    ASSUME NEW found, Ranking(found.vector), Ranking(found.keyword),
           NEW c \in Everything(found), NEW d \in Everything(found), Above(found, c, d)
    PROVE  Before(found, c, d)
<1>1. /\ Share(found.vector, c) \in Nat /\ Share(found.vector, d) \in Nat
      /\ Share(found.vector, c) >= Share(found.vector, d)
      /\ c \in Range(found.vector) \/ d \in Range(found.vector) =>
            Share(found.vector, c) > Share(found.vector, d)
  BY SharePlace DEF Above
<1>2. /\ Share(found.keyword, c) \in Nat /\ Share(found.keyword, d) \in Nat
      /\ Share(found.keyword, c) >= Share(found.keyword, d)
      /\ c \in Range(found.keyword) \/ d \in Range(found.keyword) =>
            Share(found.keyword, c) > Share(found.keyword, d)
  BY SharePlace DEF Above
<1>3. c \in Range(found.vector) \/ c \in Range(found.keyword)
  BY DEF Everything
<1>4. RrfScore(found, c) > RrfScore(found, d)
  BY <1>1, <1>2, <1>3 DEF RrfScore
<1>5. QED
  BY <1>4 DEF Before

LEMMA BeforeIsStrict ==
    ASSUME NEW found, Ranking(found.vector), Ranking(found.keyword),
           NEW c \in Everything(found), NEW d \in Everything(found), Before(found, c, d)
    PROVE  ~Before(found, d, c)
<1>1. RrfScore(found, c) \in Nat /\ RrfScore(found, d) \in Nat
  <2>1. \A x : Share(found.vector, x) \in Nat /\ Share(found.keyword, x) \in Nat
    BY ShareValue
  <2>2. QED
    BY <2>1 DEF RrfScore
<1>2. c \in Nat /\ d \in Nat
  <2>1. Range(found.vector) \subseteq Chunks /\ Range(found.keyword) \subseteq Chunks
    BY DEF Ranking, Range
  <2>2. QED
    BY <2>1, ChunksAssumption DEF Everything
<1>3. QED
  BY <1>1, <1>2 DEF Before

(* What fuse_search_hits returns keeps the order of both rankings.         *)
LEMMA FuseKeepsOrder ==
    ASSUME NEW found, Ranking(found.vector), Ranking(found.keyword),
           NEW result \in Fuse(found)
    PROVE  KeepsOrder(found, result) /\ result \in Seq(Chunks)
<1> DEFINE S == Everything(found)
<1>1. IsFiniteSet(S) /\ S \subseteq Chunks
  <2>1. IsFiniteSet(Range(found.vector)) /\ IsFiniteSet(Range(found.keyword))
    BY LengthOfInjective DEF Ranking
  <2>2. Range(found.vector) \subseteq Chunks /\ Range(found.keyword) \subseteq Chunks
    BY DEF Ranking, Range
  <2>3. QED
    BY <2>1, <2>2, FS_Union DEF Everything
<1>2. PICK s : /\ result = Cut(s, TopK)
               /\ s \in [1..Cardinality(S) -> S]
               /\ \A i, j \in DOMAIN s : i < j => Before(found, s[i], s[j])
  BY DEF Fuse, Sorted, Everything
<1> HIDE DEF S
<1>3. \A x, y \in S : Before(found, x, y) => ~Before(found, y, x)
  BY BeforeIsStrict DEF S
<1>4. s \in Seq(S) /\ Len(s) = Cardinality(S) /\ IsInjective(s) /\ Range(s) = S
  <2>1. \A i, j \in DOMAIN s : i < j => s[i] # s[j]
    <3>1. \A i \in DOMAIN s : s[i] \in S
      BY <1>2
    <3>2. QED
      BY <1>2, <1>3, <3>1
  <2>2. QED
    BY <1>1, <1>2, <2>1, Enumerates
<1>5. TopK \in Nat
  BY SettingsAssumption
<1>6. /\ result \in Seq(S) /\ IsInjective(result) /\ Range(result) \subseteq S
      /\ Len(result) = Min({TopK, Cardinality(S)})
      /\ DOMAIN result = 1..Len(result)
      /\ Len(result) \in Nat /\ Len(result) <= Len(s)
      /\ \A i \in DOMAIN result : i \in DOMAIN s /\ result[i] = s[i]
  <2>1. /\ IsInjective(Cut(s, TopK)) /\ Range(Cut(s, TopK)) \subseteq Range(s)
        /\ Cut(s, TopK) \in Seq(S) /\ Len(Cut(s, TopK)) = Min({TopK, Len(s)})
        /\ Min({TopK, Len(s)}) <= Len(s)
        /\ \A i \in DOMAIN Cut(s, TopK) : i \in DOMAIN s /\ Cut(s, TopK)[i] = s[i]
    BY <1>4, <1>5, CutValue, CutInjective
  <2>2. result = Cut(s, TopK)
    BY <1>2
  <2>3. /\ IsInjective(result) /\ Range(result) \subseteq Range(s)
        /\ result \in Seq(S) /\ Len(result) = Min({TopK, Len(s)})
        /\ Min({TopK, Len(s)}) <= Len(s)
        /\ \A i \in DOMAIN result : i \in DOMAIN s /\ result[i] = s[i]
    BY <2>1, <2>2, Zenon
  <2>4. Len(result) \in Nat /\ DOMAIN result = 1..Len(result)
    BY <2>3
  <2>5. Len(result) = Min({TopK, Cardinality(S)}) /\ Len(result) <= Len(s)
    BY <1>4, <2>3
  <2>6. QED
    BY <1>4, <2>3, <2>4, <2>5
<1>7. ASSUME NEW c \in S, NEW d \in Range(result), Above(found, c, d)
      PROVE  c \in Range(result) /\ Rank(result, c) < Rank(result, d)
  <2>1. d \in S /\ Before(found, c, d) /\ c # d
    BY <1>6, <1>7, AboveIsBefore DEF S, Above
  <2>2. ~Before(found, d, c)
    BY <1>3, <2>1
  <2>3. PICK j \in DOMAIN result : result[j] = d
    BY DEF Range
  <2>4. PICK i \in DOMAIN s : s[i] = c
    BY <1>4 DEF Range
  <2>5. j \in DOMAIN s /\ s[j] = d
    BY <1>6, <2>3
  <2>6. i < j
    <3>1. ~(j < i)
      BY <1>2, <2>2, <2>4, <2>5
    <3>2. i # j
      BY <2>1, <2>4, <2>5
    <3>3. i \in Nat /\ j \in Nat
      BY <1>4, <2>4, <2>5
    <3>4. QED
      BY <3>1, <3>2, <3>3
  <2>7. i \in DOMAIN result /\ result[i] = c
    <3>1. i \in Nat \ {0} /\ j \in 1..Len(result)
      BY <1>4, <1>6, <2>3, <2>4
    <3>2. i \in DOMAIN result
      BY <1>6, <2>6, <3>1
    <3>3. QED
      BY <1>6, <2>4, <3>2
  <2>8. Rank(result, c) = i /\ Rank(result, d) = j /\ c \in Range(result)
    BY <1>6, <2>3, <2>7, RankValue
  <2>9. QED
    BY <2>6, <2>8
<1>8. result \in Seq(Chunks)
  BY <1>1, <1>6
<1>9. QED
  BY <1>6, <1>7, <1>8 DEF KeepsOrder, S

(* The ranking of one channel is one of everything it has found.           *)
LEMMA RankingKeepsOrder ==
    ASSUME NEW found, NEW s, Ranking(s), Len(s) <= TopK,
           \/ found = [NoHits EXCEPT !.vector = s]
           \/ found = [NoHits EXCEPT !.keyword = s]
    PROVE  KeepsOrder(found, s)
<1>1. /\ Range(<<>>) = {} /\ Len(<<>>) = 0
      /\ \/ found.vector = s /\ found.keyword = <<>>
         \/ found.vector = <<>> /\ found.keyword = s
  BY DEF NoHits, Range
<1>2. Everything(found) = Range(s)
  BY <1>1 DEF Everything
<1>3. /\ IsInjective(s) /\ Len(s) \in Nat /\ TopK \in Nat
      /\ Len(s) = Cardinality(Range(s))
      /\ \A x \in Range(s) : Rank(s, x) \in 1..Len(s) /\ s[Rank(s, x)] = x
  BY SettingsAssumption, LengthOfInjective, PlaceInList DEF Ranking
<1>4. Len(s) = Min({TopK, Cardinality(Range(s))})
  BY <1>3, SmallerOf
<1>5. ASSUME NEW c \in Range(s), NEW d \in Range(s), Above(found, c, d)
      PROVE  Rank(s, c) < Rank(s, d)
  <2>1. c # d /\ Place(s, c) <= Place(s, d)
    BY <1>1, <1>5 DEF Above
  <2>2. Rank(s, c) <= Rank(s, d) /\ Rank(s, c) # Rank(s, d)
    BY <1>3, <2>1 DEF Place
  <2>3. QED
    BY <1>3, <2>2
<1>6. QED
  BY <1>2, <1>3, <1>4, <1>5 DEF KeepsOrder

(* What a search returns is a ranking.                                     *)
LEMMA FoundValue ==
    ASSUME NEW seen, seen \subseteq Chunks, NEW limit \in Nat, NEW s \in Found(seen, limit)
    PROVE  s \in Seq(Chunks) /\ IsInjective(s) /\ Len(s) <= limit
<1>1. IsFiniteSet(seen) /\ Cardinality(seen) \in Nat
  BY ChunksAssumption, FS_Subset, FS_CardinalityType
<1>2. PICK n \in 0..Min({limit, Cardinality(seen)}) : s \in [1..n -> seen]
  BY DEF Found
<1>3. Min({limit, Cardinality(seen)}) \in Nat /\ Min({limit, Cardinality(seen)}) <= limit
  BY <1>1, SmallerOf
<1>4. n \in Nat /\ n <= limit
  BY <1>2, <1>3
<1>5. s \in Seq(Chunks) /\ Len(s) = n
  BY <1>2, <1>4
<1>6. IsInjective(s)
  BY DEF Found
<1>7. QED
  BY <1>4, <1>5, <1>6

LEMMA NothingFound == Ranking(<<>>) /\ KeepsOrder(NoHits, <<>>)
<1>1. Ranking(<<>>) /\ Len(<<>>) <= TopK
  BY SettingsAssumption DEF Ranking, IsInjective
<1>2. NoHits = [NoHits EXCEPT !.vector = <<>>]
  BY DEF NoHits
<1>3. QED
  BY <1>1, <1>2, RankingKeepsOrder

-----------------------------------------------------------------------------
(* What FlattenSeq returns: every element of every list, in the order of   *)
(* the lists and of the elements of each.  from and place say where an     *)
(* element of the result comes from.                                       *)
Comes(flat, D, seqs, k, from, place) ==
    /\ from \in [D -> 1..k] /\ place \in [D -> Nat]
    /\ \A i \in D : place[i] \in DOMAIN seqs[from[i]]
                              /\ flat[i] = seqs[from[i]][place[i]]
    /\ \A i, j \in D :
          i < j => from[i] < from[j] \/ (from[i] = from[j] /\ place[i] < place[j])
    /\ \A t \in 1..k : \A p \in DOMAIN seqs[t] :
          \E i \in D : from[i] = t /\ place[i] = p

Flattens(flat, seqs, k) == \E from, place : Comes(flat, DOMAIN flat, seqs, k, from, place)

Prefix(f, seqs, i) == IF i = 1 THEN seqs[i] ELSE f[i - 1] \o seqs[i]

(* There is a function that satisfies the recursion of FlattenSeq.         *)
LEMMA PrefixesExist ==
    ASSUME NEW n \in Nat, NEW seqs
    PROVE  \E f : f = [i \in 1..n |-> Prefix(f, seqs, i)]
<1> DEFINE Solves(f, m) == \A i \in 1..m : f[i] = Prefix(f, seqs, i)
           Open == {m \in 0..n : ~\E f : Solves(f, m)}
<1>1. Open = {}
  <2> SUFFICES ASSUME Open # {} PROVE FALSE
    OBVIOUS
  <2>1. PICK m \in Open : \A k \in Open : m <= k
    <3>1. Open \subseteq Nat
      OBVIOUS
    <3> HIDE DEF Open
    <3>2. QED
      BY <3>1, LeastNumber
  <2>2. m # 0
    <3>1. Solves(seqs, 0)
      OBVIOUS
    <3>2. QED
      BY <3>1
  <2>3. m \in 1..n /\ m - 1 \in 0..n /\ ~(m <= m - 1)
    BY <2>2
  <2>4. PICK f : Solves(f, m - 1)
    BY <2>1, <2>3
  <2> DEFINE g == [i \in 1..m |-> IF i = m THEN Prefix(f, seqs, m) ELSE f[i]]
  <2>5. \A i \in 1..(m - 1) : g[i] = f[i]
    BY <2>3
  <2>6. g[m] = Prefix(f, seqs, m)
    BY <2>3
  <2>7. \A i \in 1..m : Prefix(g, seqs, i) = Prefix(f, seqs, i)
    <3> HIDE DEF g
    <3>1. \A i \in 1..m : i # 1 => i - 1 \in 1..(m - 1)
      BY <2>3
    <3>2. QED
      BY <2>5, <3>1 DEF Prefix
  <2>8. Solves(g, m)
    <3> HIDE DEF g
    <3>1. ASSUME NEW i \in 1..m PROVE g[i] = Prefix(g, seqs, i)
      <4>1. CASE i = m
        BY <2>6, <2>7, <4>1
      <4>2. CASE i # m
        <5>1. i \in 1..(m - 1)
          BY <2>3, <4>2
        <5>2. QED
          BY <2>4, <2>5, <2>7, <5>1
      <4>3. QED
        BY <4>1, <4>2
    <3>2. QED
      BY <3>1
  <2>9. \E h : Solves(h, m)
    <3> HIDE DEF g
    <3>1. QED
      BY <2>8
  <2>10. QED
    BY <2>1, <2>9
<1>2. PICK f : Solves(f, n)
  BY <1>1
<1> DEFINE g == [i \in 1..n |-> f[i]]
<1>3. \A i \in 1..n : g[i] = f[i]
  OBVIOUS
<1> HIDE DEF g
<1>4. \A i \in 1..n : Prefix(g, seqs, i) = Prefix(f, seqs, i)
  <2>1. \A i \in 1..n : i # 1 => i - 1 \in 1..n
    OBVIOUS
  <2>2. QED
    BY <1>3, <2>1 DEF Prefix
<1>5. g = [i \in 1..n |-> Prefix(g, seqs, i)]
  <2>1. g = [i \in 1..n |-> g[i]]
    BY DEF g
  <2>2. \A i \in 1..n : g[i] = Prefix(g, seqs, i)
    BY <1>2, <1>3, <1>4
  <2>3. QED
    BY <2>1, <2>2
<1>6. QED
  BY <1>5

LEMMA FlattenValue ==
    ASSUME NEW seqs, NEW n \in Nat \ {0}, Len(seqs) = n
    PROVE  \E f : /\ \A i \in 1..n : f[i] = Prefix(f, seqs, i)
                  /\ FlattenSeq(seqs) = f[n]
<1> DEFINE f == CHOOSE f : f = [i \in 1..n |-> Prefix(f, seqs, i)]
<1>1. FlattenSeq(seqs) = f[n]
  BY DEF FlattenSeq, Prefix
<1>2. f = [i \in 1..n |-> Prefix(f, seqs, i)]
  BY PrefixesExist
<1> HIDE DEF f
<1>3. QED
  BY <1>1, <1>2

(* One list more.                                                          *)
LEMMA FlattensMore ==
    ASSUME NEW S, NEW seqs, NEW k \in Nat, NEW flat \in Seq(S), Flattens(flat, seqs, k),
           seqs[k + 1] \in Seq(S)
    PROVE  Flattens(flat \o seqs[k + 1], seqs, k + 1) /\ flat \o seqs[k + 1] \in Seq(S)
<1>1. PICK from, place : Comes(flat, DOMAIN flat, seqs, k, from, place)
  BY DEF Flattens
<1>2. PICK more \in Seq(S) : more = seqs[k + 1]
  OBVIOUS
<1>3. PICK m \in Nat, n \in Nat : m = Len(flat) /\ n = Len(more)
  OBVIOUS
<1> DEFINE longer == flat \o more
           origin == [i \in 1..(m + n) |-> IF i <= m THEN from[i] ELSE k + 1]
           spot == [i \in 1..(m + n) |-> IF i <= m THEN place[i] ELSE i - m]
<1>4. /\ longer \in Seq(S) /\ DOMAIN longer = 1..(m + n)
      /\ DOMAIN flat = 1..m /\ DOMAIN more = 1..n
      /\ \A i \in 1..m : longer[i] = flat[i]
      /\ \A i \in 1..(m + n) : ~(i <= m) => i - m \in 1..n /\ longer[i] = more[i - m]
  BY <1>3
<1> HIDE DEF longer
<1>5. /\ \A i \in 1..m : i \in 1..(m + n) /\ origin[i] = from[i] /\ spot[i] = place[i]
      /\ \A i \in 1..(m + n) : ~(i <= m) => origin[i] = k + 1 /\ spot[i] = i - m
  BY <1>3
<1>6. /\ from \in [1..m -> 1..k] /\ place \in [1..m -> Nat]
      /\ \A i \in 1..m : place[i] \in DOMAIN seqs[from[i]]
                         /\ flat[i] = seqs[from[i]][place[i]]
      /\ \A i, j \in 1..m :
            i < j => from[i] < from[j] \/ (from[i] = from[j] /\ place[i] < place[j])
      /\ \A t \in 1..k : \A p \in DOMAIN seqs[t] :
            \E i \in 1..m : from[i] = t /\ place[i] = p
  <2>1. Comes(flat, 1..m, seqs, k, from, place)
    BY <1>1, <1>4
  <2>2. QED
    BY <2>1 DEF Comes
<1>7. origin \in [1..(m + n) -> 1..(k + 1)] /\ spot \in [1..(m + n) -> Nat]
  <2>1. \A i \in 1..m : from[i] \in 1..k /\ place[i] \in Nat
    BY <1>6
  <2>2. QED
    BY <1>3, <2>1
<1> HIDE DEF origin, spot
<1>8. ASSUME NEW i \in 1..(m + n)
      PROVE  spot[i] \in DOMAIN seqs[origin[i]] /\ longer[i] = seqs[origin[i]][spot[i]]
  <2>1. CASE i <= m
    <3>1. i \in 1..m
      BY <1>3, <2>1
    <3>2. QED
      BY <1>4, <1>5, <1>6, <3>1
  <2>2. CASE ~(i <= m)
    BY <1>2, <1>4, <1>5, <2>2
  <2>3. QED
    BY <2>1, <2>2
<1>9. ASSUME NEW i \in 1..(m + n), NEW j \in 1..(m + n), i < j
      PROVE  origin[i] < origin[j] \/ (origin[i] = origin[j] /\ spot[i] < spot[j])
  <2>1. CASE j <= m
    <3>1. i \in 1..m /\ j \in 1..m
      BY <1>3, <1>9, <2>1
    <3>2. QED
      BY <1>5, <1>6, <1>9, <3>1
  <2>2. CASE i <= m /\ ~(j <= m)
    <3>1. i \in 1..m /\ from[i] \in 1..k
      BY <1>3, <1>6, <2>2
    <3>2. origin[i] = from[i] /\ origin[j] = k + 1
      BY <1>5, <2>2, <3>1
    <3>3. QED
      BY <3>1, <3>2
  <2>3. CASE ~(i <= m)
    <3>1. ~(j <= m)
      BY <1>3, <1>9, <2>3
    <3>2. origin[i] = k + 1 /\ origin[j] = k + 1 /\ spot[i] = i - m /\ spot[j] = j - m
      BY <1>5, <2>3, <3>1
    <3>3. QED
      BY <1>3, <1>9, <3>2
  <2>4. QED
    BY <2>1, <2>2, <2>3
<1>10. ASSUME NEW t \in 1..(k + 1), NEW p \in DOMAIN seqs[t]
       PROVE  \E i \in 1..(m + n) : origin[i] = t /\ spot[i] = p
  <2>1. CASE t = k + 1
    <3>1. p \in 1..n
      BY <1>2, <1>4, <2>1
    <3>2. m + p \in 1..(m + n) /\ ~(m + p <= m) /\ (m + p) - m = p
      BY <1>3, <3>1
    <3>3. QED
      BY <1>5, <2>1, <3>2
  <2>2. CASE t # k + 1
    <3>1. t \in 1..k
      BY <2>2
    <3>2. PICK i \in 1..m : from[i] = t /\ place[i] = p
      BY <1>6, <3>1
    <3>3. QED
      BY <1>5, <3>2
  <2>3. QED
    BY <2>1, <2>2
<1>11. Comes(longer, DOMAIN longer, seqs, k + 1, origin, spot)
  <2>1. Comes(longer, 1..(m + n), seqs, k + 1, origin, spot)
    BY <1>7, <1>8, <1>9, <1>10 DEF Comes
  <2>2. QED
    BY <1>4, <2>1
<1>12. Flattens(longer, seqs, k + 1)
  BY <1>11 DEF Flattens
<1>13. QED
  BY <1>2, <1>4, <1>12 DEF longer

LEMMA FlattenIsConcatenation ==
    ASSUME NEW S, NEW seqs \in Seq(Seq(S))
    PROVE  Flattens(FlattenSeq(seqs), seqs, Len(seqs)) /\ FlattenSeq(seqs) \in Seq(S)
<1>1. PICK n \in Nat : n = Len(seqs) /\ \A i \in 1..n : seqs[i] \in Seq(S)
  OBVIOUS
<1>0. Flattens(<<>>, seqs, 0)
  <2>1. Comes(<<>>, DOMAIN <<>>, seqs, 0, <<>>, <<>>)
    BY DEF Comes
  <2>2. QED
    BY <2>1 DEF Flattens
<1>2. CASE n = 0
  <2>1. Len(seqs) = 0
    BY <1>1, <1>2
  <2>2. FlattenSeq(seqs) = seqs
    BY <2>1 DEF FlattenSeq
  <2>3. seqs = <<>>
    BY <2>1
  <2>4. QED
    BY <1>0, <2>1, <2>2, <2>3
<1>3. CASE n # 0
  <2>1. PICK f : (\A i \in 1..n : f[i] = Prefix(f, seqs, i)) /\ FlattenSeq(seqs) = f[n]
    BY <1>1, <1>3, FlattenValue
  <2> DEFINE Good(i) == Flattens(f[i], seqs, i) /\ f[i] \in Seq(S)
             Bad == {i \in 1..n : ~Good(i)}
  <2>2. Bad = {}
    <3> SUFFICES ASSUME Bad # {} PROVE FALSE
      OBVIOUS
    <3>1. PICK i \in Bad : \A j \in Bad : i <= j
      <4>1. Bad \subseteq Nat
        OBVIOUS
      <4> HIDE DEF Bad
      <4>2. QED
        BY <4>1, LeastNumber
    <3>2. CASE i = 1
      <4>1. f[1] = seqs[1] /\ seqs[1] \in Seq(S)
        BY <1>1, <1>3, <2>1 DEF Prefix
      <4>2. <<>> \o seqs[1] = seqs[1]
        BY <4>1
      <4>3. Flattens(<<>> \o seqs[0 + 1], seqs, 0 + 1)
        <5>1. <<>> \in Seq(S) /\ 0 \in Nat /\ seqs[0 + 1] \in Seq(S)
          BY <4>1
        <5>2. QED
          BY <1>0, <5>1, FlattensMore
      <4>4. Good(1)
        BY <4>1, <4>2, <4>3
      <4>5. QED
        BY <3>1, <3>2, <4>4
    <3>3. CASE i # 1
      <4>1. i - 1 \in 1..n /\ i \in 1..n /\ ~(i <= i - 1) /\ (i - 1) + 1 = i
        BY <3>3
      <4>2. Good(i - 1)
        BY <3>1, <4>1
      <4>3. f[i] = f[i - 1] \o seqs[i] /\ seqs[i] \in Seq(S)
        BY <1>1, <2>1, <3>3, <4>1 DEF Prefix
      <4>4. Good(i)
        BY <4>1, <4>2, <4>3, FlattensMore
      <4>5. QED
        BY <4>4
    <3>4. QED
      BY <3>2, <3>3
  <2>3. n \in 1..n
    BY <1>3
  <2>4. QED
    BY <1>1, <2>1, <2>2, <2>3
<1>4. QED
  BY <1>2, <1>3

-----------------------------------------------------------------------------
(* The context in the order of the tools.                                  *)
Record == [system : {"mes", "qms"}, id : RecordIds]

Entry == [tool_name : {request.tools[t].name : t \in DOMAIN tools}, record : Record]

LEMMA ToolsTyped ==
    ASSUME NodesTypeOK
    PROVE  /\ request \in Requests /\ Len(request.tools) \in Nat
           /\ DOMAIN request.tools = 1..Len(request.tools)
           /\ DOMAIN tools = DOMAIN request.tools
           /\ \A t \in DOMAIN tools :
                 /\ tools[t].records \in Seq(Record) /\ tools[t].answered \in BOOLEAN
                 /\ tools[t].failure \in ToolErrors \cup {"none"}
<1>1. request \in Requests
  BY DEF NodesTypeOK
<1>2. PICK names : request.tools \in Seq([name : names, system : {"mes", "qms"}])
  BY <1>1, RequestsAssumption
<1>3. Len(request.tools) \in Nat /\ DOMAIN request.tools = 1..Len(request.tools)
  BY <1>2
<1>4. tools \in [DOMAIN request.tools ->
                     [answered : BOOLEAN, failure : ToolErrors \cup {"none"},
                      records : Seq(Record)]]
  BY DEF NodesTypeOK, Record
<1>5. QED
  BY <1>1, <1>3, <1>4

(* Each record of the context is that of one tool, at its place there.     *)
Traced(all, from, place) ==
    /\ \A i \in DOMAIN all :
          /\ from[i] \in DOMAIN tools
          /\ place[i] \in DOMAIN tools[from[i]].records
          /\ all[i].tool_name = request.tools[from[i]].name
          /\ all[i].record = tools[from[i]].records[place[i]]
    /\ \A i, j \in DOMAIN all :
          i < j => from[i] < from[j] \/ (from[i] = from[j] /\ place[i] < place[j])
    /\ \A t \in DOMAIN tools : \A p \in DOMAIN tools[t].records :
          \E i \in DOMAIN all : from[i] = t /\ place[i] = p

LEMMA ContextEntries ==
    ASSUME NodesTypeOK
    PROVE  /\ BusinessContext.records \in Seq(Entry)
           /\ \E from, place : Traced(BusinessContext.records, from, place)
<1>1. PICK n \in Nat : n = Len(request.tools) /\ DOMAIN tools = 1..n
  BY ToolsTyped
<1> DEFINE lists == [t \in DOMAIN tools |-> RecordsOf(t)]
           all == FlattenSeq(lists)
<1>2. /\ BusinessContext.records = all
      /\ DOMAIN lists = DOMAIN tools
      /\ \A t \in DOMAIN tools : lists[t] = RecordsOf(t)
  BY DEF BusinessContext
<1>3. ASSUME NEW t \in DOMAIN tools
      PROVE  /\ RecordsOf(t) \in Seq(Entry)
             /\ DOMAIN RecordsOf(t) = DOMAIN tools[t].records
             /\ \A p \in DOMAIN tools[t].records :
                   /\ RecordsOf(t)[p].tool_name = request.tools[t].name
                   /\ RecordsOf(t)[p].record = tools[t].records[p]
  <2>1. PICK list \in Seq(Record) : list = tools[t].records
    BY ToolsTyped
  <2>2. PICK name : name = request.tools[t].name
    OBVIOUS
  <2>3. name \in {request.tools[u].name : u \in DOMAIN tools}
    BY <2>2
  <2>4. RecordsOf(t) = [i \in DOMAIN list |-> [tool_name |-> name, record |-> list[i]]]
    BY <2>1, <2>2 DEF RecordsOf
  <2>5. \A i \in DOMAIN list : [tool_name |-> name, record |-> list[i]] \in Entry
    BY <2>3 DEF Entry
  <2>6. RecordsOf(t) \in Seq(Entry) /\ DOMAIN RecordsOf(t) = DOMAIN list
    <3> HIDE DEF Entry
    <3>1. Len(list) \in Nat /\ DOMAIN list = 1..Len(list)
      OBVIOUS
    <3>2. QED
      BY <2>4, <2>5, <3>1
  <2>7. QED
    BY <2>1, <2>2, <2>4, <2>6
<1>4. lists \in Seq(Seq(Entry)) /\ Len(lists) = n
  <2>1. \A t \in 1..n : lists[t] \in Seq(Entry)
    BY <1>1, <1>2, <1>3
  <2>2. DOMAIN lists = 1..n /\ lists = [t \in 1..n |-> lists[t]]
    BY <1>1
  <2> HIDE DEF lists
  <2>3. QED
    BY <2>1, <2>2
<1> HIDE DEF lists
<1>5. all \in Seq(Entry) /\ Flattens(all, lists, n)
  BY <1>4, FlattenIsConcatenation
<1> HIDE DEF all
<1>6. PICK from, place : Comes(all, DOMAIN all, lists, n, from, place)
  BY <1>5 DEF Flattens
<1>7. ASSUME NEW i \in DOMAIN all
      PROVE  /\ from[i] \in DOMAIN tools
             /\ place[i] \in DOMAIN tools[from[i]].records
             /\ all[i].tool_name = request.tools[from[i]].name
             /\ all[i].record = tools[from[i]].records[place[i]]
  <2>1. /\ from[i] \in 1..n /\ place[i] \in DOMAIN lists[from[i]]
        /\ all[i] = lists[from[i]][place[i]]
    BY <1>6 DEF Comes
  <2>2. from[i] \in DOMAIN tools /\ lists[from[i]] = RecordsOf(from[i])
    BY <1>1, <1>2, <2>1
  <2>3. QED
    BY <1>3, <2>1, <2>2
<1>8. /\ \A i, j \in DOMAIN all :
            i < j => from[i] < from[j] \/ (from[i] = from[j] /\ place[i] < place[j])
      /\ \A t \in 1..n : \A p \in DOMAIN lists[t] :
            \E i \in DOMAIN all : from[i] = t /\ place[i] = p
  BY <1>6 DEF Comes
<1>9. \A t \in DOMAIN tools : DOMAIN lists[t] = DOMAIN tools[t].records
  BY <1>2, <1>3
<1>10. \A t \in DOMAIN tools : \A p \in DOMAIN tools[t].records :
          \E i \in DOMAIN all : from[i] = t /\ place[i] = p
  BY <1>1, <1>8, <1>9
<1>11. Traced(all, from, place)
  BY <1>7, <1>8, <1>10 DEF Traced
<1>12. QED
  BY <1>2, <1>5, <1>11

(* With tools of distinct names, it is as ToolsAreIndependent says, and no *)
(* record is twice in it.                                                  *)
LEMMA ContextKnown ==
    ASSUME NodesTypeOK, ToolsInv, Distinct(request.tools), context = BusinessContext
    PROVE  /\ ToolsAreIndependent /\ IsInjective(context.records)
           /\ context.records \in Seq(Entry)
<1> DEFINE all == context.records
<1>1. all \in Seq(Entry)
  BY ContextEntries
<1>2. PICK from, place :
         /\ \A i \in DOMAIN all :
               /\ from[i] \in DOMAIN tools
               /\ place[i] \in DOMAIN tools[from[i]].records
               /\ all[i].tool_name = request.tools[from[i]].name
               /\ all[i].record = tools[from[i]].records[place[i]]
         /\ \A i, j \in DOMAIN all :
               i < j => from[i] < from[j] \/ (from[i] = from[j] /\ place[i] < place[j])
         /\ \A t \in DOMAIN tools : \A p \in DOMAIN tools[t].records :
               \E i \in DOMAIN all : from[i] = t /\ place[i] = p
  BY ContextEntries DEF Traced
<1> HIDE DEF all
<1>3. PICK n \in Nat : DOMAIN tools = 1..n /\ DOMAIN request.tools = 1..n
  BY ToolsTyped
<1>4. \A t, u \in DOMAIN tools : request.tools[t].name = request.tools[u].name => t = u
  BY <1>3 DEF Distinct
<1>5. ASSUME NEW i \in DOMAIN all, NEW j \in DOMAIN all
      PROVE  /\ i \in Nat /\ j \in Nat
             /\ from[i] \in 1..n /\ from[j] \in 1..n
             /\ place[i] \in Nat /\ place[j] \in Nat
  <2>1. \A t \in DOMAIN tools : \A p \in DOMAIN tools[t].records : p \in Nat
    BY ToolsTyped
  <2>2. i \in Nat /\ j \in Nat
    BY <1>1
  <2>3. QED
    BY <1>2, <1>3, <2>1, <2>2
<1>6. IsInjective(all)
  <2>1. ASSUME NEW i \in DOMAIN all, NEW j \in DOMAIN all, all[i] = all[j], i < j
        PROVE  FALSE
    <3>1. from[i] = from[j]
      BY <1>2, <1>4, <2>1
    <3>2. place[i] < place[j]
      BY <1>2, <1>5, <2>1, <3>1
    <3>3. PICK t \in DOMAIN tools : t = from[i] /\ t = from[j]
      BY <1>2, <3>1
    <3>4. tools[t].records[place[i]] = tools[t].records[place[j]]
      <4>1. /\ all[i].record = tools[from[i]].records[place[i]]
            /\ all[j].record = tools[from[j]].records[place[j]]
        BY <1>2
      <4>2. QED
        BY <2>1, <3>3, <4>1
    <3>5. \A p, q \in DOMAIN tools[t].records :
             tools[t].records[p].id = tools[t].records[q].id => p = q
      BY DEF ToolsInv, Acceptable
    <3>6. place[i] \in DOMAIN tools[t].records /\ place[j] \in DOMAIN tools[t].records
      BY <1>2, <3>3
    <3>7. place[i] = place[j]
      BY <3>4, <3>5, <3>6
    <3>8. QED
      BY <1>5, <3>2, <3>7
  <2>2. \A i, j \in DOMAIN all : all[i] = all[j] => i = j
    BY <1>5, <2>1
  <2>3. QED
    BY <2>2 DEF IsInjective
<1>7. ASSUME NEW t \in DOMAIN tools
      PROVE  {all[i].record : i \in {i \in DOMAIN all : all[i].tool_name = request.tools[t].name}}
                = Range(tools[t].records)
  <2>1. \A i \in DOMAIN all : all[i].tool_name = request.tools[t].name <=> from[i] = t
    BY <1>2, <1>4
  <2>2. \A i \in DOMAIN all : from[i] = t => all[i].record \in Range(tools[t].records)
    BY <1>2 DEF Range
  <2>3. \A p \in DOMAIN tools[t].records :
           \E i \in DOMAIN all : from[i] = t /\ all[i].record = tools[t].records[p]
    BY <1>2
  <2>4. QED
    BY <2>1, <2>2, <2>3 DEF Range
<1>8. ASSUME NEW t \in DOMAIN tools
      PROVE  (\E f \in context.failures : f[1] = request.tools[t].name)
                <=> tools[t].failure # "none"
  <2>1. context.failures = {<<request.tools[u].name, tools[u].failure>> :
                               u \in {u \in DOMAIN tools : tools[u].failure # "none"}}
    BY DEF BusinessContext
  <2>2. ASSUME tools[t].failure # "none"
        PROVE  \E f \in context.failures : f[1] = request.tools[t].name
    <3>1. <<request.tools[t].name, tools[t].failure>> \in context.failures
      BY <2>1, <2>2
    <3>2. QED
      BY <3>1
  <2>3. ASSUME NEW f \in context.failures, f[1] = request.tools[t].name
        PROVE  tools[t].failure # "none"
    <3>1. PICK u \in DOMAIN tools : /\ tools[u].failure # "none"
                                    /\ f = <<request.tools[u].name, tools[u].failure>>
      BY <2>1
    <3>2. f[1] = request.tools[u].name
      BY <3>1
    <3>3. u = t
      BY <1>4, <2>3, <3>2
    <3>4. QED
      BY <3>1, <3>3
  <2>4. QED
    BY <2>2, <2>3
<1>9. ASSUME NEW i \in DOMAIN all, NEW j \in DOMAIN all, i < j
      PROVE  \E t, u \in DOMAIN tools :
                /\ t <= u
                /\ request.tools[t].name = all[i].tool_name
                /\ request.tools[u].name = all[j].tool_name
  <2>1. from[i] <= from[j]
    BY <1>2, <1>5, <1>9
  <2>2. QED
    BY <1>2, <2>1
<1>10. ToolsAreIndependent
  BY <1>7, <1>8, <1>9, Zenon DEF ToolsAreIndependent, all
<1>11. QED
  BY <1>1, <1>6, <1>10 DEF all

-----------------------------------------------------------------------------
(* What a draft cites.                                                     *)
GroundedDraft(d) ==
    /\ IsInjective(d.citations) /\ IsInjective(d.references)
    /\ Range(d.citations) \subseteq Range(evidence)
    /\ Range(d.references) \subseteq Range(context.records)
    /\ d.acts => d.citations # <<>> \/ d.references # <<>>
    /\ d.mode = "model" => request.use_model /\ Grounds

LEMMA SubSeqOfNonempty ==
    ASSUME NEW S, NEW s \in Seq(S), s # <<>>
    PROVE  Cut(s, 3) # <<>>
<1>1. Len(s) \in Nat /\ Len(s) # 0
  OBVIOUS
<1>2. Min({3, Len(s)}) # 0
  <2>1. Min({3, Len(s)}) = IF 3 <= Len(s) THEN 3 ELSE Len(s)
    BY <1>1, SmallerOf
  <2>2. QED
    BY <1>1, <2>1
<1>3. Len(Cut(s, 3)) = Min({3, Len(s)})
  BY CutValue
<1>4. QED
  BY <1>2, <1>3

(* The draft by rule cites the first of what was found.                    *)
LEMMA FallbackGrounded ==
    ASSUME evidence \in Seq(Chunks), IsInjective(evidence),
           context.records \in Seq(Entry), IsInjective(context.records), NEW reason
    PROVE  GroundedDraft(Fallback(reason))
<1>1. PICK all \in Seq(Entry) : all = context.records
  OBVIOUS
<1> DEFINE first == [i \in 1..Min({3, Len(context.records)}) |-> context.records[i]]
<1>2. first = Cut(all, 3)
  <2>1. PICK m : m = Min({3, Len(all)})
    OBVIOUS
  <2>2. m \in Nat /\ m <= Len(all)
    BY <2>1, CutValue
  <2>3. Cut(all, 3) = SubSeq(all, 1, m)
    BY <2>1 DEF Cut
  <2>4. SubSeq(all, 1, m) = [i \in 1..m |-> all[i]]
    BY <2>2
  <2>5. QED
    BY <1>1, <2>1, <2>3, <2>4
<1> HIDE DEF first
<1>3. /\ IsInjective(Cut(evidence, 3)) /\ Range(Cut(evidence, 3)) \subseteq Range(evidence)
      /\ IsInjective(first) /\ Range(first) \subseteq Range(context.records)
  BY <1>1, <1>2, CutInjective
<1>4. evidence # <<>> => Cut(evidence, 3) # <<>>
  BY SubSeqOfNonempty
<1>5. context.records # <<>> => first # <<>>
  BY <1>1, <1>2, SubSeqOfNonempty
<1>6. PICK d : d = Fallback(reason)
  OBVIOUS
<1>7. /\ d.mode = "deterministic_fallback" /\ d.citations = Cut(evidence, 3)
      /\ d.references = first /\ d.acts = (evidence # <<>> \/ context.records # <<>>)
  BY <1>6 DEF Fallback, first
<1>8. GroundedDraft(d)
  BY <1>3, <1>4, <1>5, <1>7 DEF GroundedDraft
<1>9. QED
  BY <1>6, <1>8

(* The numbers a model cites, each once, stand for members of the list.    *)
LEMMA CitedValue ==
    ASSUME NEW S, NEW list \in Seq(S), IsInjective(list),
           NEW k \in Nat, NEW numbers \in [1..k -> Nat], Range(numbers) \subseteq DOMAIN list,
           NEW cited \in Cited(numbers, list)
    PROVE  /\ IsInjective(cited) /\ Range(cited) \subseteq Range(list)
           /\ numbers # <<>> => cited # <<>>
<1> DEFINE N == Range(numbers)
<1>1. PICK u : /\ u \in [1..Cardinality(N) -> N]
               /\ \A i, j \in DOMAIN u :
                     i < j => FirstMention(numbers, u[i]) < FirstMention(numbers, u[j])
               /\ cited = [i \in DOMAIN u |-> list[u[i]]]
  BY DEF Cited, Unique, Sorted
<1>2. IsFiniteSet(N)
  <2>1. IsFiniteSet(1..k) /\ numbers \in Surjection(1..k, N)
    BY FS_Interval DEF Surjection, Range
  <2>2. QED
    BY <2>1, FS_Surjection
<1>3. \A n \in N : FirstMention(numbers, n) \in Nat
  <2>1. ASSUME NEW n \in N PROVE FirstMention(numbers, n) \in Nat
    <3>1. {i \in DOMAIN numbers : numbers[i] = n} \subseteq Nat
      OBVIOUS
    <3>2. {i \in DOMAIN numbers : numbers[i] = n} # {}
      BY DEF Range
    <3>3. QED
      BY <3>1, <3>2, MinNumber DEF FirstMention
  <2>2. QED
    BY <2>1
<1>4. numbers # <<>> => N # {}
  <2>1. ASSUME N = {} PROVE numbers = <<>>
    <3>1. k = 0
      BY <2>1 DEF Range
    <3>2. QED
      BY <3>1
  <2>2. QED
    BY <2>1
<1> HIDE DEF N
<1>5. PICK n \in Nat : n = Cardinality(N) /\ (N # {} => n # 0)
  BY <1>2, FS_CardinalityType, FS_EmptySet
<1>6. \A i \in 1..n : u[i] \in N
  BY <1>1, <1>5
<1>7. \A i, j \in 1..n : i < j => u[i] # u[j]
  BY <1>1, <1>3, <1>5, <1>6
<1>8. DOMAIN cited = 1..n /\ \A i \in 1..n : cited[i] = list[u[i]] /\ u[i] \in DOMAIN list
  BY <1>1, <1>5, <1>6 DEF N
<1>9. IsInjective(cited)
  <2>1. \A i, j \in 1..n : cited[i] = cited[j] => i = j
    <3>1. \A i, j \in 1..n : u[i] = u[j] => i = j
      BY <1>7
    <3>2. \A a, b \in DOMAIN list : list[a] = list[b] => a = b
      BY DEF IsInjective
    <3>3. QED
      BY <1>8, <3>1, <3>2
  <2>2. QED
    BY <1>8, <2>1 DEF IsInjective
<1>10. Range(cited) \subseteq Range(list)
  <2>1. ASSUME NEW i \in 1..n PROVE cited[i] \in Range(list)
    <3>1. cited[i] = list[u[i]] /\ u[i] \in DOMAIN list
      BY <1>8
    <3>2. QED
      BY <3>1, InRange
  <2>2. QED
    BY <1>8, <2>1 DEF Range
<1>11. numbers # <<>> => cited # <<>>
  BY <1>4, <1>5, <1>8
<1>12. QED
  BY <1>9, <1>10, <1>11

-----------------------------------------------------------------------------
(* What a step leaves as it was.                                           *)
Searching == {"searching", "embedding", "vector", "keyword", "keyword_only"}

Gathered == {"gathering", "drafting", "asking", "interrupted", "returned"}

(* ToolsAreIndependent, said of a payload, its tools and a context.        *)
Independent(payload, told, known) ==
    /\ \A t \in DOMAIN told :
          LET name == payload.tools[t].name
              mine == {i \in DOMAIN known.records : known.records[i].tool_name = name}
          IN  /\ {known.records[i].record : i \in mine} = Range(told[t].records)
              /\ (\E f \in known.failures : f[1] = name) <=> told[t].failure # "none"
    /\ \A i, j \in DOMAIN known.records : i < j =>
          \E t, u \in DOMAIN told :
              /\ t <= u
              /\ payload.tools[t].name = known.records[i].tool_name
              /\ payload.tools[u].name = known.records[j].tool_name

LEMMA IndependentMeans ==
    ToolsAreIndependent <=> (status \in {"drafting", "pending_approval"} =>
                                 Independent(request, tools, context))
  BY Zenon DEF ToolsAreIndependent, Independent

LEMMA ToolsKept ==
    ASSUME ToolsInv, ToolsAreIndependent, UNCHANGED <<request, tools, context>>,
           status' \in {"drafting", "pending_approval"} =>
              status \in {"drafting", "pending_approval"},
           phase' \in Gathered => Distinct(request.tools)
    PROVE  ToolsInv' /\ ToolsAreIndependent'
<1>1. BusinessContext' = BusinessContext
  BY DEF BusinessContext, RecordsOf
<1>2. ToolsInv'
  <2>1. \A t \in DOMAIN tools' :
           /\ Acceptable(request.tools[t], tools[t].records)'
           /\ tools'[t].failure # "none" => tools'[t].records = <<>>
    BY DEF ToolsInv, Acceptable
  <2>2. Distinct(request.tools)' <=> Distinct(request.tools)
    BY DEF Distinct
  <2>3. QED
    BY <1>1, <2>1, <2>2 DEF ToolsInv, Gathered
<1>3. ToolsAreIndependent'
  <2>1. status' \in {"drafting", "pending_approval"} => Independent(request, tools, context)
    BY IndependentMeans
  <2>2. status' \in {"drafting", "pending_approval"} => Independent(request, tools, context)'
    BY <2>1
  <2>3. (ToolsAreIndependent <=> (status \in {"drafting", "pending_approval"} =>
                                      Independent(request, tools, context)))'
    BY IndependentMeans, PTL
  <2>4. QED
    BY <2>2, <2>3
<1>4. QED
  BY <1>2, <1>3

LEMMA DistinctGathered ==
    ASSUME ToolsInv, phase \in Gathered
    PROVE  Distinct(request.tools)
  BY DEF ToolsInv, Gathered

(* A run that has no draft yet.                                            *)
LEMMA Undrafted ==
    ASSUME status' # "pending_approval"
    PROVE  DraftIsGrounded'
  BY DEF DraftIsGrounded

LEMMA DraftMeans ==
    DraftIsGrounded <=> (status = "pending_approval" => GroundedDraft(draft))
  BY DEF DraftIsGrounded, GroundedDraft

LEMMA TypeKept ==
    ASSUME NodesTypeOK, UNCHANGED <<base, request, tools>>,
           hits' \in [vector : Seq(Chunks), keyword : Seq(Chunks)], evidence' \in Seq(Chunks),
           asking' \in [tries : Nat, attempt : 0..1, sent : Nat]
    PROVE  NodesTypeOK'
  BY DEF NodesTypeOK

LEMMA NotAskedSound ==
    ASSUME asking' = NotAsked, phase' # "asking", request' = request
    PROVE  /\ AskingInv' /\ RequestsBounded'
           /\ asking' \in [tries : Nat, attempt : 0..1, sent : Nat]
<1>1. asking' = [tries |-> 0, attempt |-> 0, sent |-> 0]
  BY DEF NotAsked
<1>2. asking'.sent = 0 /\ asking'.attempt = 0
  BY <1>1
<1>3. AskingInv'
  BY <1>2 DEF AskingInv, NotAsked
<1>4. RequestsBounded'
  <2>1. PICK m \in {1, 2} : m = PerTry'
    BY DEF PerTry
  <2>2. MaxRetries \in Nat /\ 0 <= (MaxRetries + 1) * m
    BY SettingsAssumption
  <2>3. QED
    BY <1>2, <2>1, <2>2 DEF RequestsBounded
<1>5. QED
  BY <1>1, <1>3, <1>4

LEMMA NoHitsTyped ==
    NoHits \in [vector : Seq(Chunks), keyword : Seq(Chunks)] /\ IsInjective(NoHits.vector)
<1>1. <<>> \in Seq(Chunks) /\ IsInjective(<<>>)
  BY DEF IsInjective
<1>2. QED
  BY <1>1 DEF NoHits

(* What ends a run at a node, or between two, tells the client what the    *)
(* history keeps, and is an error of a service only in retrieval.          *)
LEMMA KindsOfErrors ==
    /\ DOMAIN Kind = CallErrors \cup {ConfigurationError}
    /\ \A x \in DOMAIN Kind : Kind[x] # "unexpected"
    /\ "none" \notin DOMAIN Kind /\ "unexpected" \notin DOMAIN Kind /\ "value" \notin DOMAIN Kind
  BY DEF Kind, CallErrors, ConfigurationError

LEMMA UnbrokenAgrees ==
    ASSUME errors' = {}, reply'.cause = "none"
    PROVE  ErrorsAgree'
  BY DEF ErrorsAgree, ServiceFailed, CallErrors, ConfigurationError

Running == phase \notin {"new", "returned", "failed"}

LEMMA RaisesSound ==
    ASSUME NodesInv, Running, NEW stage, NEW error, NodeRaises(stage, error),
           stage \in DOMAIN NodeStatus => status = NodeStatus[stage],
           error \in DOMAIN Kind => stage = "retrieval"
    PROVE  NodesInv'
<1>1. /\ phase' = "failed" /\ hits' = NoHits /\ asking' = NotAsked
      /\ UNCHANGED <<base, request, status, evidence, tools, context, draft>>
      /\ errors' \subseteq errors \cup {[stage |-> stage, is |-> Classified(error)]}
      /\ reply' = [status |-> IF error \in DOMAIN Kind THEN HttpStatus(error) ELSE 500,
                   cause |-> error]
  BY DEF NodeRaises
<1>2. /\ errors = {}
      /\ status \in {"none", "created", "querying_business_context", "drafting",
                     "pending_approval"}
  BY DEF NodesInv, ProgressInv, Running
<1>3. NodesTypeOK' /\ AskingInv' /\ RequestsBounded'
  BY <1>1, TypeKept, NotAskedSound, NoHitsTyped DEF NodesInv, NodesTypeOK
<1>4. ProgressInv'
  BY <1>1, <1>2 DEF ProgressInv
<1>5. HitsInv' /\ FusionKeepsOrder'
  BY <1>1, NoHitsTyped DEF NodesInv, HitsInv, FusionKeepsOrder
<1>6. ToolsInv' /\ ToolsAreIndependent'
  BY <1>1, ToolsKept DEF NodesInv, Gathered
<1>7. DraftIsGrounded'
  <2>1. status = "pending_approval" => GroundedDraft(draft)
    BY DraftMeans DEF NodesInv
  <2>2. status' = "pending_approval" => GroundedDraft(draft)'
    BY <1>1, <2>1 DEF GroundedDraft, Grounds
  <2>3. (DraftIsGrounded <=> (status = "pending_approval" => GroundedDraft(draft)))'
    BY DraftMeans, PTL
  <2>4. QED
    BY <2>2, <2>3
<1>8. ErrorsAgree'
  <2>1. PICK is : is = Classified(error)
    OBVIOUS
  <2>2. /\ is.retryable => reply'.status = 503
        /\ is.kind = "unexpected" <=> reply'.status = 500
        /\ is.kind # "unexpected" => error \in DOMAIN Kind
        /\ error \in DOMAIN Kind => reply'.status \in {502, 503}
    <3>1. CASE error \in DOMAIN Kind
      <4>1. is.kind = Kind[error] /\ is.retryable = Retryable(error)
        BY <2>1, <3>1 DEF Classified
      <4>2. reply'.status = HttpStatus(error)
        BY <1>1, <3>1
      <4>3. HttpStatus(error) \in {502, 503} /\ (Retryable(error) => HttpStatus(error) = 503)
        BY DEF HttpStatus
      <4>4. QED
        BY <3>1, <4>1, <4>2, <4>3, KindsOfErrors
    <3>2. CASE error \notin DOMAIN Kind
      <4>1. is.kind = "unexpected" /\ is.retryable = FALSE
        BY <2>1, <3>2 DEF Classified
      <4>2. reply'.status = 500
        BY <1>1, <3>2
      <4>3. QED
        BY <3>2, <4>1, <4>2
    <3>3. QED
      BY <3>1, <3>2
  <2>3. \A e \in errors' : e = [stage |-> stage, is |-> is]
    BY <1>1, <1>2, <2>1
  <2>4. \A e \in errors' : e.stage = stage /\ e.is = is
    BY <2>3
  <2>5. stage \in DOMAIN NodeStatus => status' = NodeStatus[stage]
    BY <1>1
  <2>6. error \in DOMAIN Kind => stage = "retrieval" /\ status' = "created"
    BY <2>5 DEF NodeStatus
  <2>7. ServiceFailed' <=> error \in DOMAIN Kind
    BY <1>1, KindsOfErrors DEF ServiceFailed
  <2>8. QED
    BY <2>2, <2>4, <2>5, <2>6, <2>7 DEF ErrorsAgree
<1>9. QED
  BY <1>3, <1>4, <1>5, <1>6, <1>7, <1>8 DEF NodesInv

-----------------------------------------------------------------------------
(* The steps of the retrieval node.                                        *)
LEMMA RetrievedSound ==
    ASSUME NodesInv, phase \in Searching, NEW found, Ranking(found.vector),
           found \in [vector : Seq(Chunks), keyword : Seq(Chunks)],
           NEW result \in Seq(Chunks), KeepsOrder(found, result), Retrieved(found, result)
    PROVE  NodesInv'
<1>1. /\ hits' = found /\ evidence' = result /\ asking' = NotAsked
      /\ status' = "querying_business_context" /\ phase' = "calling"
      /\ UNCHANGED <<base, request, tools, context, draft, errors, reply>>
  BY DEF Retrieved
<1>2. errors = {} /\ reply.cause = "none"
  BY DEF NodesInv, ProgressInv, Searching
<1>3. NodesTypeOK' /\ AskingInv' /\ RequestsBounded'
  BY <1>1, TypeKept, NotAskedSound DEF NodesInv
<1>4. ProgressInv'
  BY <1>1, <1>2 DEF ProgressInv
<1>5. HitsInv' /\ FusionKeepsOrder'
  BY <1>1 DEF HitsInv, FusionKeepsOrder, KeepsOrder, Ranking
<1>6. ToolsInv' /\ ToolsAreIndependent'
  BY <1>1, ToolsKept DEF NodesInv, Gathered
<1>7. DraftIsGrounded' /\ ErrorsAgree'
  BY <1>1, <1>2, Undrafted, UnbrokenAgrees
<1>8. QED
  BY <1>3, <1>4, <1>5, <1>6, <1>7 DEF NodesInv

LEMMA WaitsSound ==
    ASSUME NodesInv, phase \in Searching, NEW next \in Searching, Waits(next),
           hits' \in [vector : Seq(Chunks), keyword : Seq(Chunks)], IsInjective(hits'.vector),
           next \in {"searching", "embedding", "vector", "keyword_only"} => hits' = NoHits,
           next = "keyword" => hits'.keyword = <<>> /\ Len(hits'.vector) <= Candidates,
           request.mode # "keyword",
           asking' \in [tries : Nat, attempt : 0..1, sent : Nat],
           AskingInv', RequestsBounded'
    PROVE  NodesInv'
<1>1. /\ phase' = next
      /\ UNCHANGED <<base, request, status, evidence, tools, context, draft, errors, reply>>
  BY DEF Waits
<1>2. errors = {} /\ reply.cause = "none" /\ status = "created"
  BY DEF NodesInv, ProgressInv, Searching
<1>3. NodesTypeOK'
  BY <1>1, TypeKept DEF NodesInv, NodesTypeOK
<1>4. ProgressInv'
  BY <1>1, <1>2 DEF ProgressInv, Searching
<1>5. HitsInv' /\ FusionKeepsOrder'
  BY <1>1 DEF NodesInv, HitsInv, FusionKeepsOrder, Searching
<1>6. ToolsInv' /\ ToolsAreIndependent'
  BY <1>1, <1>2, ToolsKept DEF NodesInv, Gathered, Searching
<1>7. DraftIsGrounded' /\ ErrorsAgree'
  BY <1>1, <1>2, Undrafted, UnbrokenAgrees
<1>8. QED
  BY <1>3, <1>4, <1>5, <1>6, <1>7 DEF NodesInv

LEMMA HitsTyped ==
    ASSUME NodesInv
    PROVE  /\ hits \in [vector : Seq(Chunks), keyword : Seq(Chunks)]
           /\ base.present \subseteq Chunks /\ base.embedded \subseteq Chunks
           /\ IsInjective(hits.vector)
           /\ TopK \in Nat /\ Candidates \in Nat
           /\ phase \in Searching \ {"embedding"} => asking = NotAsked
           /\ phase \in Searching \ {"keyword"} => hits = NoHits
           /\ phase = "keyword" => hits.keyword = <<>> /\ Len(hits.vector) <= Candidates
           /\ phase \in Searching \ {"searching"} => request.mode # "keyword"
  BY SettingsAssumption DEF NodesInv, NodesTypeOK, HitsInv, AskingInv, Searching

(* One channel alone.                                                      *)
LEMMA OneChannelSound ==
    ASSUME NodesInv, phase \in Searching, NEW seen, seen \subseteq Chunks,
           NEW found \in Found(seen, TopK), NEW only,
           \/ only = [NoHits EXCEPT !.vector = found]
           \/ only = [NoHits EXCEPT !.keyword = found]
    PROVE  /\ Retrieved(only, found) => NodesInv'
           /\ \A result \in Fuse(only) : Retrieved(only, result) => NodesInv'
<1>1. found \in Seq(Chunks) /\ IsInjective(found) /\ Len(found) <= TopK /\ Ranking(found)
  BY HitsTyped, FoundValue DEF Ranking
<1>2. <<>> \in Seq(Chunks) /\ Ranking(<<>>)
  BY NothingFound
<1>3. /\ Ranking(only.vector) /\ Ranking(only.keyword)
      /\ only \in [vector : Seq(Chunks), keyword : Seq(Chunks)]
  BY <1>1, <1>2 DEF NoHits
<1>4. KeepsOrder(only, found)
  BY <1>1, RankingKeepsOrder
<1>5. \A result \in Fuse(only) : KeepsOrder(only, result) /\ result \in Seq(Chunks)
  BY <1>3, FuseKeepsOrder
<1>6. QED
  BY <1>1, <1>3, <1>4, <1>5, RetrievedSound

LEMMA SearchKeywordsSound ==
    ASSUME NodesInv, SearchKeywords
    PROVE  NodesInv'
<1>1. phase \in Searching /\ base.present \subseteq Chunks
  BY HitsTyped DEF SearchKeywords, Searching
<1>2. PICK found \in Found(base.present, TopK) :
         Retrieved([NoHits EXCEPT !.keyword = found], found)
  BY DEF SearchKeywords
<1>3. QED
  BY <1>1, <1>2, OneChannelSound

LEMMA SearchKeywordsOnlySound ==
    ASSUME NodesInv, SearchKeywordsOnly
    PROVE  NodesInv'
<1>1. phase \in Searching /\ base.present \subseteq Chunks
  BY HitsTyped DEF SearchKeywordsOnly, Searching
<1>2. PICK found \in Found(base.present, TopK) :
         \E result \in Fuse([NoHits EXCEPT !.keyword = found]) :
             Retrieved([NoHits EXCEPT !.keyword = found], result)
  BY DEF SearchKeywordsOnly
<1>3. QED
  BY <1>1, <1>2, OneChannelSound

LEMMA CheckSearchableSound ==
    ASSUME NodesInv, CheckSearchable
    PROVE  NodesInv'
<1>1. /\ phase = "searching" /\ phase \in Searching /\ hits = NoHits /\ asking = NotAsked
      /\ request.mode # "keyword"
  BY HitsTyped DEF CheckSearchable, Searching
<1>2. CASE Retrieved(NoHits, <<>>)
  <2>1. <<>> \in Seq(Chunks) /\ Ranking(NoHits.vector) /\ KeepsOrder(NoHits, <<>>)
    BY NothingFound DEF NoHits
  <2>2. QED
    BY <1>1, <1>2, <2>1, NoHitsTyped, RetrievedSound
<1>3. ASSUME NEW next \in {"embedding", "keyword_only"}, Waits(next), UNCHANGED <<hits, asking>>
      PROVE  NodesInv'
  <2>1. phase' = next /\ request' = request
    BY <1>3 DEF Waits
  <2>2. /\ AskingInv' /\ RequestsBounded'
        /\ asking' \in [tries : Nat, attempt : 0..1, sent : Nat]
    BY <1>1, <1>3, <2>1, NotAskedSound
  <2>3. next \in Searching /\ next # "keyword"
    BY DEF Searching
  <2>4. QED
    BY <1>1, <1>3, <2>2, <2>3, NoHitsTyped, WaitsSound
<1>4. QED
  BY <1>2, <1>3 DEF CheckSearchable

LEMMA EmbedQuerySound ==
    ASSUME NodesInv, EmbedQuery
    PROVE  NodesInv'
<1>1. /\ phase \in Searching /\ hits = NoHits /\ hits' = NoHits /\ request.mode # "keyword"
      /\ Waits("vector") /\ asking' = NotAsked
  BY HitsTyped DEF EmbedQuery, Searching
<1>2. phase' = "vector" /\ request' = request
  BY <1>1 DEF Waits
<1>3. /\ AskingInv' /\ RequestsBounded'
      /\ asking' \in [tries : Nat, attempt : 0..1, sent : Nat]
  BY <1>1, <1>2, NotAskedSound
<1>4. "vector" \in Searching
  BY DEF Searching
<1>5. QED
  BY <1>1, <1>3, <1>4, NoHitsTyped, WaitsSound

LEMMA RetrievalRaisesSound ==
    ASSUME NodesInv, phase \in Searching, NEW error, NodeRaises("retrieval", error)
    PROVE  NodesInv'
<1>1. Running /\ status = "created"
  BY DEF NodesInv, ProgressInv, Searching, Running
<1>2. QED
  BY <1>1, RaisesSound DEF NodeStatus

LEMMA EmbedQueryFailsSound ==
    ASSUME NodesInv, EmbedQueryFails
    PROVE  NodesInv'
<1>1. /\ phase = "embedding" /\ phase \in Searching /\ hits = NoHits
      /\ request.mode # "keyword"
  BY HitsTyped DEF EmbedQueryFails, Searching
<1>2. ASSUME NEW error, NodeRaises("retrieval", error)
      PROVE  NodesInv'
  BY <1>1, <1>2, RetrievalRaisesSound
<1>3. ASSUME Waits("embedding"), UNCHANGED hits, asking' = [asking EXCEPT !.tries = @ + 1]
      PROVE  NodesInv'
  <2>1. /\ asking \in [tries : Nat, attempt : 0..1, sent : Nat]
        /\ asking.attempt = 0 /\ asking.sent = 0
    BY <1>1 DEF NodesInv, NodesTypeOK, AskingInv
  <2>2. /\ asking' \in [tries : Nat, attempt : 0..1, sent : Nat]
        /\ asking'.attempt = 0 /\ asking'.sent = 0
    BY <1>3, <2>1
  <2>3. phase' = "embedding" /\ request' = request
    BY <1>3 DEF Waits
  <2>4. AskingInv'
    BY <2>2, <2>3 DEF AskingInv
  <2>5. RequestsBounded'
    <3>1. PerTry' = PerTry /\ RequestsBounded
      BY <2>3 DEF PerTry, NodesInv
    <3>2. QED
      BY <2>1, <2>2, <3>1 DEF RequestsBounded
  <2>6. "embedding" \in Searching
    BY DEF Searching
  <2>7. QED
    BY <1>1, <1>3, <2>2, <2>4, <2>5, <2>6, NoHitsTyped, WaitsSound
<1>4. QED
  BY <1>2, <1>3 DEF EmbedQueryFails

LEMMA SearchVectorsSound ==
    ASSUME NodesInv, SearchVectors
    PROVE  NodesInv'
<1>1. /\ phase = "vector" /\ phase \in Searching /\ hits = NoHits /\ asking = NotAsked
      /\ base.embedded \subseteq Chunks /\ request \in Requests /\ request.mode # "keyword"
      /\ Candidates \in Nat
  BY HitsTyped DEF SearchVectors, Searching, NodesInv, NodesTypeOK
<1>2. CASE request.mode = "vector"
  <2>1. PICK found \in Found(base.embedded, TopK) :
           Retrieved([NoHits EXCEPT !.vector = found], found)
    BY <1>2 DEF SearchVectors
  <2>2. QED
    BY <1>1, <2>1, OneChannelSound
<1>3. CASE request.mode # "vector"
  <2>1. request.mode = "hybrid"
    BY <1>1, <1>3, RequestsAssumption
  <2>2. PICK found \in Found(base.embedded, Candidates) :
           Waits("keyword") /\ hits' = [hits EXCEPT !.vector = found] /\ UNCHANGED asking
    BY <1>3, <2>1 DEF SearchVectors
  <2>3. found \in Seq(Chunks) /\ IsInjective(found) /\ Len(found) <= Candidates
    BY <1>1, FoundValue
  <2>4. /\ hits' \in [vector : Seq(Chunks), keyword : Seq(Chunks)]
        /\ hits'.vector = found /\ hits'.keyword = <<>>
    BY <1>1, <2>2, <2>3, NoHitsTyped DEF NoHits
  <2>5. phase' = "keyword" /\ request' = request
    BY <2>2 DEF Waits
  <2>6. /\ AskingInv' /\ RequestsBounded'
        /\ asking' \in [tries : Nat, attempt : 0..1, sent : Nat]
    BY <1>1, <2>2, <2>5, NotAskedSound
  <2>7. "keyword" \in Searching
    BY DEF Searching
  <2>8. QED
    BY <1>1, <2>2, <2>3, <2>4, <2>6, <2>7, WaitsSound
<1>4. QED
  BY <1>2, <1>3

LEMMA SearchBothSound ==
    ASSUME NodesInv, SearchBoth
    PROVE  NodesInv'
<1>1. /\ phase \in Searching /\ base.present \subseteq Chunks
      /\ hits \in [vector : Seq(Chunks), keyword : Seq(Chunks)]
      /\ IsInjective(hits.vector) /\ Len(hits.vector) <= Candidates
  BY HitsTyped DEF SearchBoth, Searching
<1>2. PICK found \in Found(base.present, Candidates) :
         \E result \in Fuse([hits EXCEPT !.keyword = found]) :
             Retrieved([hits EXCEPT !.keyword = found], result)
  BY DEF SearchBoth
<1>3. found \in Seq(Chunks) /\ Ranking(found)
  BY <1>1, HitsTyped, FoundValue DEF Ranking
<1>4. PICK both : both = [hits EXCEPT !.keyword = found]
  OBVIOUS
<1>5. /\ both \in [vector : Seq(Chunks), keyword : Seq(Chunks)]
      /\ both.vector = hits.vector /\ both.keyword = found
  BY <1>1, <1>3, <1>4
<1>6. Ranking(both.vector) /\ Ranking(both.keyword)
  BY <1>1, <1>3, <1>5 DEF Ranking
<1>7. PICK result \in Fuse(both) : Retrieved(both, result)
  BY <1>2, <1>4
<1>8. KeepsOrder(both, result) /\ result \in Seq(Chunks)
  BY <1>6, <1>7, FuseKeepsOrder
<1>9. QED
  BY <1>1, <1>5, <1>6, <1>7, <1>8, RetrievedSound

LEMMA UploadedSound ==
    ASSUME NodesInv, Uploaded
    PROVE  NodesInv'
<1>1. /\ phase \in Searching /\ phase \notin Gathered /\ phase # "calling"
      /\ UNCHANGED <<request, status, phase, hits, evidence, tools, context, asking,
                     draft, errors, reply>>
  BY DEF Uploaded, Searching, Gathered
<1>2. PICK c \in Chunks :
         base' = [present |-> base.present \cup {c},
                  embedded |-> base.embedded \cup {c}, growth |-> base.growth + 1]
  BY DEF Uploaded
<1>3. base' \in [present : SUBSET Chunks, embedded : SUBSET Chunks, growth : Nat]
  BY <1>2 DEF NodesInv, NodesTypeOK
<1>4. NodesTypeOK'
  BY <1>1, <1>3 DEF NodesInv, NodesTypeOK
<1>5. ProgressInv' /\ HitsInv' /\ FusionKeepsOrder'
  BY <1>1 DEF NodesInv, ProgressInv, HitsInv, FusionKeepsOrder
<1>6. ToolsInv' /\ ToolsAreIndependent'
  BY <1>1, ToolsKept DEF NodesInv
<1>7. AskingInv' /\ RequestsBounded' /\ DraftIsGrounded' /\ ErrorsAgree'
  <2>1. PerTry' = PerTry /\ Grounds' = Grounds
    BY <1>1 DEF PerTry, Grounds
  <2>2. QED
    BY <1>1, <2>1 DEF NodesInv, AskingInv, RequestsBounded, DraftIsGrounded, ErrorsAgree,
       ServiceFailed
<1>8. QED
  BY <1>4, <1>5, <1>6, <1>7 DEF NodesInv

LEMMA StartSound ==
    ASSUME NodesInv, Start \/ Invoke
    PROVE  NodesInv'
<1>1. /\ phase' \in {"starting", "searching"} /\ status' \in {"none", "created"}
      /\ <<status', phase'>> \in {<<"none", "starting">>, <<"created", "searching">>}
      /\ UNCHANGED <<base, request, hits, evidence, tools, context, asking, draft,
                     errors, reply>>
      /\ errors = {} /\ reply.cause = "none" /\ hits = NoHits /\ asking = NotAsked
  BY DEF Start, Invoke, NodesInv, ProgressInv, HitsInv, AskingInv
<1>2. NodesTypeOK' /\ AskingInv' /\ RequestsBounded'
  BY <1>1, TypeKept, NotAskedSound, NoHitsTyped DEF NodesInv, NodesTypeOK
<1>3. ProgressInv' /\ HitsInv' /\ FusionKeepsOrder'
  BY <1>1 DEF NodesInv, ProgressInv, HitsInv, FusionKeepsOrder
<1>4. ToolsInv' /\ ToolsAreIndependent'
  BY <1>1, ToolsKept DEF NodesInv, Gathered
<1>5. DraftIsGrounded' /\ ErrorsAgree'
  BY <1>1, Undrafted, UnbrokenAgrees
<1>6. QED
  BY <1>2, <1>3, <1>4, <1>5 DEF NodesInv

-----------------------------------------------------------------------------
(* The steps of the business tools.                                        *)
LEMMA Unindependent ==
    ASSUME status' \notin {"drafting", "pending_approval"}
    PROVE  ToolsAreIndependent'
  BY DEF ToolsAreIndependent

LEMMA CallToolsSound ==
    ASSUME NodesInv, CallTools
    PROVE  NodesInv'
<1>1. /\ phase = "calling" /\ status = "querying_business_context" /\ hits' = NoHits
      /\ errors = {} /\ reply.cause = "none"
  BY DEF CallTools, NodesInv, ProgressInv
<1>2. CASE Distinct(request.tools)
  <2>1. /\ phase' = "gathering" /\ asking' = asking
        /\ UNCHANGED <<base, request, status, evidence, tools, context, draft, errors, reply>>
    BY <1>2 DEF CallTools, Waits
  <2>2. asking' = NotAsked
    BY <1>1, <2>1 DEF NodesInv, AskingInv
  <2>3. NodesTypeOK' /\ AskingInv' /\ RequestsBounded'
    BY <1>1, <2>1, <2>2, TypeKept, NotAskedSound, NoHitsTyped DEF NodesInv, NodesTypeOK
  <2>4. ProgressInv' /\ HitsInv' /\ FusionKeepsOrder'
    BY <1>1, <2>1, NoHitsTyped DEF NodesInv, ProgressInv, HitsInv, FusionKeepsOrder
  <2>5. ToolsInv' /\ ToolsAreIndependent'
    BY <1>1, <1>2, <2>1, ToolsKept DEF NodesInv, Gathered
  <2>6. DraftIsGrounded' /\ ErrorsAgree'
    BY <1>1, <2>1, Undrafted, UnbrokenAgrees
  <2>7. QED
    BY <2>3, <2>4, <2>5, <2>6 DEF NodesInv
<1>3. CASE ~Distinct(request.tools)
  <2>1. NodeRaises("business_context", "value")
    BY <1>3 DEF CallTools
  <2>2. Running /\ status = NodeStatus["business_context"]
    BY <1>1 DEF Running, NodeStatus
  <2>3. QED
    BY <2>1, <2>2, KindsOfErrors, RaisesSound
<1>4. QED
  BY <1>2, <1>3

LEMMA SettleSound ==
    ASSUME NodesInv, phase = "gathering", NEW t \in DOMAIN tools,
           NEW records \in Seq(Record), Acceptable(request.tools[t], records),
           NEW failure \in ToolErrors \cup {"none"}, failure # "none" => records = <<>>,
           Settle(t, Answered(records, failure))
    PROVE  NodesInv'
<1>1. /\ tools' = [tools EXCEPT ![t] = Answered(records, failure)]
      /\ UNCHANGED <<base, request, status, phase, hits, evidence, context, asking,
                     draft, errors, reply>>
      /\ status = "querying_business_context" /\ errors = {} /\ reply.cause = "none"
  BY DEF Settle, NodesInv, ProgressInv
<1>2. PICK result : result = Answered(records, failure)
  OBVIOUS
<1>3. /\ result.records = records /\ result.failure = failure
      /\ result \in [answered : BOOLEAN, failure : ToolErrors \cup {"none"}, records : Seq(Record)]
  BY <1>2 DEF Answered
<1>4. tools \in [DOMAIN request.tools ->
                     [answered : BOOLEAN, failure : ToolErrors \cup {"none"},
                      records : Seq(Record)]]
  BY DEF NodesInv, NodesTypeOK, Record
<1>5. /\ tools' \in [DOMAIN request.tools ->
                         [answered : BOOLEAN, failure : ToolErrors \cup {"none"},
                          records : Seq(Record)]]
      /\ DOMAIN tools' = DOMAIN tools
      /\ \A u \in DOMAIN tools : tools'[u] = IF u = t THEN result ELSE tools[u]
  BY <1>1, <1>2, <1>3, <1>4
<1>6. NodesTypeOK'
  BY <1>1, <1>5 DEF NodesInv, NodesTypeOK, Record
<1>7. ToolsInv'
  <2>1. ASSUME NEW u \in DOMAIN tools'
        PROVE  /\ Acceptable(request.tools[u], tools[u].records)'
               /\ tools'[u].failure # "none" => tools'[u].records = <<>>
    <3>1. CASE u = t
      <4>1. tools'[u] = result
        BY <1>5, <3>1
      <4>2. Acceptable(request'.tools[u], tools'[u].records)
        BY <1>1, <1>3, <3>1, <4>1
      <4>3. QED
        BY <1>3, <4>1, <4>2
    <3>2. CASE u # t
      <4>1. tools'[u] = tools[u] /\ u \in DOMAIN tools
        BY <1>5, <3>2
      <4>2. Acceptable(request.tools[u], tools[u].records)
            /\ (tools[u].failure # "none" => tools[u].records = <<>>)
        BY <4>1 DEF NodesInv, ToolsInv
      <4>3. Acceptable(request'.tools[u], tools'[u].records)
        BY <1>1, <4>1, <4>2
      <4>4. QED
        BY <4>1, <4>2, <4>3
    <3>3. QED
      BY <3>1, <3>2
  <2>2. Distinct(request.tools)'
    <3>1. Distinct(request.tools)
      BY DEF NodesInv, ToolsInv
    <3>2. Distinct(request'.tools)
      BY <1>1, <3>1
    <3>3. QED
      BY <3>2
  <2>3. QED
    BY <1>1, <2>1, <2>2 DEF ToolsInv
<1>8. ProgressInv' /\ HitsInv' /\ FusionKeepsOrder'
  BY <1>1 DEF NodesInv, ProgressInv, HitsInv, FusionKeepsOrder
<1>9. AskingInv' /\ RequestsBounded'
  <2>1. asking' = NotAsked /\ phase' # "asking"
    BY <1>1 DEF NodesInv, AskingInv
  <2>2. QED
    BY <1>1, <2>1, NotAskedSound
<1>10. DraftIsGrounded' /\ ErrorsAgree' /\ ToolsAreIndependent'
  BY <1>1, Undrafted, Unindependent, UnbrokenAgrees
<1>11. QED
  BY <1>6, <1>7, <1>8, <1>9, <1>10 DEF NodesInv

LEMMA ToolReturnsSound ==
    ASSUME NodesInv, NEW t \in DOMAIN tools, ToolReturns(t) \/ ToolFails(t)
    PROVE  NodesInv'
<1>1. phase = "gathering"
  BY DEF ToolReturns, ToolFails
<1>2. <<>> \in Seq(Record) /\ Acceptable(request.tools[t], <<>>)
  BY SettingsAssumption DEF Acceptable
<1>3. CASE ToolReturns(t)
  <2>1. PICK found \in ToolRecords :
           Settle(t, IF Acceptable(request.tools[t], found) THEN Answered(found, "none")
                     ELSE Answered(<<>>, "invalid_response"))
    BY <1>3 DEF ToolReturns
  <2>2. found \in Seq(Record)
    <3>1. PICK n \in 0..(ToolLimit + 1) : found \in [1..n -> Record]
      BY DEF ToolRecords, Record
    <3>2. n \in Nat
      BY <3>1, SettingsAssumption
    <3>3. QED
      BY <3>1, <3>2
  <2>3. CASE Acceptable(request.tools[t], found)
    <3>1. Settle(t, Answered(found, "none"))
      BY <2>1, <2>3
    <3>2. QED
      BY <1>1, <2>2, <2>3, <3>1, SettleSound
  <2>4. CASE ~Acceptable(request.tools[t], found)
    <3>1. Settle(t, Answered(<<>>, "invalid_response"))
      BY <2>1, <2>4
    <3>2. "invalid_response" \in ToolErrors \cup {"none"}
      BY DEF ToolErrors
    <3>3. QED
      BY <1>1, <1>2, <3>1, <3>2, SettleSound
  <2>5. QED
    BY <2>3, <2>4
<1>4. CASE ToolFails(t)
  <2>1. PICK failure \in ToolErrors : Settle(t, Answered(<<>>, failure))
    BY <1>4 DEF ToolFails
  <2>2. QED
    BY <1>1, <1>2, <2>1, SettleSound
<1>5. QED
  BY <1>3, <1>4

LEMMA ToolsReturnSound ==
    ASSUME NodesInv, ToolsReturn
    PROVE  NodesInv'
<1>1. /\ context' = BusinessContext /\ status' = "drafting" /\ phase' = "drafting"
      /\ UNCHANGED <<base, request, hits, evidence, tools, asking, draft, errors, reply>>
      /\ phase = "gathering" /\ errors = {} /\ reply.cause = "none" /\ asking' = NotAsked
  BY DEF ToolsReturn, NodesInv, ProgressInv, AskingInv
<1>2. NodesTypeOK' /\ AskingInv' /\ RequestsBounded'
  BY <1>1, TypeKept, NotAskedSound DEF NodesInv, NodesTypeOK
<1>3. ProgressInv' /\ HitsInv' /\ FusionKeepsOrder'
  BY <1>1 DEF NodesInv, ProgressInv, HitsInv, FusionKeepsOrder
<1>4. context' = BusinessContext'
  BY <1>1 DEF BusinessContext, RecordsOf
<1>5. ToolsInv'
  <2>1. Distinct(request.tools) /\ ToolsInv
    BY <1>1, DistinctGathered DEF NodesInv, Gathered
  <2>2. Distinct(request.tools)' /\ request' = request /\ tools' = tools
    BY <1>1, <2>1 DEF Distinct
  <2>3. QED
    BY <1>4, <2>1, <2>2 DEF ToolsInv, Acceptable
<1>6. ToolsAreIndependent'
  <2>1. (NodesTypeOK /\ ToolsInv /\ Distinct(request.tools) /\ context = BusinessContext
            => ToolsAreIndependent)'
    BY ContextKnown, PTL
  <2>2. Distinct(request.tools)'
    BY <1>1, <1>5 DEF ToolsInv
  <2>3. QED
    BY <1>2, <1>4, <1>5, <2>1, <2>2
<1>7. DraftIsGrounded' /\ ErrorsAgree'
  BY <1>1, Undrafted, UnbrokenAgrees
<1>8. QED
  BY <1>2, <1>3, <1>5, <1>6, <1>7 DEF NodesInv

-----------------------------------------------------------------------------
(* The steps of the draft.                                                 *)
Drafting == {"drafting", "asking"}

LEMMA DraftingState ==
    ASSUME NodesInv, phase \in Drafting
    PROVE  /\ status = "drafting" /\ errors = {} /\ reply.cause = "none"
           /\ evidence \in Seq(Chunks) /\ IsInjective(evidence)
           /\ context.records \in Seq(Entry) /\ IsInjective(context.records)
           /\ asking \in [tries : Nat, attempt : 0..1, sent : Nat]
           /\ MaxRetries \in Nat /\ PerTry \in {1, 2}
<1>1. status = "drafting" /\ errors = {} /\ reply.cause = "none"
  BY DEF NodesInv, ProgressInv, Drafting
<1>2. context = BusinessContext /\ Distinct(request.tools)
  BY <1>1, DistinctGathered DEF NodesInv, ToolsInv, Gathered, Drafting
<1>3. context.records \in Seq(Entry) /\ IsInjective(context.records)
  BY <1>2, ContextKnown DEF NodesInv
<1>4. QED
  BY <1>1, <1>3, SettingsAssumption DEF NodesInv, NodesTypeOK, HitsInv, PerTry

(* A draft that is grounded ends the drafting, however often the service   *)
(* was asked for it.                                                       *)
LEMMA DraftedSound ==
    ASSUME NodesInv, phase \in Drafting, NEW d, GroundedDraft(d), Drafted(d),
           hits' = hits, asking' \in [tries : Nat, attempt : 0..1, sent : Nat],
           RequestsBounded'
    PROVE  NodesInv'
<1>1. /\ draft' = d /\ status' = "pending_approval" /\ phase' = "interrupted"
      /\ UNCHANGED <<base, request, hits, evidence, tools, context, errors, reply>>
      /\ status = "drafting" /\ errors = {} /\ reply.cause = "none"
  BY DraftingState DEF Drafted
<1>2. NodesTypeOK'
  BY <1>1, TypeKept DEF NodesInv, NodesTypeOK
<1>3. ProgressInv' /\ HitsInv' /\ FusionKeepsOrder'
  BY <1>1 DEF NodesInv, ProgressInv, HitsInv, FusionKeepsOrder
<1>4. ToolsInv' /\ ToolsAreIndependent'
  <2>1. Distinct(request.tools)
    BY DistinctGathered DEF NodesInv, Drafting, Gathered
  <2>2. QED
    BY <1>1, <2>1, ToolsKept DEF NodesInv
<1>5. AskingInv' /\ ErrorsAgree'
  BY <1>1, UnbrokenAgrees DEF AskingInv
<1>6. DraftIsGrounded'
  <2>1. GroundedDraft(d)'
    BY <1>1 DEF GroundedDraft, Grounds
  <2>2. GroundedDraft(draft)'
    BY <1>1, <2>1 DEF GroundedDraft
  <2>3. (DraftIsGrounded <=> (status = "pending_approval" => GroundedDraft(draft)))'
    BY DraftMeans, PTL
  <2>4. QED
    BY <2>2, <2>3
<1>7. QED
  BY <1>2, <1>3, <1>4, <1>5, <1>6 DEF NodesInv

LEMMA AsksOnSound ==
    ASSUME NodesInv, phase \in Drafting, Waits("asking"), UNCHANGED hits,
           request.use_model, Grounds,
           asking' \in [tries : Nat, attempt : 0..1, sent : Nat],
           asking'.tries <= MaxRetries, asking'.attempt < PerTry,
           asking'.sent <= asking'.tries * PerTry + asking'.attempt
    PROVE  NodesInv'
<1>1. /\ phase' = "asking"
      /\ UNCHANGED <<base, request, status, hits, evidence, tools, context, draft, errors, reply>>
      /\ status = "drafting" /\ errors = {} /\ reply.cause = "none"
  BY DraftingState DEF Waits
<1>2. NodesTypeOK'
  BY <1>1, TypeKept DEF NodesInv, NodesTypeOK
<1>3. ProgressInv' /\ HitsInv' /\ FusionKeepsOrder'
  BY <1>1 DEF NodesInv, ProgressInv, HitsInv, FusionKeepsOrder
<1>4. ToolsInv' /\ ToolsAreIndependent'
  <2>1. Distinct(request.tools)
    BY DistinctGathered DEF NodesInv, Drafting, Gathered
  <2>2. QED
    BY <1>1, <2>1, ToolsKept DEF NodesInv
<1>5. PerTry' = PerTry /\ Grounds' = Grounds
  BY <1>1 DEF PerTry, Grounds
<1>6. AskingInv'
  BY <1>1, <1>5 DEF AskingInv
<1>7. RequestsBounded'
  <2>1. PICK m \in {1, 2} : m = PerTry
    BY DraftingState
  <2>2. PICK tries \in Nat, attempt \in 0..1, sent \in Nat :
           asking'.tries = tries /\ asking'.attempt = attempt /\ asking'.sent = sent
    OBVIOUS
  <2>3. MaxRetries \in Nat /\ tries <= MaxRetries /\ attempt < m /\ sent <= tries * m + attempt
    BY <2>1, <2>2, SettingsAssumption
  <2>4. sent <= (MaxRetries + 1) * m
    <3>1. CASE m = 1
      BY <2>3, <3>1
    <3>2. CASE m = 2
      BY <2>3, <3>2
    <3>3. QED
      BY <3>1, <3>2
  <2>5. QED
    BY <1>5, <2>1, <2>2, <2>4 DEF RequestsBounded
<1>8. DraftIsGrounded' /\ ErrorsAgree'
  BY <1>1, Undrafted, UnbrokenAgrees
<1>9. QED
  BY <1>2, <1>3, <1>4, <1>6, <1>7, <1>8 DEF NodesInv

LEMMA WithoutAskingSound ==
    ASSUME NodesInv, DraftByRule \/ CreateProvider \/ CreateProviderFails
    PROVE  NodesInv'
<1>1. phase = "drafting" /\ phase \in Drafting /\ hits' = hits /\ asking' = asking
  BY DEF DraftByRule, CreateProvider, CreateProviderFails, Drafting, Waits, Drafted
<1>2. asking = NotAsked
  BY <1>1 DEF NodesInv, AskingInv
<1>3. asking' = [tries |-> 0, attempt |-> 0, sent |-> 0]
  BY <1>1, <1>2 DEF NotAsked
<1>4. ASSUME NEW reason, Drafted(Fallback(reason))
      PROVE  NodesInv'
  <2>1. GroundedDraft(Fallback(reason))
    BY <1>1, DraftingState, FallbackGrounded
  <2>2. asking' \in [tries : Nat, attempt : 0..1, sent : Nat]
    BY <1>3
  <2>3. RequestsBounded'
    BY <1>1, <1>2, <1>4, NotAskedSound DEF Drafted
  <2>4. QED
    BY <1>1, <1>4, <2>1, <2>2, <2>3, DraftedSound
<1>5. CASE CreateProvider
  <2>1. /\ asking' \in [tries : Nat, attempt : 0..1, sent : Nat]
        /\ asking'.tries = 0 /\ asking'.attempt = 0 /\ asking'.sent = 0
    BY <1>3
  <2>2. PICK m \in {1, 2} : m = PerTry
    BY <1>1, DraftingState
  <2>3. 0 <= MaxRetries /\ 0 < m /\ 0 <= 0 * m + 0
    BY SettingsAssumption
  <2>4. /\ asking'.tries <= MaxRetries /\ asking'.attempt < PerTry
        /\ asking'.sent <= asking'.tries * PerTry + asking'.attempt
    BY <2>1, <2>2, <2>3
  <2>5. Waits("asking") /\ UNCHANGED hits /\ request.use_model /\ Grounds
    BY <1>5 DEF CreateProvider
  <2>6. QED
    BY <1>1, <2>1, <2>4, <2>5, AsksOnSound
<1>6. QED
  BY <1>4, <1>5 DEF DraftByRule, CreateProviderFails

(* Giving up after this request, or asking once more.                      *)
LEMMA AskingState ==
    ASSUME NodesInv, phase = "asking"
    PROVE  \E m \in {1, 2}, tries \in Nat, attempt \in 0..1, sent \in Nat :
              /\ phase \in Drafting /\ request.use_model /\ Grounds /\ MaxRetries \in Nat
              /\ m = PerTry /\ (m = 2 <=> request.provider = "openai_compatible")
              /\ asking = [tries |-> tries, attempt |-> attempt, sent |-> sent]
              /\ tries <= MaxRetries /\ attempt < m /\ sent <= tries * m + attempt
<1>1. PICK m \in {1, 2} : m = PerTry /\ (m = 2 <=> request.provider = "openai_compatible")
  BY DEF PerTry
<1>2. PICK tries \in Nat, attempt \in 0..1, sent \in Nat :
         asking = [tries |-> tries, attempt |-> attempt, sent |-> sent]
  BY DEF NodesInv, NodesTypeOK
<1>3. QED
  BY <1>1, <1>2, SettingsAssumption DEF NodesInv, AskingInv, Drafting

LEMMA SentBounded ==
    ASSUME NodesInv, phase = "asking", asking' = Sent, request' = request
    PROVE  RequestsBounded' /\ asking' \in [tries : Nat, attempt : 0..1, sent : Nat]
<1>1. PICK m \in {1, 2}, tries \in Nat, attempt \in 0..1, sent \in Nat :
         /\ m = PerTry /\ MaxRetries \in Nat
         /\ asking = [tries |-> tries, attempt |-> attempt, sent |-> sent]
         /\ tries <= MaxRetries /\ attempt < m /\ sent <= tries * m + attempt
  BY AskingState
<1>2. asking' = [tries |-> 0, attempt |-> 0, sent |-> sent + 1] /\ PerTry' = m
  BY <1>1 DEF Sent, NotAsked, PerTry
<1>3. sent + 1 <= (MaxRetries + 1) * m
  <2>1. CASE m = 1
    BY <1>1, <2>1
  <2>2. CASE m = 2
    BY <1>1, <2>2
  <2>3. QED
    BY <2>1, <2>2
<1>4. QED
  BY <1>2, <1>3 DEF RequestsBounded

LEMMA GivesUpSound ==
    ASSUME NodesInv, phase = "asking", NEW error, GivesUp(error)
    PROVE  NodesInv'
<1>1. Drafted(Fallback(FallbackReason(error))) /\ asking' = Sent /\ phase \in Drafting
  BY DEF GivesUp, Drafting
<1>2. request' = request /\ hits' = hits
  BY <1>1 DEF Drafted
<1>3. GroundedDraft(Fallback(FallbackReason(error)))
  BY <1>1, DraftingState, FallbackGrounded
<1>4. QED
  BY <1>1, <1>2, <1>3, SentBounded, DraftedSound

LEMMA AskFailsSound ==
    ASSUME NodesInv, AskFails
    PROVE  NodesInv'
<1>1. phase = "asking"
  BY DEF AskFails
<1>2. CASE /\ asking.tries < MaxRetries /\ Waits("asking") /\ UNCHANGED hits
           /\ asking' = [Sent EXCEPT !.tries = asking.tries + 1]
  <2>1. PICK m \in {1, 2}, tries \in Nat, attempt \in 0..1, sent \in Nat :
           /\ phase \in Drafting /\ request.use_model /\ Grounds /\ MaxRetries \in Nat
           /\ m = PerTry
           /\ asking = [tries |-> tries, attempt |-> attempt, sent |-> sent]
           /\ tries <= MaxRetries /\ attempt < m /\ sent <= tries * m + attempt
    BY <1>1, AskingState
  <2>2. asking' = [tries |-> tries + 1, attempt |-> 0, sent |-> sent + 1]
    BY <1>2, <2>1 DEF Sent, NotAsked
  <2>3. tries + 1 <= MaxRetries /\ 0 < m /\ sent + 1 <= (tries + 1) * m + 0
    <3>1. tries < MaxRetries
      BY <1>2, <2>1
    <3>2. CASE m = 1
      BY <2>1, <3>1, <3>2
    <3>3. CASE m = 2
      BY <2>1, <3>1, <3>3
    <3>4. QED
      BY <3>2, <3>3
  <2>4. /\ asking' \in [tries : Nat, attempt : 0..1, sent : Nat]
        /\ asking'.tries <= MaxRetries /\ asking'.attempt < PerTry
        /\ asking'.sent <= asking'.tries * PerTry + asking'.attempt
    BY <2>1, <2>2, <2>3
  <2>5. QED
    BY <1>2, <2>1, <2>4, AsksOnSound
<1>3. ASSUME NEW error, GivesUp(error) PROVE NodesInv'
  BY <1>1, <1>3, GivesUpSound
<1>4. QED
  BY <1>2, <1>3 DEF AskFails

LEMMA AskGarbledSound ==
    ASSUME NodesInv, AskGarbled
    PROVE  NodesInv'
<1>1. phase = "asking"
  BY DEF AskGarbled
<1>2. ASSUME NEW answer, Correctable(answer), Waits("asking"), UNCHANGED hits,
             asking' = [asking EXCEPT !.attempt = 1, !.sent = @ + 1]
      PROVE  NodesInv'
  <2>1. PICK m \in {1, 2}, tries \in Nat, attempt \in 0..1, sent \in Nat :
           /\ phase \in Drafting /\ request.use_model /\ Grounds /\ MaxRetries \in Nat
           /\ m = PerTry /\ (m = 2 <=> request.provider = "openai_compatible")
           /\ asking = [tries |-> tries, attempt |-> attempt, sent |-> sent]
           /\ tries <= MaxRetries /\ attempt < m /\ sent <= tries * m + attempt
    BY <1>1, AskingState
  <2>2. m = 2 /\ attempt = 0
    BY <1>2, <2>1 DEF Correctable
  <2>3. asking' = [tries |-> tries, attempt |-> 1, sent |-> sent + 1]
    BY <1>2, <2>1
  <2>4. 1 < m /\ sent + 1 <= tries * m + 1
    BY <2>1, <2>2
  <2>5. /\ asking' \in [tries : Nat, attempt : 0..1, sent : Nat]
        /\ asking'.tries <= MaxRetries /\ asking'.attempt < PerTry
        /\ asking'.sent <= asking'.tries * PerTry + asking'.attempt
    BY <2>1, <2>3, <2>4
  <2>6. QED
    BY <1>2, <2>1, <2>5, AsksOnSound
<1>3. ASSUME NEW error, GivesUp(error) PROVE NodesInv'
  BY <1>1, <1>3, GivesUpSound
<1>4. QED
  BY <1>2, <1>3 DEF AskGarbled

LEMMA AskAnsweredSound ==
    ASSUME NodesInv, AskAnswered
    PROVE  NodesInv'
<1>1. phase = "asking"
  BY DEF AskAnswered
<1>2. ASSUME NEW r \in Recommendations, Acceptance(r), asking' = Sent,
             NEW citations \in Cited(r.citations, evidence),
             NEW references \in Cited(r.references, context.records),
             Drafted([mode |-> "model", reason |-> "none", acts |-> r.acts,
                      citations |-> citations, references |-> references])
      PROVE  NodesInv'
  <2>1. /\ evidence \in Seq(Chunks) /\ IsInjective(evidence)
        /\ context.records \in Seq(Entry) /\ IsInjective(context.records)
        /\ phase \in Drafting
    BY <1>1, DraftingState DEF Drafting
  <2>2. /\ \E k \in Nat : r.citations \in [1..k -> Nat]
        /\ \E k \in Nat : r.references \in [1..k -> Nat]
    <3>1. r.citations \in Numbers(Len(evidence), 2)
          /\ r.references \in Numbers(Len(context.records), 1)
      BY <1>2 DEF Recommendations
    <3>2. Len(evidence) \in Nat /\ Len(context.records) \in Nat
      BY <2>1
    <3>3. ASSUME NEW n \in Nat, NEW most \in {1, 2}, NEW numbers \in Numbers(n, most)
          PROVE  \E k \in Nat : numbers \in [1..k -> Nat]
      <4>1. PICK k \in 0..most : numbers \in [1..k -> 0..(n + 1)]
        BY DEF Numbers
      <4>2. k \in Nat /\ numbers \in [1..k -> Nat]
        BY <4>1
      <4>3. QED
        BY <4>2
    <3>4. QED
      BY <3>1, <3>2, <3>3
  <2>3. /\ IsInjective(citations) /\ Range(citations) \subseteq Range(evidence)
        /\ r.citations # <<>> => citations # <<>>
    BY <1>2, <2>1, <2>2, CitedValue DEF Acceptance
  <2>4. /\ IsInjective(references) /\ Range(references) \subseteq Range(context.records)
        /\ r.references # <<>> => references # <<>>
    BY <1>2, <2>1, <2>2, CitedValue DEF Acceptance
  <2>5. request.use_model /\ Grounds
    BY <1>1, AskingState
  <2>6. PICK d : d = [mode |-> "model", reason |-> "none", acts |-> r.acts,
                      citations |-> citations, references |-> references]
    OBVIOUS
  <2>7. d.citations = citations /\ d.references = references /\ d.acts = r.acts
    BY <2>6
  <2>8. GroundedDraft(d)
    BY <1>2, <2>3, <2>4, <2>5, <2>7 DEF GroundedDraft, Acceptance
  <2>9. Drafted(d) /\ hits' = hits /\ request' = request
    BY <1>2, <2>6 DEF Drafted
  <2>10. QED
    BY <1>1, <1>2, <2>1, <2>8, <2>9, SentBounded, DraftedSound
<1>3. ASSUME NEW error, GivesUp(error) PROVE NodesInv'
  BY <1>1, <1>3, GivesUpSound
<1>4. PICK r \in Recommendations :
         IF Acceptance(r)
         THEN /\ \E citations \in Cited(r.citations, evidence),
                    references \in Cited(r.references, context.records) :
                    Drafted([mode |-> "model", reason |-> "none", acts |-> r.acts,
                             citations |-> citations, references |-> references])
              /\ asking' = Sent
         ELSE GivesUp("malformed")
  BY DEF AskAnswered
<1>5. QED
  BY <1>2, <1>3, <1>4

LEMMA ReturnSound ==
    ASSUME NodesInv, Return
    PROVE  NodesInv'
<1>1. /\ phase = "interrupted" /\ phase' = "returned" /\ reply' = [status |-> 202, cause |-> "none"]
      /\ UNCHANGED <<base, request, status, hits, evidence, tools, context, asking, draft, errors>>
      /\ status = "pending_approval" /\ errors = {} /\ reply.cause = "none"
  BY DEF Return, NodesInv, ProgressInv
<1>2. NodesTypeOK' /\ ProgressInv' /\ HitsInv' /\ FusionKeepsOrder'
  BY <1>1 DEF NodesInv, NodesTypeOK, ProgressInv, HitsInv, FusionKeepsOrder
<1>3. ToolsInv' /\ ToolsAreIndependent'
  <2>1. Distinct(request.tools)
    BY <1>1, DistinctGathered DEF NodesInv, Gathered
  <2>2. QED
    BY <1>1, <2>1, ToolsKept DEF NodesInv
<1>4. AskingInv' /\ RequestsBounded' /\ ErrorsAgree'
  BY <1>1, UnbrokenAgrees DEF NodesInv, AskingInv, RequestsBounded, PerTry
<1>5. DraftIsGrounded'
  <2>1. GroundedDraft(draft)
    BY <1>1, DraftMeans DEF NodesInv
  <2>2. GroundedDraft(draft)'
    BY <1>1, <2>1 DEF GroundedDraft, Grounds
  <2>3. (DraftIsGrounded <=> (status = "pending_approval" => GroundedDraft(draft)))'
    BY DraftMeans, PTL
  <2>4. QED
    BY <2>2, <2>3
<1>6. QED
  BY <1>2, <1>3, <1>4, <1>5 DEF NodesInv

(* What may break.                                                         *)
LEMMA BreaksSound ==
    ASSUME NodesInv, Breaks
    PROVE  NodesInv'
<1>1. CASE SearchRaises
  BY <1>1, RetrievalRaisesSound DEF SearchRaises, Searching
<1>2. CASE DraftRaises
  <2>1. Running /\ status = NodeStatus["drafting"]
    BY <1>2 DEF DraftRaises, Running, NodesInv, ProgressInv, NodeStatus
  <2>2. QED
    BY <1>2, <2>1, KindsOfErrors, RaisesSound DEF DraftRaises
<1>3. CASE WorkflowRaises
  <2>1. Running /\ "workflow" \notin DOMAIN NodeStatus
    BY <1>3 DEF WorkflowRaises, Running, NodeStatus
  <2>2. QED
    BY <1>3, <2>1, KindsOfErrors, RaisesSound DEF WorkflowRaises
<1>4. QED
  BY <1>1, <1>2, <1>3 DEF Breaks

-----------------------------------------------------------------------------
(* Every node leaves every part of NodesInv true.                          *)
LEMMA InitNodes == Init => NodesInv
<1> SUFFICES ASSUME Init PROVE NodesInv
  OBVIOUS
<1>1. /\ \E b \in Bases : base = [present |-> b.present, embedded |-> b.embedded, growth |-> 0]
      /\ request \in Requests /\ status = "none" /\ phase = "new" /\ hits = NoHits
      /\ evidence = <<>> /\ tools = [t \in DOMAIN request.tools |-> Asked]
      /\ asking = NotAsked /\ errors = {} /\ reply.cause = "none"
  BY DEF Init, NoReply
<1>2. /\ hits \in [vector : Seq(Chunks), keyword : Seq(Chunks)] /\ IsInjective(hits.vector)
      /\ evidence \in Seq(Chunks) /\ IsInjective(evidence)
  BY <1>1, NoHitsTyped DEF IsInjective
<1>3. base \in [present : SUBSET Chunks, embedded : SUBSET Chunks, growth : Nat]
  <2>1. PICK b \in Bases : base = [present |-> b.present, embedded |-> b.embedded, growth |-> 0]
    BY <1>1
  <2>2. b.embedded \subseteq Chunks /\ b.present \subseteq Chunks
    BY BasesAssumption
  <2>3. QED
    BY <2>1, <2>2
<1>4. Asked \in [answered : BOOLEAN, failure : ToolErrors \cup {"none"},
                 records : Seq([system : {"mes", "qms"}, id : RecordIds])]
  BY DEF Asked
<1>5. asking \in [tries : Nat, attempt : 0..1, sent : Nat] /\ asking.sent = 0
  BY <1>1 DEF NotAsked
<1>6. NodesTypeOK
  BY <1>1, <1>2, <1>3, <1>4, <1>5 DEF NodesTypeOK
<1>7. ProgressInv /\ HitsInv /\ FusionKeepsOrder
  BY <1>1, <1>2 DEF ProgressInv, HitsInv, FusionKeepsOrder
<1>8. ToolsInv /\ ToolsAreIndependent
  <2>1. \A t \in DOMAIN tools : tools[t].records = <<>> /\ Acceptable(request.tools[t], <<>>)
    BY <1>1, SettingsAssumption DEF Asked, Acceptable
  <2>2. QED
    BY <1>1, <2>1 DEF ToolsInv, ToolsAreIndependent
<1>9. AskingInv /\ RequestsBounded
  <2>1. PICK m \in {1, 2} : m = PerTry
    BY DEF PerTry
  <2>2. 0 <= (MaxRetries + 1) * m
    BY SettingsAssumption
  <2>3. QED
    BY <1>1, <1>5, <2>1, <2>2 DEF AskingInv, RequestsBounded
<1>10. DraftIsGrounded /\ ErrorsAgree
  BY <1>1 DEF DraftIsGrounded, ErrorsAgree, ServiceFailed, CallErrors, ConfigurationError
<1>11. QED
  BY <1>6, <1>7, <1>8, <1>9, <1>10 DEF NodesInv

LEMMA NextNodes == NodesInv /\ Next => NodesInv'
<1> SUFFICES ASSUME NodesInv, Next PROVE NodesInv'
  OBVIOUS
<1>1. CASE Start \/ Invoke
  BY <1>1, StartSound
<1>2. CASE Uploaded
  BY <1>2, UploadedSound
<1>3. CASE Retrieve
  BY <1>3, SearchKeywordsSound, CheckSearchableSound, SearchKeywordsOnlySound, EmbedQuerySound,
     EmbedQueryFailsSound, SearchVectorsSound, SearchBothSound DEF Retrieve
<1>4. CASE Gather
  BY <1>4, CallToolsSound, ToolReturnsSound, ToolsReturnSound DEF Gather
<1>5. CASE Write
  BY <1>5, WithoutAskingSound, AskFailsSound, AskGarbledSound, AskAnsweredSound DEF Write
<1>6. CASE Return
  BY <1>6, ReturnSound
<1>7. CASE Breaks
  BY <1>7, BreaksSound
<1>8. QED
  BY <1>1, <1>2, <1>3, <1>4, <1>5, <1>6, <1>7 DEF Next, Work

LEMMA StutterNodes == NodesInv /\ UNCHANGED vars => NodesInv'
<1> SUFFICES ASSUME NodesInv, UNCHANGED vars PROVE NodesInv'
  OBVIOUS
<1>1. UNCHANGED <<base, request, status, phase, hits, evidence, tools, context, asking,
                  draft, errors, reply>>
  BY DEF vars
<1>2. NodesTypeOK' /\ ProgressInv' /\ HitsInv' /\ FusionKeepsOrder'
  BY <1>1 DEF NodesInv, NodesTypeOK, ProgressInv, HitsInv, FusionKeepsOrder
<1>3. ToolsInv' /\ ToolsAreIndependent'
  BY <1>1, DistinctGathered, ToolsKept DEF NodesInv
<1>4. AskingInv' /\ RequestsBounded' /\ ErrorsAgree'
  BY <1>1 DEF NodesInv, AskingInv, RequestsBounded, PerTry, Grounds, ErrorsAgree, ServiceFailed
<1>5. DraftIsGrounded'
  <2>1. status = "pending_approval" => GroundedDraft(draft)
    BY DraftMeans DEF NodesInv
  <2>2. status' = "pending_approval" => GroundedDraft(draft)'
    BY <1>1, <2>1 DEF GroundedDraft, Grounds
  <2>3. (DraftIsGrounded <=> (status = "pending_approval" => GroundedDraft(draft)))'
    BY DraftMeans, PTL
  <2>4. QED
    BY <2>2, <2>3
<1>6. QED
  BY <1>2, <1>3, <1>4, <1>5 DEF NodesInv

(* What the nodes of a run agree on, whatever searches, tools and models   *)
(* return and wherever the run ends: the order and number of searches and  *)
(* requests, the context of the tools, the grounds of the draft, and what  *)
(* an error tells (workflow.py, business_tools.py, drafting.py, qwen.py,   *)
(* run_errors.py).                                                         *)
THEOREM NodesAgree == Spec => []NodesInv
<1>1. NodesInv /\ [Next]_vars => NodesInv'
  BY NextNodes, StutterNodes
<1>2. QED
  BY InitNodes, <1>1, PTL DEF Spec

(* The evidence of a run keeps the order of both channels, for any number  *)
(* of chunks, candidates and results (fuse_search_hits).                   *)
THEOREM EvidenceIsFused == Spec => []FusionKeepsOrder
<1>1. NodesInv => FusionKeepsOrder
  BY DEF NodesInv
<1>2. QED
  BY NodesAgree, <1>1, PTL

(* A failing or late tool hides nothing of the others, and a draft cites   *)
(* only what was found, for any number of tools and records                *)
(* (collect_business_context, generate in qwen.py).                        *)
THEOREM DraftsAreGrounded == Spec => [](ToolsAreIndependent /\ DraftIsGrounded)
<1>1. NodesInv => ToolsAreIndependent /\ DraftIsGrounded
  BY DEF NodesInv
<1>2. QED
  BY NodesAgree, <1>1, PTL

-----------------------------------------------------------------------------
(* The nodes are those of ApprovalRuns: the run is one of its runs, with   *)
(* no request about its approval.                                          *)
Begun ==
    IF phase = "new" THEN "unborn"
    ELSE IF phase \in {"failed", "returned"} THEN "returned" ELSE "running"

Point == [status |-> status, approved |-> "none"]

LEMMA RunsInit == Init => Runs!Init
<1> SUFFICES ASSUME Init PROVE Runs!Init
  OBVIOUS
<1>1. status = "none" /\ phase = "new" /\ errors = {}
  BY DEF Init
<1>2. {e.stage : e \in errors} = {}
  BY <1>1
<1>3. [h \in {} |-> Runs!Idle] = <<>>
  OBVIOUS
<1>4. QED
  BY <1>1, <1>2, <1>3 DEF Runs!Init, Runs!NoThread

(* What becomes of a run that neither starts nor ends.                     *)
LEMMA RunNodeStep ==
    ASSUME Begun = "running", Begun' = "running", errors' = errors,
           <<status, status'>> \in Runs!Edges
    PROVE  Runs!Next
<1> DEFINE before == [r \in {RunId} |-> Point]
           after == [r \in {RunId} |-> [status |-> status', approved |-> "none"]]
<1>1. status' \in Runs!Statuses
  BY DEF Runs!Edges, Runs!Statuses
<1>2. after = [before EXCEPT ![RunId].status = status']
  BY DEF Point
<1>3. Runs!RunNode(RunId)
  BY <1>1, <1>2, Zenon DEF Runs!RunNode, Begun, Point
<1>4. QED
  BY <1>3 DEF Runs!Next

LEMMA RunStarts ==
    ASSUME Begun = "unborn", Begun' = "running", UNCHANGED <<status, errors>>
    PROVE  Runs!Next
<1> DEFINE before == [r \in {RunId} |-> Begun]
           after == [r \in {RunId} |-> Begun']
<1>1. after = [before EXCEPT ![RunId] = "running"]
  OBVIOUS
<1>2. Runs!StartRun(RunId)
  BY <1>1, Zenon DEF Runs!StartRun, Begun
<1>3. QED
  BY <1>2 DEF Runs!Next

LEMMA RunReturns ==
    ASSUME Begun = "running", Begun' = "returned", status = "pending_approval",
           UNCHANGED <<status, errors>>
    PROVE  Runs!Next
<1> DEFINE before == [r \in {RunId} |-> Begun]
           after == [r \in {RunId} |-> Begun']
<1>1. after = [before EXCEPT ![RunId] = "returned"]
  OBVIOUS
<1>2. Runs!StartReturns(RunId)
  BY <1>1, Zenon DEF Runs!StartReturns, Begun
<1>3. QED
  BY <1>2 DEF Runs!Next

LEMMA RunFails ==
    ASSUME Begun = "running", Begun' = "returned", UNCHANGED status, errors = {},
           NEW stage \in Runs!Stages,
           stage = "workflow" \/ <<status, stage>> \in Runs!NodeStage,
           NEW is, errors' \in {errors, errors \cup {[stage |-> stage, is |-> is]}}
    PROVE  Runs!Next
<1> DEFINE before == [r \in {RunId} |-> Begun]
           after == [r \in {RunId} |-> Begun']
           none == [r \in {RunId} |-> {e.stage : e \in errors}]
           told == [r \in {RunId} |-> {e.stage : e \in errors'}]
<1>1. after = [before EXCEPT ![RunId] = "returned"]
  OBVIOUS
<1>2. none = [r \in {RunId} |-> {}]
  OBVIOUS
<1>3. told \in {none, [none EXCEPT ![RunId] = none[RunId] \cup {stage}]}
  <2>1. CASE errors' = errors
    BY <2>1
  <2>2. CASE errors' = {[stage |-> stage, is |-> is]}
    <3>1. {e.stage : e \in errors'} = {stage}
      BY <2>2
    <3>2. told = [r \in {RunId} |-> {stage}]
      BY <3>1
    <3>3. [none EXCEPT ![RunId] = none[RunId] \cup {stage}] = [r \in {RunId} |-> {stage}]
      BY <1>2
    <3>4. QED
      BY <3>2, <3>3
  <2>3. QED
    BY <2>1, <2>2
<1>4. Runs!StartFails(RunId, stage)
  BY <1>1, <1>3, Zenon DEF Runs!StartFails, Begun
<1>5. QED
  BY <1>4 DEF Runs!Next

LEMMA RunStutters ==
    ASSUME UNCHANGED <<Begun, status, errors>>
    PROVE  UNCHANGED Runs!vars
<1>1. UNCHANGED <<[r \in {RunId} |-> Begun], [r \in {RunId} |-> Point],
                  [r \in {RunId} |-> {e.stage : e \in errors}]>>
  BY DEF Point
<1>2. QED
  BY <1>1 DEF Runs!vars, Begun, Point

(* Each step of a node is one of these, and a node that goes on takes its  *)
(* edge.                                                                   *)
LEMMA RaisesFails ==
    ASSUME NodesInv, Running, NEW stage \in Runs!Stages,
           stage = "workflow" \/ <<status, stage>> \in Runs!NodeStage,
           NEW error, NodeRaises(stage, error)
    PROVE  Runs!Next
<1>1. Begun = "running" /\ errors = {}
  BY DEF Begun, Running, NodesInv, ProgressInv
<1>2. /\ phase' = "failed" /\ status' = status
      /\ errors' \in {errors, errors \cup {[stage |-> stage, is |-> Classified(error)]}}
  BY DEF NodeRaises
<1>3. Begun' = "returned"
  BY <1>2 DEF Begun
<1>4. QED
  BY <1>1, <1>2, <1>3, RunFails

LEMMA EdgeTaken ==
    ASSUME phase \notin {"new", "failed", "returned"},
           phase' \notin {"new", "failed", "returned"}, errors' = errors,
           \/ <<status, status'>> \in Runs!Edges \/ status' = status
    PROVE  Runs!Next \/ UNCHANGED Runs!vars
<1>1. Begun = "running" /\ Begun' = "running"
  BY DEF Begun
<1>2. CASE status' = status
  BY <1>1, <1>2, RunStutters
<1>3. QED
  BY <1>1, <1>2, RunNodeStep

LEMMA RetrieveMaps ==
    ASSUME NodesInv, Retrieve
    PROVE  Runs!Next \/ UNCHANGED Runs!vars
<1>1. /\ phase \in Searching /\ status = "created"
      /\ phase \notin {"new", "failed", "returned"}
  BY DEF Retrieve, SearchKeywords, CheckSearchable, SearchKeywordsOnly, EmbedQuery,
     EmbedQueryFails, SearchVectors, SearchBoth, Searching, NodesInv, ProgressInv
<1>2. ASSUME NEW error, NodeRaises("retrieval", error)
      PROVE  Runs!Next
  <2>1. "retrieval" \in Runs!Stages /\ <<status, "retrieval">> \in Runs!NodeStage
    BY <1>1 DEF Runs!Stages, Runs!NodeStage
  <2>2. QED
    BY <1>1, <1>2, <2>1, RaisesFails DEF Running
<1>3. ASSUME NEW found, NEW result, Retrieved(found, result)
      PROVE  Runs!Next \/ UNCHANGED Runs!vars
  <2>1. /\ status' = "querying_business_context" /\ phase' = "calling" /\ errors' = errors
        /\ <<status, status'>> \in Runs!Edges
    BY <1>1, <1>3 DEF Retrieved, Runs!Edges
  <2>2. QED
    BY <1>1, <2>1, EdgeTaken
<1>4. ASSUME NEW next \in Searching, Waits(next)
      PROVE  Runs!Next \/ UNCHANGED Runs!vars
  <2>1. status' = status /\ errors' = errors /\ phase' \notin {"new", "failed", "returned"}
    BY <1>4 DEF Waits, Searching
  <2>2. QED
    BY <1>1, <2>1, EdgeTaken
<1>5. /\ SearchKeywords => \E found, result : Retrieved(found, result)
      /\ SearchKeywordsOnly => \E found, result : Retrieved(found, result)
      /\ SearchBoth => \E found, result : Retrieved(found, result)
      /\ CheckSearchable => \/ \E next \in Searching : Waits(next)
                            \/ \E found, result : Retrieved(found, result)
      /\ SearchVectors => \/ \E next \in Searching : Waits(next)
                          \/ \E found, result : Retrieved(found, result)
      /\ EmbedQuery => \E next \in Searching : Waits(next)
      /\ EmbedQueryFails => \/ \E next \in Searching : Waits(next)
                            \/ \E error : NodeRaises("retrieval", error)
  <2>1. {"embedding", "vector", "keyword", "keyword_only"} \subseteq Searching
    BY DEF Searching
  <2>2. QED
    BY <2>1, Zenon DEF SearchKeywords, SearchKeywordsOnly, SearchBoth, CheckSearchable,
       SearchVectors, EmbedQuery, EmbedQueryFails
<1>6. QED
  BY <1>2, <1>3, <1>4, <1>5 DEF Retrieve

LEMMA GatherMaps ==
    ASSUME NodesInv, Gather
    PROVE  Runs!Next \/ UNCHANGED Runs!vars
<1>1. /\ phase \in {"calling", "gathering"} /\ status = "querying_business_context"
      /\ phase \notin {"new", "failed", "returned"}
  BY DEF Gather, CallTools, ToolReturns, ToolFails, ToolsReturn, NodesInv, ProgressInv
<1>2. CASE CallTools
  <2>1. CASE NodeRaises("business_context", "value") /\ phase = "calling"
    <3>1. "business_context" \in Runs!Stages /\ <<status, "business_context">> \in Runs!NodeStage
      BY <1>1 DEF Runs!Stages, Runs!NodeStage
    <3>2. QED
      BY <2>1, <3>1, RaisesFails DEF Running
  <2>2. CASE Waits("gathering")
    <3>1. status' = status /\ errors' = errors /\ phase' \notin {"new", "failed", "returned"}
      BY <2>2 DEF Waits
    <3>2. QED
      BY <1>1, <3>1, EdgeTaken
  <2>3. QED
    BY <1>2, <2>1, <2>2 DEF CallTools
<1>3. ASSUME NEW t \in DOMAIN tools, ToolReturns(t) \/ ToolFails(t)
      PROVE  Runs!Next \/ UNCHANGED Runs!vars
  <2>1. status' = status /\ errors' = errors /\ phase' = phase
    BY <1>3 DEF ToolReturns, ToolFails, Settle
  <2>2. QED
    BY <1>1, <2>1, EdgeTaken
<1>4. CASE ToolsReturn
  <2>1. /\ phase' = "drafting" /\ errors' = errors /\ <<status, status'>> \in Runs!Edges
    BY <1>1, <1>4 DEF ToolsReturn, Runs!Edges
  <2>2. QED
    BY <1>1, <2>1, EdgeTaken
<1>5. QED
  BY <1>2, <1>3, <1>4 DEF Gather

LEMMA WriteMaps ==
    ASSUME NodesInv, Write
    PROVE  Runs!Next \/ UNCHANGED Runs!vars
<1>1. /\ phase \in Drafting /\ status = "drafting"
      /\ phase \notin {"new", "failed", "returned"}
  BY DEF Write, DraftByRule, CreateProvider, CreateProviderFails, AskFails, AskGarbled,
     AskAnswered, Drafting, NodesInv, ProgressInv
<1>2. ASSUME NEW d, Drafted(d)
      PROVE  Runs!Next \/ UNCHANGED Runs!vars
  <2>1. phase' = "interrupted" /\ errors' = errors /\ <<status, status'>> \in Runs!Edges
    BY <1>1, <1>2 DEF Drafted, Runs!Edges
  <2>2. QED
    BY <1>1, <2>1, EdgeTaken
<1>3. ASSUME Waits("asking")
      PROVE  Runs!Next \/ UNCHANGED Runs!vars
  <2>1. status' = status /\ errors' = errors /\ phase' \notin {"new", "failed", "returned"}
    BY <1>3 DEF Waits
  <2>2. QED
    BY <1>1, <2>1, EdgeTaken
<1>4. Waits("asking") \/ \E d : Drafted(d)
  <2>1. DraftByRule \/ CreateProviderFails => \E d : Drafted(d)
    BY Zenon DEF DraftByRule, CreateProviderFails
  <2>2. AskFails \/ AskGarbled \/ AskAnswered => Waits("asking") \/ \E d : Drafted(d)
    BY Zenon DEF AskFails, AskGarbled, AskAnswered, GivesUp
  <2>3. CreateProvider => Waits("asking")
    BY DEF CreateProvider
  <2>4. QED
    BY <2>1, <2>2, <2>3 DEF Write
<1>5. QED
  BY <1>2, <1>3, <1>4

LEMMA BreaksMaps ==
    ASSUME NodesInv, Breaks
    PROVE  Runs!Next
<1>1. Running
  BY DEF Breaks, SearchRaises, DraftRaises, WorkflowRaises, Running
<1>2. CASE SearchRaises
  <2>1. "retrieval" \in Runs!Stages /\ <<status, "retrieval">> \in Runs!NodeStage
    BY <1>2 DEF SearchRaises, NodesInv, ProgressInv, Runs!Stages, Runs!NodeStage
  <2>2. QED
    BY <1>1, <1>2, <2>1, RaisesFails DEF SearchRaises
<1>3. CASE DraftRaises
  <2>1. "drafting" \in Runs!Stages /\ <<status, "drafting">> \in Runs!NodeStage
    BY <1>3 DEF DraftRaises, NodesInv, ProgressInv, Runs!Stages, Runs!NodeStage
  <2>2. QED
    BY <1>1, <1>3, <2>1, RaisesFails DEF DraftRaises
<1>4. CASE WorkflowRaises
  <2>1. "workflow" \in Runs!Stages
    BY DEF Runs!Stages
  <2>2. QED
    BY <1>1, <1>4, <2>1, RaisesFails DEF WorkflowRaises
<1>5. QED
  BY <1>2, <1>3, <1>4 DEF Breaks

(* The nodes, in all their detail, are the nodes of ApprovalRuns.          *)
THEOREM NodesImplementRuns == Spec => ImplementsRuns
<1>1. NodesInv /\ [Next]_vars => [Runs!Next]_(Runs!vars)
  <2> SUFFICES ASSUME NodesInv, [Next]_vars PROVE Runs!Next \/ UNCHANGED Runs!vars
    OBVIOUS
  <2>1. CASE Start
    <3>1. Begun = "unborn" /\ Begun' = "running" /\ UNCHANGED <<status, errors>>
      BY <2>1 DEF Start, Begun
    <3>2. QED
      BY <3>1, RunStarts
  <2>2. CASE Invoke
    <3>1. status = "none"
      BY <2>2 DEF Invoke, NodesInv, ProgressInv
    <3>2. /\ phase \notin {"new", "failed", "returned"}
          /\ phase' \notin {"new", "failed", "returned"} /\ errors' = errors
          /\ <<status, status'>> \in Runs!Edges
      BY <2>2, <3>1 DEF Invoke, Runs!Edges
    <3>3. QED
      BY <3>2, EdgeTaken
  <2>3. CASE Uploaded \/ UNCHANGED vars
    <3>1. UNCHANGED <<Begun, status, errors>>
      BY <2>3 DEF Uploaded, vars, Begun
    <3>2. QED
      BY <3>1, RunStutters
  <2>4. CASE Retrieve
    BY <2>4, RetrieveMaps
  <2>5. CASE Gather
    BY <2>5, GatherMaps
  <2>6. CASE Write
    BY <2>6, WriteMaps
  <2>7. CASE Return
    <3>1. /\ Begun = "running" /\ Begun' = "returned" /\ status = "pending_approval"
          /\ UNCHANGED <<status, errors>>
      BY <2>7 DEF Return, Begun, NodesInv, ProgressInv
    <3>2. QED
      BY <3>1, RunReturns
  <2>8. CASE Breaks
    BY <2>8, BreaksMaps
  <2>9. QED
    BY <2>1, <2>2, <2>3, <2>4, <2>5, <2>6, <2>7, <2>8 DEF Next, Work
<1>2. QED
  BY RunsInit, NodesAgree, <1>1, PTL DEF Spec, ImplementsRuns, Runs!Spec
=============================================================================
