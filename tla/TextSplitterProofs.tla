------------------------- MODULE TextSplitterProofs -------------------------
(***************************************************************************)
(* Theorems about TextSplitter for texts of any length, any size of chunks *)
(* and any overlap: the cuts advance, the recursion has a value, and the   *)
(* chunks it returns are sound.  Induction over the offset is by a least   *)
(* counterexample (NumberLemmas).                                          *)
(***************************************************************************)
EXTENDS TextSplitter, NumberLemmas

-----------------------------------------------------------------------------
(* Where a chunk that begins at start ends, and where the next one begins. *)
LEMMA BreakBounds ==
    /\ ChunkSize \in Nat \ {0} /\ Overlap \in Nat /\ Overlap < ChunkSize
    /\ MinimumBreak \in Nat \ {0} /\ MinimumBreak <= ChunkSize
<1>1. ChunkSize \in Nat \ {0} /\ Overlap \in Nat /\ Overlap < ChunkSize
  BY SplitterAssumption
<1>2. ChunkSize \div 2 \in Nat /\ ChunkSize \div 2 <= ChunkSize
  BY <1>1
<1>3. /\ MinimumBreak \in {ChunkSize \div 2, 1}
      /\ \A m \in {ChunkSize \div 2, 1} : m <= MinimumBreak
  <2>1. {ChunkSize \div 2, 1} \subseteq Nat /\ \A m \in {ChunkSize \div 2, 1} : m <= ChunkSize
    BY <1>1, <1>2
  <2>2. QED
    BY <1>1, <2>1, MaxNumber DEF MinimumBreak
<1>4. QED
  BY <1>1, <1>2, <1>3

LEMMA TargetValue ==
    ASSUME NEW text \in Seq(Characters), NEW start \in 0..Len(text)
    PROVE  TargetEnd(text, start) =
              IF start + ChunkSize <= Len(text) THEN start + ChunkSize ELSE Len(text)
  BY BreakBounds, SmallerOf DEF TargetEnd

(* The breaks that are looked at when the text goes on after the target.   *)
LEMMA BreaksValue ==
    ASSUME NEW text \in Seq(Characters), NEW start \in 0..Len(text),
           TargetEnd(text, start) < Len(text)
    PROVE  /\ TargetEnd(text, start) = start + ChunkSize
           /\ Breaks(text, start) =
                 {p \in (start + MinimumBreak)..(start + ChunkSize) :
                     text[p + 1] \in BreakCharacters}
<1>1. TargetEnd(text, start) = start + ChunkSize
  BY TargetValue, BreakBounds
<1>2. Min({start + MinimumBreak, TargetEnd(text, start)}) = start + MinimumBreak
  BY <1>1, BreakBounds, SmallerOf
<1>3. QED
  BY <1>1, <1>2 DEF Breaks

(* A chunk ends after the last of them, or at the target.                  *)
LEMMA EndValue ==
    ASSUME NEW text \in Seq(Characters), NEW start \in 0..(Len(text) - 1)
    PROVE  LET end == ChunkEnd(text, start) IN
           /\ end \in (start + 1)..Len(text)
           /\ \/ end = Len(text) /\ end <= start + ChunkSize
              \/ /\ start + ChunkSize < Len(text) /\ end = start + ChunkSize
                 /\ \A p \in (start + MinimumBreak)..(start + ChunkSize) :
                       text[p + 1] \notin BreakCharacters
              \/ /\ start + ChunkSize < Len(text)
                 /\ end - 1 \in (start + MinimumBreak)..(start + ChunkSize)
                 /\ text[end] \in BreakCharacters
                 /\ \A p \in (start + MinimumBreak)..(start + ChunkSize) :
                       text[p + 1] \in BreakCharacters => p < end
<1>t. Len(text) \in Nat /\ start \in Nat /\ start < Len(text) /\ start \in 0..Len(text)
  OBVIOUS
<1>1. CASE TargetEnd(text, start) = Len(text)
  BY <1>1, <1>t, TargetValue, BreakBounds DEF ChunkEnd
<1>2. CASE TargetEnd(text, start) < Len(text)
  <2>1. /\ TargetEnd(text, start) = start + ChunkSize
        /\ Breaks(text, start) = {p \in (start + MinimumBreak)..(start + ChunkSize) :
                                     text[p + 1] \in BreakCharacters}
    BY <1>2, <1>t, BreaksValue
  <2>2. CASE Breaks(text, start) = {}
    <3>1. ChunkEnd(text, start) = start + ChunkSize
      BY <1>2, <2>1, <2>2 DEF ChunkEnd
    <3>2. \A p \in (start + MinimumBreak)..(start + ChunkSize) :
              text[p + 1] \notin BreakCharacters
      BY <2>1, <2>2
    <3>3. start + ChunkSize < Len(text) /\ start + ChunkSize \in (start + 1)..Len(text)
      BY <1>2, <1>t, <2>1, BreakBounds
    <3>4. QED
      BY <3>1, <3>2, <3>3
  <2>3. CASE Breaks(text, start) # {}
    <3> DEFINE last == Max(Breaks(text, start))
    <3>1. ChunkEnd(text, start) = last + 1
      BY <1>2, <2>3 DEF ChunkEnd
    <3>2. last \in Breaks(text, start) /\ \A m \in Breaks(text, start) : m <= last
      <4>1. Breaks(text, start) \subseteq Nat /\ start + ChunkSize \in Nat
            /\ \A m \in Breaks(text, start) : m <= start + ChunkSize
        BY <1>t, <2>1, BreakBounds
      <4>2. QED
        BY <2>3, <4>1, MaxNumber
    <3>3. /\ last \in (start + MinimumBreak)..(start + ChunkSize)
          /\ text[last + 1] \in BreakCharacters
          /\ \A p \in (start + MinimumBreak)..(start + ChunkSize) :
                text[p + 1] \in BreakCharacters => p <= last
      BY <2>1, <3>2
    <3> HIDE DEF last
    <3>4. last \in Nat /\ start < last /\ last <= start + ChunkSize
      BY <3>3, <1>t, BreakBounds
    <3>5. \A p \in (start + MinimumBreak)..(start + ChunkSize) :
              text[p + 1] \in BreakCharacters => p < last + 1
      BY <1>t, <3>3, <3>4, BreakBounds
    <3>6. QED
      BY <1>2, <1>t, <2>1, <3>1, <3>3, <3>4, <3>5, BreakBounds
  <2>4. QED
    BY <2>2, <2>3
<1>3. QED
  BY <1>1, <1>2, <1>t, TargetValue, BreakBounds

(* The next chunk begins after this one began and no later than it ends,   *)
(* at most Overlap characters before, and it does not end earlier.         *)
LEMMA NextValue ==
    ASSUME NEW text \in Seq(Characters), NEW start \in 0..(Len(text) - 1),
           ChunkEnd(text, start) # Len(text)
    PROVE  LET end == ChunkEnd(text, start)
               next == NextStart(text, start) IN
           /\ next \in (start + 1)..(Len(text) - 1) /\ next <= end
           /\ end - next <= Overlap
           /\ end <= ChunkEnd(text, next)
<1> DEFINE end == ChunkEnd(text, start)
           next == NextStart(text, start)
<1>t. Len(text) \in Nat /\ start \in Nat /\ start < Len(text)
  OBVIOUS
<1>1. end \in (start + 1)..Len(text) /\ end # Len(text)
  BY EndValue
<1>2. /\ next \in (start + 1)..(Len(text) - 1) /\ next <= end /\ end - next <= Overlap
  BY <1>1, <1>t, BreakBounds DEF NextStart
<1>3. /\ \/ end = start + ChunkSize
               /\ \A p \in (start + MinimumBreak)..(start + ChunkSize) :
                     text[p + 1] \notin BreakCharacters
         \/ /\ end - 1 \in (start + MinimumBreak)..(start + ChunkSize)
            /\ text[end] \in BreakCharacters
  BY <1>1, EndValue
<1> DEFINE after == ChunkEnd(text, next)
<1>4. /\ after \in (next + 1)..Len(text)
      /\ \/ after = Len(text)
         \/ after = next + ChunkSize
         \/ /\ after - 1 \in (next + MinimumBreak)..(next + ChunkSize)
            /\ text[after] \in BreakCharacters
            /\ \A p \in (next + MinimumBreak)..(next + ChunkSize) :
                  text[p + 1] \in BreakCharacters => p < after
  <2>1. next \in 0..(Len(text) - 1)
    BY <1>2, <1>t
  <2> HIDE DEF next
  <2>2. QED
    BY <2>1, EndValue
<1>5. end <= after
  <2> HIDE DEF end, next, after
  <2>t. /\ end \in Nat /\ next \in Nat /\ after \in Nat /\ start < next
        /\ end <= Len(text) /\ end - next <= Overlap /\ next <= end
    BY <1>1, <1>2, <1>4, <1>t
  <2>1. CASE after = Len(text)
    BY <2>1, <2>t
  <2>2. CASE after = next + ChunkSize
    BY <2>2, <2>t, BreakBounds
  <2>3. CASE /\ after - 1 \in (next + MinimumBreak)..(next + ChunkSize)
             /\ text[after] \in BreakCharacters
             /\ \A p \in (next + MinimumBreak)..(next + ChunkSize) :
                   text[p + 1] \in BreakCharacters => p < after
    <3>1. CASE /\ end = start + ChunkSize
               /\ \A p \in (start + MinimumBreak)..(start + ChunkSize) :
                     text[p + 1] \notin BreakCharacters
      <4>1. text[(after - 1) + 1] \in BreakCharacters
        BY <2>3, <2>t
      <4>2. after - 1 \notin (start + MinimumBreak)..(start + ChunkSize)
        BY <3>1, <4>1
      <4>3. QED
        BY <2>3, <2>t, <3>1, <4>2, <1>t, BreakBounds
    <3>2. CASE /\ end - 1 \in (start + MinimumBreak)..(start + ChunkSize)
               /\ text[end] \in BreakCharacters
      <4>1. text[(end - 1) + 1] \in BreakCharacters
        BY <3>2, <2>t
      <4>2. end - 1 \in (next + MinimumBreak)..(next + ChunkSize) => end - 1 < after
        BY <2>3, <4>1
      <4>3. QED
        BY <2>3, <2>t, <3>2, <4>2, <1>t, BreakBounds
    <3>3. QED
      BY <1>3, <3>1, <3>2
  <2>4. QED
    BY <1>4, <2>1, <2>2, <2>3
<1>6. QED
  BY <1>2, <1>5

-----------------------------------------------------------------------------
(* The chunk that begins at start: its ink and no more.                    *)
Chunk == [char_start : Nat, char_end : Nat]

LEMMA ChunkValue ==
    ASSUME NEW text \in Seq(Characters), NEW start \in 0..(Len(text) - 1)
    PROVE  LET window == start..(ChunkEnd(text, start) - 1) IN
           \/ ChunkFrom(text, start) = <<>> /\ \A p \in window : Space(text, p)
           \/ \E first, last \in window :
                 /\ ~Space(text, first) /\ ~Space(text, last)
                 /\ \A p \in window : Space(text, p) \/ (first <= p /\ p <= last)
                 /\ ChunkFrom(text, start) =
                       <<[char_start |-> first, char_end |-> last + 1]>>
<1> DEFINE end == ChunkEnd(text, start)
           inked == {p \in start..(end - 1) : ~Space(text, p)}
<1>1. end \in Nat /\ start \in Nat
  BY EndValue
<1>2. CASE inked = {}
  BY <1>2 DEF ChunkFrom
<1>3. CASE inked # {}
  <2>1. inked \subseteq Nat /\ \A m \in inked : m <= end
    BY <1>1
  <2> HIDE DEF inked, end
  <2>2. Min(inked) \in inked /\ \A m \in inked : Min(inked) <= m
    BY <1>3, <2>1, MinNumber
  <2>3. Max(inked) \in inked /\ \A m \in inked : m <= Max(inked)
    BY <1>3, <2>1, <1>1, MaxNumber
  <2>4. ChunkFrom(text, start) = <<[char_start |-> Min(inked), char_end |-> Max(inked) + 1]>>
    BY <1>3 DEF ChunkFrom, inked, end
  <2>5. \A p \in start..(end - 1) : Space(text, p) \/ (Min(inked) <= p /\ p <= Max(inked))
    BY <2>2, <2>3 DEF inked
  <2>6. /\ Min(inked) \in start..(end - 1) /\ ~Space(text, Min(inked))
        /\ Max(inked) \in start..(end - 1) /\ ~Space(text, Max(inked))
    BY <2>2, <2>3 DEF inked
  <2>7. QED
    BY <2>4, <2>5, <2>6 DEF end
<1>4. QED
  BY <1>2, <1>3

-----------------------------------------------------------------------------
(* The recursion: what the cuts from start are, given those further on.    *)
Cuts(text, from, start) ==
    IF start = Len(text) THEN <<>>
    ELSE ChunkFrom(text, start)
         \o IF ChunkEnd(text, start) = Len(text) THEN <<>>
            ELSE from[NextStart(text, start)]

(* They depend on what is further on only.                                 *)
LEMMA CutsLookAhead ==
    ASSUME NEW text \in Seq(Characters), NEW start \in 0..Len(text), NEW f, NEW g,
           \A s \in (start + 1)..Len(text) : f[s] = g[s]
    PROVE  Cuts(text, f, start) = Cuts(text, g, start)
<1>1. CASE start = Len(text) \/ ChunkEnd(text, start) = Len(text)
  BY <1>1 DEF Cuts
<1>2. CASE start # Len(text) /\ ChunkEnd(text, start) # Len(text)
  <2>1. start \in 0..(Len(text) - 1)
    BY <1>2
  <2>2. NextStart(text, start) \in (start + 1)..Len(text)
    BY <1>2, <2>1, NextValue
  <2>3. QED
    BY <2>2 DEF Cuts
<1>3. QED
  BY <1>1, <1>2

(* There is a function that satisfies the recursion at every offset.       *)
LEMMA CutsExist ==
    ASSUME NEW text \in Seq(Characters)
    PROVE  \E f : f = [s \in 0..Len(text) |-> Cuts(text, f, s)]
<1> DEFINE N == Len(text)
           Solved(f, m) == \A s \in m..N : f[s] = Cuts(text, f, s)
           Open == {k \in 0..N : ~\E f : Solved(f, N - k)}
<1>t. N \in Nat
  OBVIOUS
<1>1. Open = {}
  <2> SUFFICES ASSUME Open # {} PROVE FALSE
    OBVIOUS
  <2>1. PICK k \in Open : \A j \in Open : k <= j
    <3>1. Open \subseteq Nat
      BY <1>t
    <3> HIDE DEF Open
    <3>2. QED
      BY <3>1, LeastNumber
  <2>2. k # 0
    <3> DEFINE f == [s \in {N} |-> <<>>]
    <3>1. Solved(f, N - 0)
      BY <1>t DEF Cuts
    <3>2. QED
      BY <3>1
  <2>3. k \in 0..N /\ k - 1 \in 0..N /\ ~(k <= k - 1)
    BY <2>2, <1>t
  <2>4. k - 1 \notin Open
    BY <2>1, <2>3
  <2>5. PICK f : Solved(f, N - (k - 1))
    BY <2>3, <2>4
  <2> DEFINE m == N - k
             g == [s \in m..N |-> IF s = m THEN Cuts(text, f, m) ELSE f[s]]
  <2>6. m \in 0..N /\ N - (k - 1) = m + 1
    BY <2>3, <1>t
  <2>7. \A s \in (m + 1)..N : g[s] = f[s]
    BY <2>6
  <2>8. ASSUME NEW s \in m..N PROVE g[s] = Cuts(text, g, s)
    <3>1. Cuts(text, g, s) = Cuts(text, f, s)
      <4>1. s \in 0..N /\ \A r \in (s + 1)..N : g[r] = f[r]
        BY <2>6, <2>7, SMTT(30)
      <4> HIDE DEF g
      <4>2. QED
        BY <4>1, CutsLookAhead
    <3>2. CASE s = m
      BY <3>1, <3>2, <2>6
    <3>3. CASE s # m
      <4>1. s \in (m + 1)..N
        BY <3>3, <2>6
      <4>2. f[s] = Cuts(text, f, s)
        BY <4>1, <2>5, <2>6
      <4>3. QED
        BY <3>1, <4>1, <4>2, <2>7
    <3>4. QED
      BY <3>2, <3>3
  <2>9. \E h : Solved(h, N - k)
    <3> HIDE DEF g
    <3>1. Solved(g, N - k)
      BY <2>8
    <3>2. QED
      BY <3>1
  <2>10. QED
    BY <2>1, <2>9
<1>2. PICK f : Solved(f, N - N)
  <2>1. N \in 0..N /\ N \notin Open
    BY <1>1, <1>t
  <2>2. QED
    BY <2>1
<1> DEFINE g == [s \in 0..N |-> f[s]]
<1>3. ASSUME NEW s \in 0..N PROVE g[s] = Cuts(text, g, s)
  <2>1. \A r \in (s + 1)..N : g[r] = f[r]
    BY <1>t
  <2>2. g[s] = f[s] /\ f[s] = Cuts(text, f, s)
    BY <1>2, <1>t
  <2> HIDE DEF g
  <2>3. Cuts(text, g, s) = Cuts(text, f, s)
    BY <2>1, CutsLookAhead
  <2>4. QED
    BY <2>2, <2>3
<1>4. g = [s \in 0..N |-> Cuts(text, g, s)]
  BY <1>3
<1>5. QED
  BY <1>4

(* So SplitText is the value at the beginning of such a function.          *)
LEMMA SplitValue ==
    ASSUME NEW text \in Seq(Characters)
    PROVE  \E f : /\ \A s \in 0..Len(text) : f[s] = Cuts(text, f, s)
                  /\ SplitText(text) = f[0]
<1> DEFINE from == CHOOSE f : f = [s \in 0..Len(text) |-> Cuts(text, f, s)]
<1>1. SplitText(text) = from[0]
  BY DEF SplitText, Cuts
<1>2. from = [s \in 0..Len(text) |-> Cuts(text, from, s)]
  BY CutsExist
<1> HIDE DEF from
<1>3. \A s \in 0..Len(text) : from[s] = Cuts(text, from, s)
  BY <1>2
<1>4. QED
  BY <1>1, <1>3

-----------------------------------------------------------------------------
(* What the chunks from start on are, stated so that a chunk can be put    *)
(* before them: SplitSound from start, all of them after start, and the    *)
(* first of them reaches over the ink of the window at start.              *)
ChunkSound(text, chunk) ==
    LET first == chunk.char_start
        last == chunk.char_end - 1
    IN  /\ first <= last /\ ~Space(text, first) /\ ~Space(text, last)
        /\ \/ last - first < ChunkSize
           \/ last - first = ChunkSize /\ text[last + 1] \in BreakCharacters

Advances(c, d) ==
    /\ c.char_start <= d.char_start
    /\ c.char_end <= d.char_end
    /\ c.char_end - d.char_start <= Overlap

Covered(chunks, p) ==
    \E i \in DOMAIN chunks : chunks[i].char_start <= p /\ p < chunks[i].char_end

SoundFrom(text, chunks, start) ==
    /\ chunks \in Seq(Chunk)
    /\ \A p \in start..(Len(text) - 1) : Space(text, p) \/ Covered(chunks, p)
    /\ \A i \in DOMAIN chunks :
          ChunkSound(text, chunks[i]) /\ start <= chunks[i].char_start
                                      /\ chunks[i].char_end <= Len(text)
    /\ \A i \in 1..(Len(chunks) - 1) : Advances(chunks[i], chunks[i + 1])
    /\ chunks # <<>> =>
          \A p \in start..(ChunkEnd(text, start) - 1) :
              Space(text, p) \/ p < chunks[1].char_end

(* Putting an element before a sequence.                                   *)
LEMMA Before ==
    ASSUME NEW T, NEW c \in T, NEW rest \in Seq(T)
    PROVE  /\ <<c>> \o rest \in Seq(T)
           /\ Len(<<c>> \o rest) = Len(rest) + 1
           /\ DOMAIN (<<c>> \o rest) = 1..(Len(rest) + 1)
           /\ (<<c>> \o rest)[1] = c
           /\ \A i \in DOMAIN rest : (<<c>> \o rest)[i + 1] = rest[i]
           /\ DOMAIN rest = 1..Len(rest) /\ Len(rest) \in Nat
  OBVIOUS

LEMMA ChunkFields ==
    ASSUME NEW chunks \in Seq(Chunk), NEW i \in DOMAIN chunks
    PROVE  chunks[i] \in Chunk /\ chunks[i].char_start \in Nat /\ chunks[i].char_end \in Nat
<1>1. chunks[i] \in Chunk
  OBVIOUS
<1>2. QED
  BY <1>1 DEF Chunk

(* The chunk of the window at start is sound by itself.                    *)
LEMMA FirstSound ==
    ASSUME NEW text \in Seq(Characters), NEW start \in 0..(Len(text) - 1),
           NEW first \in start..(ChunkEnd(text, start) - 1),
           NEW last \in start..(ChunkEnd(text, start) - 1),
           ~Space(text, first), ~Space(text, last), first <= last
    PROVE  LET c == [char_start |-> first, char_end |-> last + 1] IN
           c \in Chunk /\ ChunkSound(text, c) /\ c.char_end <= Len(text)
<1> DEFINE end == ChunkEnd(text, start)
<1>1. /\ end \in (start + 1)..Len(text)
      /\ \/ end <= start + ChunkSize
         \/ end = start + ChunkSize + 1 /\ text[end] \in BreakCharacters
  <2>1. /\ end \in (start + 1)..Len(text)
        /\ \/ end <= start + ChunkSize
           \/ end = start + ChunkSize
           \/ /\ end - 1 \in (start + MinimumBreak)..(start + ChunkSize)
              /\ text[end] \in BreakCharacters
    BY EndValue
  <2> HIDE DEF end
  <2>2. start \in Nat /\ Len(text) \in Nat
    OBVIOUS
  <2>3. QED
    BY <2>1, <2>2, BreakBounds
<1> HIDE DEF end
<1>2. first \in start..(end - 1) /\ last \in start..(end - 1)
  BY DEF end
<1>3. first \in Nat /\ last \in Nat /\ end \in Nat /\ start \in Nat /\ Len(text) \in Nat
  BY <1>1, <1>2
<1>4. \/ last - first < ChunkSize
      \/ last - first = ChunkSize /\ text[last + 1] \in BreakCharacters
  <2>1. CASE end <= start + ChunkSize
    BY <2>1, <1>2, <1>3, BreakBounds
  <2>2. CASE end = start + ChunkSize + 1 /\ text[end] \in BreakCharacters
    <3>1. last - first < ChunkSize \/ (last - first = ChunkSize /\ last + 1 = end)
      BY <2>2, <1>2, <1>3, BreakBounds
    <3>2. QED
      BY <2>2, <3>1
  <2>3. QED
    BY <1>1, <2>1, <2>2
<1>5. QED
  BY <1>1, <1>2, <1>3, <1>4 DEF Chunk, ChunkSound

(* No chunk at start: what is sound further on is sound from start.        *)
LEMMA SoundWithoutFirst ==
    ASSUME NEW text \in Seq(Characters), NEW start \in 0..(Len(text) - 1), NEW rest,
           \A p \in start..(ChunkEnd(text, start) - 1) : Space(text, p),
           \/ ChunkEnd(text, start) = Len(text) /\ rest = <<>>
           \/ /\ ChunkEnd(text, start) # Len(text)
              /\ SoundFrom(text, rest, NextStart(text, start))
    PROVE  SoundFrom(text, rest, start)
<1> DEFINE end == ChunkEnd(text, start)
           next == NextStart(text, start)
<1>t. /\ start \in Nat /\ Len(text) \in Nat /\ end \in (start + 1)..Len(text)
  BY EndValue
<1>1. CASE end = Len(text) /\ rest = <<>>
  BY <1>1 DEF SoundFrom
<1>2. CASE end # Len(text) /\ SoundFrom(text, rest, next)
  <2>1. next \in (start + 1)..(Len(text) - 1) /\ next <= end
    BY <1>2, NextValue
  <2>2. rest \in Seq(Chunk)
    BY <1>2 DEF SoundFrom
  <2>3. \A p \in start..(Len(text) - 1) : Space(text, p) \/ Covered(rest, p)
    <3>1. \A p \in next..(Len(text) - 1) : Space(text, p) \/ Covered(rest, p)
      BY <1>2 DEF SoundFrom
    <3> HIDE DEF next, end
    <3>2. \A p \in start..(Len(text) - 1) : p \in start..(end - 1) \/ p \in next..(Len(text) - 1)
      BY <2>1, <1>t
    <3>3. QED
      BY <3>1, <3>2 DEF end
  <2>4. \A i \in DOMAIN rest :
            ChunkSound(text, rest[i]) /\ start <= rest[i].char_start
                                      /\ rest[i].char_end <= Len(text)
    <3>1. \A i \in DOMAIN rest :
              ChunkSound(text, rest[i]) /\ next <= rest[i].char_start
                                        /\ rest[i].char_end <= Len(text)
      BY <1>2 DEF SoundFrom
    <3>2. \A i \in DOMAIN rest : rest[i].char_start \in Nat
      BY <2>2, ChunkFields
    <3> HIDE DEF next
    <3>3. QED
      BY <3>1, <3>2, <2>1, <1>t
  <2>5. QED
    BY <1>2, <2>2, <2>3, <2>4 DEF SoundFrom
<1>3. QED
  BY <1>1, <1>2

(* A chunk at start: it goes before what is sound further on.              *)
LEMMA SoundWithFirst ==
    ASSUME NEW text \in Seq(Characters), NEW start \in 0..(Len(text) - 1), NEW rest,
           NEW first \in start..(ChunkEnd(text, start) - 1),
           NEW last \in start..(ChunkEnd(text, start) - 1),
           ~Space(text, first), ~Space(text, last),
           \A p \in start..(ChunkEnd(text, start) - 1) :
               Space(text, p) \/ (first <= p /\ p <= last),
           \/ ChunkEnd(text, start) = Len(text) /\ rest = <<>>
           \/ /\ ChunkEnd(text, start) # Len(text)
              /\ SoundFrom(text, rest, NextStart(text, start))
    PROVE  SoundFrom(text, <<[char_start |-> first, char_end |-> last + 1]>> \o rest, start)
<1> DEFINE end == ChunkEnd(text, start)
           next == NextStart(text, start)
           c == [char_start |-> first, char_end |-> last + 1]
           all == <<c>> \o rest
<1>t. /\ start \in Nat /\ Len(text) \in Nat /\ end \in (start + 1)..Len(text)
      /\ first \in start..(end - 1) /\ last \in start..(end - 1)
      /\ \A p \in start..(end - 1) : Space(text, p) \/ (first <= p /\ p <= last)
  BY EndValue
<1>f. first <= last
  BY <1>t
<1>1. c \in Chunk /\ ChunkSound(text, c) /\ c.char_end <= Len(text)
  BY <1>f, FirstSound
<1>2. rest \in Seq(Chunk)
  <2>1. CASE rest = <<>>
    BY <2>1
  <2>2. CASE SoundFrom(text, rest, next)
    BY <2>2 DEF SoundFrom
  <2>3. QED
    BY <2>1, <2>2
<1>c. c.char_start = first /\ c.char_end = last + 1
  OBVIOUS
<1>n. end # Len(text) =>
          /\ SoundFrom(text, rest, next)
          /\ next \in (start + 1)..(Len(text) - 1) /\ next <= end
          /\ end - next <= Overlap /\ end <= ChunkEnd(text, next)
  BY NextValue
<1>e. end = Len(text) => rest = <<>>
  OBVIOUS
<1> HIDE DEF c
<1>3. /\ all \in Seq(Chunk) /\ Len(all) = Len(rest) + 1
      /\ DOMAIN all = 1..(Len(rest) + 1) /\ all[1] = c
      /\ \A i \in DOMAIN rest : all[i + 1] = rest[i]
      /\ DOMAIN rest = 1..Len(rest) /\ Len(rest) \in Nat
  BY <1>1, <1>2, Before
<1> HIDE DEF all, end, next
<1>4. ASSUME NEW p \in start..(Len(text) - 1), ~Space(text, p) PROVE Covered(all, p)
  <2>1. CASE p \in start..(end - 1)
    <3>1. all[1].char_start <= p /\ p < all[1].char_end /\ 1 \in DOMAIN all
      BY <1>3, <1>4, <1>c, <1>t, <2>1
    <3>2. QED
      BY <3>1 DEF Covered
  <2>2. CASE p \notin start..(end - 1)
    <3>1. end # Len(text) /\ p \in next..(Len(text) - 1)
      BY <1>4, <1>t, <1>n, <2>2
    <3>2. Covered(rest, p)
      BY <1>4, <1>n, <3>1 DEF SoundFrom
    <3>3. PICK i \in DOMAIN rest : rest[i].char_start <= p /\ p < rest[i].char_end
      BY <3>2 DEF Covered
    <3>4. all[i + 1] = rest[i] /\ i + 1 \in DOMAIN all
      BY <1>3
    <3>5. QED
      BY <3>3, <3>4 DEF Covered
  <2>3. QED
    BY <2>1, <2>2
<1>5. ASSUME NEW i \in DOMAIN all
      PROVE  ChunkSound(text, all[i]) /\ start <= all[i].char_start
                                      /\ all[i].char_end <= Len(text)
  <2>1. CASE i = 1
    BY <1>1, <1>3, <1>c, <1>t, <2>1
  <2>2. CASE i # 1
    <3>1. i - 1 \in DOMAIN rest /\ all[i] = rest[i - 1]
      <4>1. i - 1 \in DOMAIN rest /\ (i - 1) + 1 = i
        BY <1>3, <2>2
      <4>2. QED
        BY <1>3, <4>1
    <3>2. rest # <<>>
      BY <3>1
    <3>3. /\ ChunkSound(text, rest[i - 1]) /\ next <= rest[i - 1].char_start
          /\ rest[i - 1].char_end <= Len(text)
      BY <1>e, <1>n, <3>1, <3>2 DEF SoundFrom
    <3>4. rest[i - 1].char_start \in Nat
      BY <1>2, <3>1, ChunkFields
    <3>5. QED
      BY <1>e, <1>n, <1>t, <3>1, <3>2, <3>3, <3>4
  <2>3. QED
    BY <2>1, <2>2
<1>6. ASSUME rest # <<>> PROVE Advances(c, rest[1])
  <2>1. end # Len(text) /\ 1 \in DOMAIN rest
    BY <1>e, <1>3, <1>6
  <2>2. /\ rest[1].char_start \in Nat /\ rest[1].char_end \in Nat
    BY <1>2, <2>1, ChunkFields
  <2> DEFINE s == rest[1].char_start
             e == rest[1].char_end
  <2>3. /\ next <= s /\ s <= e - 1 /\ ~Space(text, s) /\ e <= Len(text)
        /\ \A p \in next..(ChunkEnd(text, next) - 1) : Space(text, p) \/ p < e
    BY <1>n, <1>6, <2>1 DEF SoundFrom, ChunkSound
  <2>4. /\ next \in Nat /\ start < next /\ next <= end /\ end - next <= Overlap
        /\ end <= ChunkEnd(text, next) /\ ChunkEnd(text, next) \in Nat
        /\ end \in Nat /\ first \in Nat /\ last \in Nat /\ first < end /\ last < end
    <3>1. next \in 0..(Len(text) - 1)
      BY <1>n, <1>t, <2>1
    <3>2. ChunkEnd(text, next) \in Nat
      BY <3>1, EndValue
    <3>3. QED
      BY <1>n, <1>t, <2>1, <3>2
  <2> HIDE DEF s, e
  <2>t. s \in Nat /\ e \in Nat
    BY <2>2 DEF s, e
  <2>5. first <= s
    <3>1. s \in start..(end - 1) => first <= s
      BY <1>t, <2>3
    <3>2. QED
      BY <2>3, <2>4, <2>t, <3>1, <1>t
  <2>6. last + 1 <= e
    <3>1. last \in next..(ChunkEnd(text, next) - 1) => last < e
      BY <2>3
    <3>2. QED
      BY <2>3, <2>4, <2>t, <3>1
  <2>7. (last + 1) - s <= Overlap
    BY <2>3, <2>4, <2>t, BreakBounds
  <2>8. QED
    BY <1>c, <2>5, <2>6, <2>7 DEF Advances, s, e
<1>7. ASSUME NEW i \in 1..(Len(all) - 1) PROVE Advances(all[i], all[i + 1])
  <2>1. i \in DOMAIN rest /\ all[i + 1] = rest[i] /\ rest # <<>>
    BY <1>3
  <2>2. CASE i = 1
    BY <1>3, <1>6, <2>1, <2>2
  <2>3. CASE i # 1
    <3>1. i - 1 \in 1..(Len(rest) - 1) /\ i - 1 \in DOMAIN rest /\ (i - 1) + 1 = i
      BY <1>3, <2>1, <2>3
    <3>2. all[i] = rest[i - 1]
      BY <1>3, <3>1
    <3>3. Advances(rest[i - 1], rest[(i - 1) + 1])
      BY <1>e, <1>n, <2>1, <3>1 DEF SoundFrom
    <3>4. QED
      BY <2>1, <3>1, <3>2, <3>3
  <2>4. QED
    BY <2>2, <2>3
<1>8. ASSUME NEW p \in start..(end - 1), ~Space(text, p) PROVE p < all[1].char_end
  BY <1>3, <1>8, <1>c, <1>t
<1>9. SoundFrom(text, all, start)
  BY <1>3, <1>4, <1>5, <1>7, <1>8 DEF SoundFrom, end
<1>10. QED
  BY <1>9 DEF all, c

-----------------------------------------------------------------------------
(* A window without ink has no chunk; another has one, trimmed to its ink. *)
LEMMA CutsSound ==
    ASSUME NEW text \in Seq(Characters), NEW f, NEW start \in 0..Len(text),
           \A s \in (start + 1)..Len(text) : SoundFrom(text, f[s], s)
    PROVE  SoundFrom(text, Cuts(text, f, start), start)
<1>1. CASE start = Len(text)
  BY <1>1 DEF Cuts, SoundFrom
<1>2. CASE start # Len(text)
  <2> DEFINE end == ChunkEnd(text, start)
             next == NextStart(text, start)
             rest == IF end = Len(text) THEN <<>> ELSE f[next]
  <2>1. start \in 0..(Len(text) - 1) /\ start \in Nat /\ end \in (start + 1)..Len(text)
    <3>1. start \in 0..(Len(text) - 1) /\ start \in Nat
      BY <1>2
    <3>2. QED
      BY <3>1, EndValue
  <2>2. \/ end = Len(text) /\ rest = <<>>
        \/ end # Len(text) /\ SoundFrom(text, rest, next)
    <3>1. CASE end = Len(text)
      BY <3>1
    <3>2. CASE end # Len(text)
      <4>1. next \in (start + 1)..(Len(text) - 1)
        BY <2>1, <3>2, NextValue
      <4>2. next \in (start + 1)..Len(text)
        BY <4>1, <2>1
      <4>3. SoundFrom(text, f[next], next)
        BY <4>2
      <4>4. QED
        BY <3>2, <4>3
    <3>3. QED
      BY <3>1, <3>2
  <2>3. Cuts(text, f, start) = ChunkFrom(text, start) \o rest
    BY <1>2 DEF Cuts
  <2>4. rest \in Seq(Chunk)
    <3> HIDE DEF rest, next
    <3>1. CASE rest = <<>>
      BY <3>1
    <3>2. CASE SoundFrom(text, rest, next)
      BY <3>2 DEF SoundFrom
    <3>3. QED
      BY <2>2, <3>1, <3>2
  <2> HIDE DEF rest
  <2>5. \/ /\ ChunkFrom(text, start) = <<>>
           /\ \A p \in start..(end - 1) : Space(text, p)
        \/ \E first, last \in start..(end - 1) :
              /\ ChunkFrom(text, start) = <<[char_start |-> first, char_end |-> last + 1]>>
              /\ ~Space(text, first) /\ ~Space(text, last)
              /\ \A p \in start..(end - 1) : Space(text, p) \/ (first <= p /\ p <= last)
    BY <2>1, ChunkValue
  <2>6. CASE /\ ChunkFrom(text, start) = <<>>
             /\ \A p \in start..(end - 1) : Space(text, p)
    <3>1. Cuts(text, f, start) = rest
      BY <2>3, <2>4, <2>6
    <3>2. SoundFrom(text, rest, start)
      BY <2>1, <2>2, <2>6, SoundWithoutFirst
    <3>3. QED
      BY <3>1, <3>2
  <2>7. ASSUME NEW first \in start..(end - 1), NEW last \in start..(end - 1),
               ChunkFrom(text, start) = <<[char_start |-> first, char_end |-> last + 1]>>,
               ~Space(text, first), ~Space(text, last),
               \A p \in start..(end - 1) : Space(text, p) \/ (first <= p /\ p <= last)
        PROVE  SoundFrom(text, Cuts(text, f, start), start)
    <3>2. SoundFrom(text, <<[char_start |-> first, char_end |-> last + 1]>> \o rest, start)
      BY <2>1, <2>2, <2>7, SoundWithFirst
    <3>3. QED
      BY <2>3, <2>7, <3>2
  <2>8. QED
    BY <2>5, <2>6, <2>7
<1>3. QED
  BY <1>1, <1>2

(* By induction from the end of the text: were there an offset whose       *)
(* chunks are not sound, there would be a last one.                        *)
LEMMA SplitFromBeginning ==
    ASSUME NEW text \in Seq(Characters)
    PROVE  SoundFrom(text, SplitText(text), 0)
<1> DEFINE N == Len(text)
<1>t. N \in Nat
  OBVIOUS
<1>1. PICK f : /\ \A s \in 0..N : f[s] = Cuts(text, f, s)
               /\ SplitText(text) = f[0]
  BY SplitValue
<1> DEFINE Open == {k \in 0..N : ~SoundFrom(text, f[N - k], N - k)}
<1>2. Open = {}
  <2> SUFFICES ASSUME Open # {} PROVE FALSE
    OBVIOUS
  <2>1. PICK k \in Open : \A j \in Open : k <= j
    <3>1. Open \subseteq Nat
      BY <1>t
    <3> HIDE DEF Open
    <3>2. QED
      BY <3>1, LeastNumber
  <2>2. k \in 0..N /\ ~SoundFrom(text, f[N - k], N - k)
    OBVIOUS
  <2> DEFINE start == N - k
  <2>3. start \in 0..N /\ k \in Nat
    BY <2>2, <1>t
  <2>4. ASSUME NEW s \in (start + 1)..N PROVE SoundFrom(text, f[s], s)
    <3>1. N - s \in 0..N /\ N - (N - s) = s /\ N - s < k
      BY <2>3, <1>t
    <3>2. N - s \notin Open
      BY <2>1, <2>3, <3>1
    <3>3. QED
      BY <3>1, <3>2
  <2>5. f[start] = Cuts(text, f, start)
    BY <1>1, <2>3
  <2> HIDE DEF start
  <2>6. SoundFrom(text, Cuts(text, f, start), start)
    BY <2>3, <2>4, CutsSound
  <2>7. QED
    BY <2>2, <2>5, <2>6 DEF start
<1>3. 0 \notin Open /\ N \notin Open
  BY <1>2
<1>4. N \in 0..N /\ N - N = 0
  BY <1>t
<1>5. SoundFrom(text, f[0], 0)
  BY <1>3, <1>4
<1>6. QED
  BY <1>1, <1>5

(* The chunks of every text are sound, whatever the sizes: they begin and  *)
(* end with ink, cover all of it, keep to their size but for a break that  *)
(* is one character too far, advance, and share at most the overlap        *)
(* (split_text).                                                           *)
THEOREM SplitIsSound ==
    \A text \in Seq(Characters) :
        SplitText(text) \in Seq(Chunk) /\ SplitSound(text, SplitText(text))
<1> SUFFICES ASSUME NEW text \in Seq(Characters)
             PROVE  SplitText(text) \in Seq(Chunk) /\ SplitSound(text, SplitText(text))
  OBVIOUS
<1> DEFINE chunks == SplitText(text)
<1>1. SoundFrom(text, chunks, 0)
  BY SplitFromBeginning
<1> HIDE DEF chunks
<1>2. /\ chunks \in Seq(Chunk)
      /\ \A p \in 0..(Len(text) - 1) : Space(text, p) \/ Covered(chunks, p)
      /\ \A i \in DOMAIN chunks : ChunkSound(text, chunks[i])
      /\ \A i \in 1..(Len(chunks) - 1) : Advances(chunks[i], chunks[i + 1])
  BY <1>1 DEF SoundFrom
<1>3. SplitSound(text, chunks)
  BY <1>2 DEF SplitSound, Covered, ChunkSound, Advances
<1>4. QED
  BY <1>2, <1>3 DEF chunks
=============================================================================
