---------------------------- MODULE TextSplitter ----------------------------
(***************************************************************************)
(* Cutting a normalised text into overlapping chunks that end at a break   *)
(* character where there is one (backend/app/services/text_splitter.py).   *)
(* A character is one of four kinds; offsets count from 0 as in the code,  *)
(* so the character at offset p is text[p + 1].                            *)
(***************************************************************************)
EXTENDS Integers, Sequences, FiniteSetsExt

CONSTANTS
    ChunkSize,   \* document_chunk_size
    Overlap      \* document_chunk_overlap

ASSUME SplitterAssumption ==
    ChunkSize \in Nat \ {0} /\ Overlap \in Nat /\ Overlap < ChunkSize

Letter == "letter"
Stop == "stop"         \* the sentence marks among the break characters
NewLine == "newline"   \* a break character and white space
Blank == "blank"

Characters == {Letter, Stop, NewLine, Blank}

BreakCharacters == {Stop, NewLine}

Space(text, p) == text[p + 1] \in {NewLine, Blank}

(* What normalize_text returns: no white space at either end or at the end *)
(* of a line, and at most one empty line in a row.                         *)
Normal(text) ==
    /\ text # <<>> => ~Space(text, 0) /\ ~Space(text, Len(text) - 1)
    /\ \A i \in 1..(Len(text) - 1) : ~(text[i] = Blank /\ text[i + 1] = NewLine)
    /\ \A i \in 1..(Len(text) - 2) : \E j \in i..(i + 2) : text[j] # NewLine

MinimumBreak == Max({ChunkSize \div 2, 1})

TargetEnd(text, start) == Min({start + ChunkSize, Len(text)})

(* rfind looks at the offsets from search_start to target_end inclusive.   *)
Breaks(text, start) ==
    {p \in Min({start + MinimumBreak, TargetEnd(text, start)})..TargetEnd(text, start) :
        text[p + 1] \in BreakCharacters}

ChunkEnd(text, start) ==
    IF TargetEnd(text, start) < Len(text) /\ Breaks(text, start) # {}
    THEN Max(Breaks(text, start)) + 1
    ELSE TargetEnd(text, start)

(* A bug to catch: the next chunk starts before the target, not the end.   *)
NextStartFromTarget(text, start) ==
    IF TargetEnd(text, start) - Overlap <= start THEN TargetEnd(text, start)
    ELSE TargetEnd(text, start) - Overlap

NextStart(text, start) ==
    IF ChunkEnd(text, start) - Overlap <= start THEN ChunkEnd(text, start)
    ELSE ChunkEnd(text, start) - Overlap

(* The chunk that begins at start, trimmed; none when it is all space.     *)
ChunkFrom(text, start) ==
    LET inked == {p \in start..(ChunkEnd(text, start) - 1) : ~Space(text, p)}
    IN  IF inked = {} THEN <<>>
        ELSE <<[char_start |-> Min(inked), char_end |-> Max(inked) + 1]>>

SplitText(text) ==
    LET from[start \in 0..Len(text)] ==
            IF start = Len(text) THEN <<>>
            ELSE ChunkFrom(text, start)
                 \o IF ChunkEnd(text, start) = Len(text) THEN <<>>
                    ELSE from[NextStart(text, start)]
    IN  from[0]

-----------------------------------------------------------------------------
(* What the chunks of a text are expected to be: they begin and end with   *)
(* ink and cover all of it; one more character than ChunkSize fits when it *)
(* is a break; they advance, and neighbours share at most Overlap          *)
(* characters.                                                             *)
SplitSound(text, chunks) ==
    /\ \A p \in 0..(Len(text) - 1) :
          Space(text, p) \/ \E i \in DOMAIN chunks :
                                chunks[i].char_start <= p /\ p < chunks[i].char_end
    /\ \A i \in DOMAIN chunks :
          LET first == chunks[i].char_start
              last == chunks[i].char_end - 1
          IN  /\ first <= last /\ ~Space(text, first) /\ ~Space(text, last)
              /\ \/ last - first < ChunkSize
                 \/ last - first = ChunkSize /\ text[last + 1] \in BreakCharacters
    /\ \A i \in 1..(Len(chunks) - 1) :
          /\ chunks[i].char_start <= chunks[i + 1].char_start
          /\ chunks[i].char_end <= chunks[i + 1].char_end
          /\ chunks[i].char_end - chunks[i + 1].char_start <= Overlap
=============================================================================
