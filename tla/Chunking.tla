------------------------------ MODULE Chunking ------------------------------
(***************************************************************************)
(* chunkText: the loop that cuts a document's text into the overlapping    *)
(* chunks that are embedded.  One step is one turn of the while loop.      *)
(*                                                                         *)
(* A chunk is the set of the positions of the text it holds; position p is *)
(* the code's index p - 1, and start is the number of characters before    *)
(* the window.  A character matters by whether trim() removes it and by    *)
(* whether a sentence may end at it.                                       *)
(***************************************************************************)
EXTENDS Integers, Sequences

CONSTANTS
  Texts,        \* the texts of documents
  ChunkSizes,   \* what callers give as options.chunkSize
  Overlaps      \* and as options.overlap

Char == {"letter", "stop", "space", "newline"}

ASSUME TextsAssumption == Texts \subseteq Seq(Char)

(* With a chunkSize of 0 the loop does not advance; no caller gives it.    *)
ASSUME OptionsAssumption == ChunkSizes \subseteq Nat \ {0} /\ Overlaps \subseteq Nat

VARIABLES
  text,         \* cleaned
  chunkSize,
  overlap,      \* after it has been limited
  start,
  chunks        \* chunks[i]: what the chunk with chunkIndex i - 1 holds

vars == <<text, chunkSize, overlap, start, chunks>>

-----------------------------------------------------------------------------
Blank(p) == text[p] \in {"space", "newline"}

(* What the cleaning makes of a text: no blank at either end, no more than *)
(* one empty line in a row.                                                *)
IsCleaned(t) ==
  /\ t # <<>> => {t[1], t[Len(t)]} \cap {"space", "newline"} = {}
  /\ \A p \in 1..(Len(t) - 2) : \E q \in p..(p + 2) : t[q] # "newline"

Limited(o, size) == IF o <= size \div 2 THEN o ELSE size \div 2

Init ==
  /\ text \in {t \in Texts : IsCleaned(t)}
  /\ chunkSize \in ChunkSizes
  /\ \E o \in Overlaps : overlap = Limited(o, chunkSize)
  /\ start = 0
  /\ chunks = <<>>

-----------------------------------------------------------------------------
(* The loop.                                                               *)

More == start < Len(text)

Window(end) == {p \in 1..Len(text) : start < p /\ p <= end}

(* A full stop with its space inside the window, or a newline, far enough  *)
(* from the start of the window.                                           *)
Breaks(end) ==
  {p \in Window(end) :
     /\ \/ text[p] = "newline"
        \/ text[p] = "stop" /\ p + 1 \in Window(end) /\ text[p + 1] = "space"
     /\ 2 * (p - 1 - start) > chunkSize}

(* The window ends at its last break if it has one and is not the last.    *)
EndsAt(end) ==
  LET full == start + chunkSize
      breaks == IF full < Len(text) THEN Breaks(full) ELSE {}
  IN  IF breaks = {} THEN end = full
      ELSE end \in breaks /\ \A p \in breaks : p <= end

Trimmed(end) ==
  {p \in Window(end) : \E first, last \in Window(end) :
     first <= p /\ p <= last /\ ~Blank(first) /\ ~Blank(last)}

Push(chunk) == chunks' = IF chunk = {} THEN chunks ELSE Append(chunks, chunk)

(* Mutant: the next window begins where this one ends.                     *)
NextChunkAbutting ==
  /\ More
  /\ \E end \in 1..(start + chunkSize) :
       /\ EndsAt(end)
       /\ Push(Trimmed(end))
       /\ start' = end
  /\ UNCHANGED <<text, chunkSize, overlap>>

(* Mutant: an empty chunk is skipped with continue, before start moves.    *)
NextChunkContinuing ==
  /\ More
  /\ \E end \in 1..(start + chunkSize) :
       /\ EndsAt(end)
       /\ Push(Trimmed(end))
       /\ start' = IF Trimmed(end) = {} THEN start ELSE end - overlap
  /\ UNCHANGED <<text, chunkSize, overlap>>

NextChunk ==
  /\ More
  /\ \E end \in 1..(start + chunkSize) :
       /\ EndsAt(end)
       /\ Push(Trimmed(end))
       /\ start' = end - overlap
  /\ UNCHANGED <<text, chunkSize, overlap>>

Done == ~More /\ UNCHANGED vars

Next == NextChunk \/ Done

(* The loop is synchronous: nothing but its own condition stops it.        *)
Spec == Init /\ [][Next]_vars /\ WF_vars(NextChunk)

-----------------------------------------------------------------------------
(* Properties.                                                             *)

(* Where the last window ended.                                            *)
Passed == IF start = 0 THEN 0 ELSE start + overlap

(* The loop stays inside its types: start never falls below zero, no chunk *)
(* is empty and each is a piece of the text.                               *)
TypeOK ==
  /\ text \in Seq(Char)
  /\ chunkSize \in Nat \ {0}
  /\ overlap \in 0..(chunkSize \div 2)
  /\ start \in Nat
  /\ chunks \in Seq(SUBSET (1..Len(text)))
  /\ \A i \in DOMAIN chunks : chunks[i] # {}

(* "A sentence split across two chunks is still represented in both": a    *)
(* passage no longer than the overlap, and so also every single character, *)
(* is whole in some chunk once the windows have passed it, whatever the    *)
(* breaks cut and the trimming drops.                                      *)
PassagesWhole ==
  \A p, q \in 1..Len(text) :
    /\ p <= q /\ q - p <= overlap /\ q <= Passed
    /\ ~Blank(p) /\ ~Blank(q)
    => \E i \in DOMAIN chunks : p..q \subseteq chunks[i]

(* Every turn moves start on, though it steps back by the overlap from a   *)
(* window that a break may have halved.                                    *)
Advances == [][start' > start]_vars

(* A window that reaches the end of the text is followed by at most one    *)
(* more, which repeats its tail: an overlap above half a chunk would       *)
(* repeat it several times.                                                *)
OneTail == [][start > 0 /\ start + overlap >= Len(text) => start' >= Len(text)]_vars

(* The loop ends, also for a text whose windows are all blank or all cut.  *)
Terminates == <>(~More)
=============================================================================
