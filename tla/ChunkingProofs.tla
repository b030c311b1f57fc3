--------------------------- MODULE ChunkingProofs ---------------------------
(***************************************************************************)
(* Chunking for every text and every combination of options.  TypeOK       *)
(* bounds the overlap by half a chunk, and a window is longer than that,   *)
(* cut or not: everything else follows from the two.                       *)
(***************************************************************************)
EXTENDS Chunking, TLAPS

(* A window begins after start, ends by start + chunkSize, and is longer   *)
(* than the overlap; one that is not the last ends inside the text.        *)
LEMMA WindowLength ==
  ASSUME TypeOK, More, NEW end \in 1..(start + chunkSize), EndsAt(end)
  PROVE  /\ end \in Nat
         /\ end - overlap > start
         /\ end < Len(text) \/ end = start + chunkSize
  <1>1. /\ start \in Nat /\ chunkSize \in Nat \ {0} /\ overlap \in Nat
        /\ 2 * overlap <= chunkSize
        /\ Len(text) \in Nat
    BY DEF TypeOK
  <1>2. CASE end = start + chunkSize
    BY <1>1, <1>2
  <1>3. CASE end # start + chunkSize
    <2>1. start + chunkSize < Len(text) /\ end \in Breaks(start + chunkSize)
      BY <1>3 DEF EndsAt
    <2>2. 2 * (end - 1 - start) > chunkSize
      BY <2>1 DEF Breaks
    <2>3. QED
      BY <1>1, <2>1, <2>2
  <1>4. QED
    BY <1>2, <1>3

(* Pushing keeps the earlier chunks where they are and adds this one,      *)
(* unless it is empty.                                                     *)
LEMMA PushKeeps ==
  ASSUME TypeOK, NEW chunk \in SUBSET (1..Len(text)), Push(chunk)
  PROVE  /\ chunks' \in Seq(SUBSET (1..Len(text)))
         /\ \A i \in DOMAIN chunks' : chunks'[i] # {}
         /\ \A i \in DOMAIN chunks : i \in DOMAIN chunks' /\ chunks'[i] = chunks[i]
         /\ chunk # {} => \E i \in DOMAIN chunks' : chunks'[i] = chunk
  <1> DEFINE S == SUBSET (1..Len(text))
  <1> HIDE DEF S
  <1>1. chunks \in Seq(S) /\ chunk \in S /\ \A i \in DOMAIN chunks : chunks[i] # {}
    BY DEF TypeOK, S
  <1>2. CASE chunk = {}
    BY <1>1, <1>2 DEF Push, S
  <1>3. CASE chunk # {}
    <2>1. chunks' = Append(chunks, chunk)
      BY <1>3, Zenon DEF Push
    <2>2. /\ chunks' \in Seq(S)
          /\ DOMAIN chunks' = DOMAIN chunks \cup {Len(chunks) + 1}
          /\ \A i \in DOMAIN chunks : chunks'[i] = chunks[i]
          /\ chunks'[Len(chunks) + 1] = chunk
      BY <1>1, <2>1
    <2>3. QED
      BY <1>1, <1>3, <2>2 DEF S
  <1>4. QED
    BY <1>2, <1>3

-----------------------------------------------------------------------------
(* Types.                                                                  *)

LEMMA LimitedRange ==
  ASSUME NEW o \in Nat, NEW size \in Nat \ {0}
  PROVE  Limited(o, size) \in 0..(size \div 2)
  BY DEF Limited

LEMMA InitTypes == Init => TypeOK
  <1> SUFFICES ASSUME Init PROVE TypeOK
    OBVIOUS
  <1>1. text \in Seq(Char) /\ chunkSize \in Nat \ {0}
    BY TextsAssumption, OptionsAssumption DEF Init
  <1>2. overlap \in 0..(chunkSize \div 2)
    BY <1>1, LimitedRange, OptionsAssumption DEF Init
  <1>3. QED
    BY <1>1, <1>2 DEF Init, TypeOK

LEMMA NextChunkTypes ==
  ASSUME TypeOK, NextChunk
  PROVE  TypeOK'
  <1>1. PICK end \in 1..(start + chunkSize) :
          EndsAt(end) /\ Push(Trimmed(end)) /\ start' = end - overlap
    BY DEF NextChunk
  <1>2. More /\ text' = text /\ chunkSize' = chunkSize /\ overlap' = overlap
    BY DEF NextChunk
  <1>3. start' \in Nat
    BY <1>1, <1>2, WindowLength DEF TypeOK
  <1>4. Trimmed(end) \in SUBSET (1..Len(text))
    BY DEF Trimmed, Window
  <1>5. chunks' \in Seq(SUBSET (1..Len(text))) /\ \A i \in DOMAIN chunks' : chunks'[i] # {}
    BY <1>1, <1>4, PushKeeps
  <1>6. QED
    BY <1>2, <1>3, <1>5 DEF TypeOK

LEMMA NextTypes == TypeOK /\ [Next]_vars => TypeOK'
  <1> SUFFICES ASSUME TypeOK, [Next]_vars PROVE TypeOK'
    OBVIOUS
  <1>1. CASE NextChunk
    BY <1>1, NextChunkTypes
  <1>2. CASE UNCHANGED vars
    BY <1>2 DEF vars, TypeOK
  <1>3. QED
    BY <1>1, <1>2 DEF Next, Done

(* The types hold for every text: start never falls below zero.            *)
THEOREM TypeCorrect == Spec => []TypeOK
  <1>1. QED
    BY InitTypes, NextTypes, PTL DEF Spec

-----------------------------------------------------------------------------
(* Progress.                                                               *)

LEMMA NextChunkAdvances ==
  ASSUME TypeOK, NextChunk
  PROVE  /\ start' > start
         /\ start > 0 /\ start + overlap >= Len(text) => start' >= Len(text)
  <1>1. PICK end \in 1..(start + chunkSize) : EndsAt(end) /\ start' = end - overlap
    BY DEF NextChunk
  <1>2. /\ end \in Nat /\ end - overlap > start
        /\ end < Len(text) \/ end = start + chunkSize
    BY <1>1, WindowLength DEF NextChunk
  <1>3. /\ start \in Nat /\ chunkSize \in Nat \ {0} /\ overlap \in Nat
        /\ 2 * overlap <= chunkSize /\ Len(text) \in Nat
    BY DEF TypeOK
  <1>4. ASSUME start + overlap >= Len(text)
        PROVE  start' >= Len(text)
    <2>1. end = start + chunkSize
      BY <1>2, <1>3, <1>4
    <2>2. QED
      BY <1>1, <1>3, <1>4, <2>1
  <1>5. QED
    BY <1>1, <1>2, <1>4

(* The loop moves on at every turn: however small the chunk, whatever      *)
(* overlap is asked for and wherever a break cuts the window.              *)
THEOREM AlwaysAdvances == Spec => Advances
  <1>1. TypeOK /\ [Next]_vars => [start' > start]_vars
    BY NextChunkAdvances DEF Next, Done
  <1>2. QED
    BY TypeCorrect, <1>1, PTL DEF Spec, Advances

(* At most one chunk repeats the tail of the text.                         *)
THEOREM OneTailAlways == Spec => OneTail
  <1>1. TypeOK /\ [Next]_vars
          => [start > 0 /\ start + overlap >= Len(text) => start' >= Len(text)]_vars
    BY NextChunkAdvances DEF Next, Done
  <1>2. QED
    BY TypeCorrect, <1>1, PTL DEF Spec, OneTail

-----------------------------------------------------------------------------
(* Coverage.                                                               *)

(* A passage that ends in the window, and that the windows before it did   *)
(* not pass, begins in the window too: they overlap by overlap characters. *)
LEMMA NextChunkPassages ==
  ASSUME TypeOK, PassagesWhole, NextChunk
  PROVE  PassagesWhole'
  <1>1. PICK end \in 1..(start + chunkSize) :
          EndsAt(end) /\ Push(Trimmed(end)) /\ start' = end - overlap
    BY DEF NextChunk
  <1>2. More /\ text' = text /\ overlap' = overlap
    BY DEF NextChunk
  <1>3. end \in Nat /\ start' > 0 /\ Passed' = end
    BY <1>1, <1>2, WindowLength DEF TypeOK, Passed
  <1>4. /\ \A i \in DOMAIN chunks : i \in DOMAIN chunks' /\ chunks'[i] = chunks[i]
        /\ Trimmed(end) # {} => \E i \in DOMAIN chunks' : chunks'[i] = Trimmed(end)
    <2>1. Trimmed(end) \in SUBSET (1..Len(text))
      BY DEF Trimmed, Window
    <2>2. QED
      BY <1>1, <2>1, PushKeeps
  <1>5. SUFFICES ASSUME NEW p \in 1..Len(text), NEW q \in 1..Len(text),
                        p <= q, q - p <= overlap, q <= end, ~Blank(p), ~Blank(q)
                 PROVE  \E i \in DOMAIN chunks' : p..q \subseteq chunks'[i]
    BY <1>2, <1>3 DEF PassagesWhole, Blank
  <1>6. CASE q <= Passed
    <2>1. PICK i \in DOMAIN chunks : p..q \subseteq chunks[i]
      BY <1>5, <1>6 DEF PassagesWhole
    <2>2. QED
      BY <1>4, <2>1
  <1>7. CASE ~(q <= Passed)
    <2>1. start < p
      BY <1>5, <1>7 DEF TypeOK, Passed
    <2>2. \A r \in p..q : r \in 1..Len(text) /\ start < r /\ r <= end /\ p <= r /\ r <= q
      BY <1>3, <1>5, <2>1 DEF TypeOK
    <2>3. p..q \subseteq Window(end) /\ p \in p..q /\ q \in p..q
      BY <1>5, <2>2 DEF Window
    <2>4. p..q \subseteq Trimmed(end)
      BY <1>5, <2>2, <2>3 DEF Trimmed
    <2>5. Trimmed(end) # {}
      BY <2>3, <2>4
    <2>6. QED
      BY <1>4, <2>4, <2>5
  <1>8. QED
    BY <1>6, <1>7

(* No passage up to the length of the overlap is lost or torn, in any text.*)
THEOREM PassagesAlwaysWhole == Spec => []PassagesWhole
  <1>1. Init => PassagesWhole
    BY DEF Init, PassagesWhole, Passed
  <1>2. TypeOK /\ PassagesWhole /\ [Next]_vars => PassagesWhole'
    <2> SUFFICES ASSUME TypeOK, PassagesWhole, [Next]_vars PROVE PassagesWhole'
      OBVIOUS
    <2>1. CASE NextChunk
      BY <2>1, NextChunkPassages
    <2>2. CASE UNCHANGED vars
      BY <2>2 DEF vars, PassagesWhole, Passed, Blank
    <2>3. QED
      BY <2>1, <2>2 DEF Next, Done
  <1>3. QED
    BY TypeCorrect, <1>1, <1>2, PTL DEF Spec
=============================================================================
