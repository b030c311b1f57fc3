-------------------------- MODULE VersionCatalogue --------------------------
(***************************************************************************)
(* What readers of a workflow may rely on: the catalogue of its versions,  *)
(* with nothing said of transactions, statements, locks or lost races.     *)
(* Versions are appended under the next number.  Publishing is one step    *)
(* that publishes its version, makes the workflow ACTIVE, and never brings *)
(* back what was not published; it withdraws every other version unless it *)
(* is raced by another.  Nothing else changes what is there.               *)
(***************************************************************************)
EXTENDS Naturals

CONSTANT MaxVersion   \* bound: version numbers

VARIABLES
  numbers,     \* the versions there are
  published,   \* those of them that are published
  active,      \* is the workflow ACTIVE?
  raced        \* do several publishes overlap?  not for the catalogue to say

vars == <<numbers, published, active, raced>>

Catalogue ==
  /\ \E n \in 0..MaxVersion : numbers = 1..n
  /\ published \subseteq numbers
  /\ active => published # {}

(* A workflow may be looked at from any moment on.                         *)
Init == Catalogue /\ raced \in BOOLEAN

Append ==
  \E n \in 1..MaxVersion :
    /\ numbers = 1..(n - 1)
    /\ numbers' = 1..n
    /\ UNCHANGED <<published, active>>

Publish(v) ==
  /\ v \in published'
  /\ published' \subseteq published \cup {v}
  /\ raced \/ published' = {v}
  /\ active' = TRUE
  /\ UNCHANGED numbers

Next ==
  /\ raced' \in BOOLEAN
  /\ \/ Append
     \/ \E v \in numbers : Publish(v)
     \/ UNCHANGED <<numbers, published, active>>

Spec == Init /\ [][Next]_vars
=============================================================================
