--------------------------- MODULE ShieldLifecycle ---------------------------
(***************************************************************************)
(* What the shield queue promises: a queued note is either landed, once,   *)
(* or refunded, never both, and no other way leads a queued note into the  *)
(* tree.                                                                   *)
(***************************************************************************)
EXTENDS Naturals

VARIABLES
  stage,   \* id -> "queued", "landed" or "refunded", for the ids given out
  noteOf,  \* id -> the note queued under it
  tree     \* the notes in the tree

vars == <<stage, noteOf, tree>>

Queued == {noteOf[id] : id \in DOMAIN noteOf}

Init == stage = << >> /\ noteOf = << >> /\ tree = {}

\* A shield gives out the next id, for a note never seen before.
Queue(id, n) ==
  /\ DOMAIN stage = 0 .. id - 1
  /\ n \notin tree \cup Queued
  /\ stage' = [i \in 0 .. id |-> IF i = id THEN "queued" ELSE stage[i]]
  /\ noteOf' = [i \in 0 .. id |-> IF i = id THEN n ELSE noteOf[i]]
  /\ UNCHANGED tree

Land(id) ==
  /\ stage[id] = "queued"
  /\ noteOf[id] \notin tree
  /\ stage' = [stage EXCEPT ![id] = "landed"]
  /\ tree' = tree \cup {noteOf[id]}
  /\ UNCHANGED noteOf

Refund(id) ==
  /\ stage[id] = "queued"
  /\ noteOf[id] \notin tree
  /\ stage' = [stage EXCEPT ![id] = "refunded"]
  /\ UNCHANGED <<noteOf, tree>>

\* A private transfer adds new notes, none of them ever queued.
Spend ==
  /\ tree \subseteq tree'
  /\ (tree' \ tree) \cap Queued = {}
  /\ UNCHANGED <<stage, noteOf>>

Next ==
  \/ \E id \in DOMAIN noteOf' : Queue(id, noteOf'[id])
  \/ \E id \in DOMAIN stage : Land(id) \/ Refund(id)
  \/ Spend

Spec == Init /\ [][Next]_vars
=============================================================================
