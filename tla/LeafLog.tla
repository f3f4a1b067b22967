------------------------------- MODULE LeafLog -------------------------------
(***************************************************************************)
(* What the note tree promises its users: an append-only log of leaves in  *)
(* which the root of every prefix, once produced, is accepted for ever.    *)
(***************************************************************************)
EXTENDS Naturals, Sequences

CONSTANT Leaves

VARIABLES
  log,    \* the leaves in insertion order
  roots   \* lengths of the prefixes whose root is accepted

Init == log = << >> /\ roots = {0}

Insert(leaf) ==
  /\ log' = Append(log, leaf)
  /\ roots' = roots \cup {Len(log')}

Spec == Init /\ [][\E leaf \in Leaves : Insert(leaf)]_<<log, roots>>
=============================================================================
