-------------------------- MODULE PampaloLifecycle --------------------------
(***************************************************************************)
(* Pampalo implements ShieldLifecycle, and the inductive invariant that    *)
(* shows it: secrets are fresh, so commitments never collide.              *)
(***************************************************************************)
EXTENDS Pampalo

NoteOf(id) == queuedAs[id].note

StageOf(id) ==
  IF id \notin DOMAIN pendingShields THEN "landed"
  ELSE IF pendingShields[id].cancelled THEN "refunded" ELSE "queued"

stages == [id \in Ids |-> StageOf(id)]
notes == [id \in Ids |-> NoteOf(id)]

Lifecycle == INSTANCE ShieldLifecycle WITH
  stage <- stages, noteOf <- notes, tree <- Landed

\* Every entry of the queue is landed once or refunded, never both, and neither
\* a spend nor a re-sent spend brings a queued note into the tree.  One step of
\* any actor is one step of that life, or none.
ImplementsLifecycle == Lifecycle!Spec

-----------------------------------------------------------------------------
(* The inductive invariant *)

\* The note an id was queued with is the one that will land.
EntriesFaithful ==
  \A id \in DOMAIN pendingShields :
     pendingShields[id].leafCommitment = NoteOf(id)

\* Every secret handed out is below the counter, and queued notes differ.
QueuedFresh ==
  /\ \A id \in Ids : NoteOf(id).secret < nextSecret
  /\ \A id, jd \in Ids : NoteOf(id) = NoteOf(jd) => id = jd

LeavesFresh == \A n \in Landed : n.secret < nextSecret

\* The outputs of a proved spend are new notes: no queued note, no output of
\* another spend, no two alike.
OutputsFresh ==
  \A p \in proved :
     /\ \A n \in Range(p.outs) : n.secret < nextSecret
     /\ \A n \in Range(p.outs), id \in Ids : n # NoteOf(id)
     /\ IsInjective(p.outs)
     /\ \A q \in proved : Range(p.outs) \cap Range(q.outs) # {} => p = q

\* A spend has inputs, they have landed, and its outputs are not in the tree
\* while its inputs are all unspent.
SpendsPending ==
  \A p \in proved :
     /\ p.ins # {} /\ p.ins \subseteq Landed
     /\ p.ins \cap nullifierUsed = {} => Range(p.outs) \cap Landed = {}

Inv ==
  /\ TypeOK
  /\ EntriesFaithful
  /\ QueuedFresh
  /\ LeavesFresh
  /\ OutputsFresh
  /\ SpendsPending
  /\ EscrowOrNote
  /\ LandedOnce
=============================================================================
