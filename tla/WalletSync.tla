------------------------------ MODULE WalletSync ------------------------------
(***************************************************************************)
(* src/lib/idb-notes.ts, sync-shield-notes.ts and use-shield-queue-sync.ts: *)
(* the notes one wallet keeps on one device, and everything that writes    *)
(* them: the sync that runs at sign-in and behind every signature, the     *)
(* watcher of the user's own shield rows, and the optimistic writes of the *)
(* shield, cancel and spend sheets.                                        *)
(*                                                                         *)
(* A write of the store computes the whole next list from the list in      *)
(* memory, awaits IndexedDB, and only then replaces the list: two jobs     *)
(* that write at once overwrite one another.                               *)
(***************************************************************************)
EXTENDS Integers, Sequences, FiniteSets, FiniteSetsExt, Functions

CONSTANTS
  Own,          \* notes this wallet's address shields
  Received,     \* notes that reach the wallet as outputs of a spend
  Casts,        \* bound: which of the notes come about in one behaviour
  Mishaps,      \* what may go wrong, of AllMishaps
  MaxMishaps,   \* bound: things that go wrong
  MaxUnsettled  \* bound: transactions of this device in flight or failed

AllMishaps == {"reload", "overlap", "wipe", "delist", "drop", "tie"}

ASSUME WalletAssumption ==
  /\ Own \cap Received = {} /\ IsFiniteSet(Own)
  /\ Casts \subseteq SUBSET (Own \cup Received)
  /\ Mishaps \subseteq AllMishaps /\ {MaxMishaps, MaxUnsettled} \subseteq Nat

Notes == Own \cup Received

VARIABLES
  cast,                         \* the notes of this behaviour
  chain,                        \* what the contract says of each note
  pending,                      \* transactions of this device that are not mined
  failed,                       \* history: those that reverted or were dropped
  indexed,                      \* how many of each note's logs the indexer wrote
  queuedAt,                     \* shieldQueueEntries: time of insertion
  store,                        \* the notes of the device: note -> record
  cursor,                       \* shieldQueueLastQueuedAt
  job,                          \* what each job is doing
  mishaps,                      \* how many things went wrong
  clobbered, skipped, tied      \* history: notes whose record an overlapping
                                \* write undid, whose row a sync passed while
                                \* the deployment was not listed, whose row is
                                \* not newer than one that was there

ledger == <<cast, chain, pending, failed>>
world == <<ledger, indexed, queuedAt, tied>>
history == <<mishaps, clobbered, skipped>>
vars == <<world, store, cursor, job, history>>

RowStates == {"queued", "executed", "cancelled", "contested"}
NoteStates == {"queued", "spendable", "spent", "cancelled", "contested"}
StoredNote == [state : NoteStates, leafIndex : BOOLEAN]

Jobs == {"sync", "watch", "user"}
NoWrite == [note |-> "none"]
Idle == [pc |-> "idle", todo |-> << >>, max |-> 0, write |-> NoWrite]

Put(f, k, v) == [x \in DOMAIN f \cup {k} |-> IF x = k THEN v ELSE f[x]]
Without(f, k) == Restrict(f, DOMAIN f \ {k})

Init ==
  /\ cast \in Casts
  /\ chain = [n \in Notes |-> "none"] /\ pending = {} /\ failed = {}
  /\ indexed = [n \in Notes |-> 0] /\ queuedAt = [n \in Own |-> 0]
  /\ store = << >> /\ cursor = 0
  /\ job = [j \in Jobs |-> Idle]
  /\ mishaps = 0 /\ clobbered = {} /\ skipped = {} /\ tied = {}

-----------------------------------------------------------------------------
(* The world: the contract, other devices and people, the indexer *)

Moves(n, from, to) == chain[n] = from /\ chain' = [chain EXCEPT ![n] = to]

\* Notes that only a transaction of this device can bring about.
Made(roles) == {n \in DOMAIN roles : roles[n] \in {"shield", "change"}}
OursToMake ==
  Made(job["user"].todo) \cup UNION {Made(tx) : tx \in pending \cup failed}

Fresh == {n \in cast : chain[n] = "none"} \ OursToMake

\* Shielding from and spending on another device of the wallet; an incoming
\* transfer; landing; contesting (a cancel on another device is no different).
ChainMoves ==
  /\ \/ \E n \in Own \cap Fresh : Moves(n, "none", "queued")
     \/ \E n \in Own : Moves(n, "queued", "landed") \/ Moves(n, "queued", "contested")
     \/ \E n \in Received \cap Fresh : Moves(n, "none", "landed")
     \/ \E n \in Notes : Moves(n, "landed", "spent")
  /\ UNCHANGED <<cast, pending, failed, indexed, queuedAt, tied, store, cursor, job, history>>

\* A transaction says what becomes of each note it names.
From == [shield |-> "none", cancel |-> "queued", spend |-> "landed", change |-> "none"]
To == [shield |-> "queued", cancel |-> "cancelled", spend |-> "spent", change |-> "landed"]

Mine ==
  /\ \E tx \in pending :
       /\ pending' = pending \ {tx}
       /\ IF \A n \in DOMAIN tx : chain[n] = From[tx[n]]
          THEN /\ chain' = [n \in Notes |->
                    IF n \in DOMAIN tx THEN To[tx[n]] ELSE chain[n]]
               /\ UNCHANGED failed
          ELSE failed' = failed \cup {tx} /\ UNCHANGED chain
  /\ UNCHANGED <<cast, indexed, queuedAt, tied, store, cursor, job, history>>

\* The logs of a note, in the order of the chain.
LogsOf(n) ==
  LET landed == IF n \in Own THEN <<"queued", "leaf", "executed">>
                ELSE <<"leaf", "payload">>
  IN  CASE chain[n] = "none" -> << >>
        [] chain[n] = "landed" -> landed
        [] chain[n] = "spent" -> Append(landed, "nullifier")
        [] chain[n] = "queued" -> <<"queued">>
        [] OTHER -> <<"queued", chain[n]>>

Indexed(n) == {LogsOf(n)[i] : i \in 1 .. indexed[n]}

\* The tables the wallet reads: the state of a row, and which notes have a leaf,
\* a payload and a used nullifier.
row == [n \in Own |->
          IF Indexed(n) = {} THEN "none"
          ELSE IF Indexed(n) \cap RowStates = {"queued"} THEN "queued"
          ELSE CHOOSE s \in Indexed(n) \cap RowStates : s # "queued"]
With(log) == {n \in Notes : log \in Indexed(n)}

\* MaxMishaps is a bound.
Mishap(what) ==
  /\ what \in Mishaps /\ mishaps < MaxMishaps
  /\ mishaps' = mishaps + 1

\* A transaction is never mined, or reverts for a reason of its own.
Drop ==
  /\ Mishap("drop")
  /\ \E tx \in pending : pending' = pending \ {tx} /\ failed' = failed \cup {tx}
  /\ UNCHANGED <<cast, chain, indexed, queuedAt, tied,
                 store, cursor, job, clobbered, skipped>>

\* When a shield this address made for somebody else was indexed: its row is
\* read like the others, and no key of the wallet opens it.
ForOthers == 1

Latest == Max({ForOthers} \cup Range(queuedAt))

\* The indexer writes the next log of a note.  queuedAt is Date.now() of the
\* insertion, which may be that of a row that is there.
Index(n) ==
  /\ indexed[n] < Len(LogsOf(n))
  /\ indexed' = [indexed EXCEPT ![n] = @ + 1]
  /\ IF n \in Own /\ indexed[n] = 0
     THEN \/ /\ queuedAt' = [queuedAt EXCEPT ![n] = Latest + 1]
             /\ UNCHANGED <<mishaps, tied>>
          \/ /\ Mishap("tie")
             /\ queuedAt' = [queuedAt EXCEPT ![n] = Latest]
             /\ tied' = tied \cup {n}
     ELSE UNCHANGED <<queuedAt, mishaps, tied>>
  /\ UNCHANGED <<ledger, store, cursor, job, clobbered, skipped>>

-----------------------------------------------------------------------------
(* The store: appendNote and patchNoteByLeaf *)

Writing(j) == job[j].write # NoWrite
Ready(j, pc) == job[j].pc = pc /\ ~Writing(j)

\* A job starts to write while another one waits for IndexedDB.
Overlaps(j) == \E k \in Jobs \ {j} : Writing(k)

MayWrite(j) ==
  IF Overlaps(j) THEN Mishap("overlap") ELSE UNCHANGED mishaps

\* The next list is made of the list of this moment.
Writes(j, state, n, record) ==
  /\ MayWrite(j)
  /\ job' = [job EXCEPT ![j] =
               [state EXCEPT !.write = [note |-> n, record |-> record, base |-> store]]]
  /\ UNCHANGED store

\* Mutant of AppendNote: an append replaces what the store has.
AlwaysAppend(j, state, n, record) == Writes(j, state, n, record)

\* Idempotent: a note that is known stays as it is.
AppendNote(j, state, n, record) ==
  IF n \in DOMAIN store
  THEN job' = [job EXCEPT ![j] = state] /\ UNCHANGED <<store, mishaps>>
  ELSE Writes(j, state, n, record)

\* A patch of a note that is not known does nothing.
PatchNoteByLeaf(j, state, n, record) ==
  IF n \in DOMAIN store
  THEN Writes(j, state, n, record)
  ELSE job' = [job EXCEPT ![j] = state] /\ UNCHANGED <<store, mishaps>>

\* IndexedDB has the list: it replaces the one in memory.
FinishWrite(j) ==
  LET w == job[j].write IN
  /\ Writing(j)
  /\ store' = Put(w.base, w.note, w.record)
  /\ clobbered' = clobbered \cup
       {n \in DOMAIN store : n \notin DOMAIN w.base \/ w.base[n] # store[n]}
  /\ job' = [job EXCEPT ![j].write = NoWrite]
  /\ UNCHANGED <<world, cursor, mishaps, skipped>>

-----------------------------------------------------------------------------
(* syncShieldNotesWithKeys *)

\* Mutant of ToIdb: the state of the row is kept.
RowState(state) == state

ToIdb(state) == IF state = "executed" THEN "spendable" ELSE state

Sync == job["sync"]

Newer(n) == queuedAt[n] > cursor

\* Rows, deployments and cursor are read together; a row not newer than the
\* cursor is passed over.  The deployment may be among the disabled ones.
SyncStart ==
  LET rows == {n \in Own : row[n] # "none"}
      Reads(pc) == job' = [job EXCEPT !["sync"] =
               [pc |-> pc,
                todo |-> [n \in {m \in rows : Newer(m)} |-> row[n]],
                max |-> Max({cursor, ForOthers} \cup {queuedAt[n] : n \in rows}),
                write |-> NoWrite]]
  IN
  /\ Ready("sync", "idle")
  /\ \/ Reads("rows") /\ UNCHANGED mishaps
     \/ Reads("unlisted") /\ Mishap("delist")
  /\ UNCHANGED <<world, store, cursor, clobbered, skipped>>

\* One row: skipped if the store has it or its deployment is not listed
\* (or no key opens it: not a note of this wallet); appended otherwise, in the
\* state the snapshot had.
SyncRow(n) ==
  LET rest == [Sync EXCEPT !.todo = Without(@, n)] IN
  /\ Sync.pc \in {"rows", "unlisted"} /\ ~Writing("sync") /\ n \in DOMAIN Sync.todo
  /\ IF Sync.pc = "unlisted"
     THEN job' = [job EXCEPT !["sync"] = rest] /\ UNCHANGED <<store, mishaps>>
     ELSE AppendNote("sync", rest, n,
                     [state |-> ToIdb(Sync.todo[n]), leafIndex |-> FALSE])
  /\ skipped' = IF Sync.pc = "unlisted" THEN skipped \cup {n} ELSE skipped
  /\ UNCHANGED <<world, cursor, clobbered>>

\* Mutant of SaveCursor's guard: the cursor is saved before the rows are done.
RowsRead == Sync.pc \in {"rows", "unlisted"}

RowsDone == RowsRead /\ ~Writing("sync") /\ Sync.todo = << >>

\* Mutant of BackfillOf: the position is guessed.
BackfillAll(known) ==
  {n \in DOMAIN known : known[n].state = "spendable" /\ ~known[n].leafIndex}

\* Notes without a position get one, payloads that open are appended, once the
\* leaf is known.
BackfillOf(known) ==
  {n \in DOMAIN known : known[n].state = "spendable" /\ ~known[n].leafIndex}
          \cap With("leaf")

\* The cursor is saved, then payloads and leaves are read.
SaveCursor ==
  /\ RowsDone
  /\ cursor' = Sync.max
  /\ job' = [job EXCEPT !["sync"] =
       IF Sync.pc = "unlisted" THEN Idle
       ELSE [Idle EXCEPT !.pc = "scan",
               !.todo = [n \in BackfillOf(store) \cup With("payload") |-> "leaf"]]]
  /\ UNCHANGED <<world, store, history>>

\* backfillLeafIndices: on every mount of the wallet, without keys.
BackfillLeafIndices ==
  /\ Ready("sync", "idle")
  /\ BackfillOf(store) # {}
  /\ job' = [job EXCEPT !["sync"] =
       [Idle EXCEPT !.pc = "backfill",
          !.todo = [n \in BackfillOf(store) |-> "leaf"]]]
  /\ UNCHANGED <<world, store, cursor, history>>

ScanNote(n) ==
  LET rest == [Sync EXCEPT !.todo = Without(@, n)] IN
  /\ Sync.pc \in {"scan", "backfill"} /\ ~Writing("sync") /\ n \in DOMAIN Sync.todo
  /\ IF n \in DOMAIN store
     THEN IF store[n].leafIndex
          THEN job' = [job EXCEPT !["sync"] = rest] /\ UNCHANGED <<store, mishaps>>
          ELSE PatchNoteByLeaf("sync", rest, n, [store[n] EXCEPT !.leafIndex = TRUE])
     ELSE AppendNote("sync", rest, n, [state |-> "spendable", leafIndex |-> TRUE])
  /\ UNCHANGED <<world, cursor, clobbered, skipped>>

\* Mutant of Reconcilable: nothing tells that a note was spent elsewhere.
NoneReconcilable == {}

\* reconcileSpentNotes: the spendable notes of the store whose nullifier can be
\* computed and is out.
Reconcilable ==
  {n \in DOMAIN store : store[n].state = "spendable" /\ store[n].leafIndex}
    \cap With("nullifier")

ReconcileSpentNotes ==
  /\ Sync.pc \in {"scan", "backfill"} /\ ~Writing("sync") /\ Sync.todo = << >>
  /\ job' = [job EXCEPT !["sync"] =
       IF Sync.pc = "backfill" \/ Reconcilable = {} THEN Idle
       ELSE [Sync EXCEPT !.pc = "spent", !.todo = [n \in Reconcilable |-> "spent"]]]
  /\ UNCHANGED <<world, store, cursor, history>>

MarkSpent(n) ==
  LET rest == Without(Sync.todo, n) IN
  /\ Ready("sync", "spent") /\ n \in DOMAIN Sync.todo
  /\ PatchNoteByLeaf("sync",
       IF rest = << >> THEN Idle ELSE [Sync EXCEPT !.todo = rest],
       n, [store[n] EXCEPT !.state = "spent"])
  /\ UNCHANGED <<world, cursor, clobbered, skipped>>

SyncStep ==
  \/ \E n \in Own : SyncRow(n)
  \/ SaveCursor
  \/ \E n \in Notes : ScanNote(n)
  \/ ReconcileSpentNotes
  \/ \E n \in Notes : MarkSpent(n)

-----------------------------------------------------------------------------
(* useShieldQueueSync *)

AdvancementRank ==
  [queued |-> 0, spendable |-> 1, cancelled |-> 1, contested |-> 1, spent |-> 2]

\* Forward only, no retraction.
Advances(from, to) == AdvancementRank[to] > AdvancementRank[from]

Watch == job["watch"]

\* The reactive query delivers the rows when the wallet is opened, and whenever
\* one changes.
WatchStart ==
  LET rows == {n \in Own : row[n] # "none"}
  IN
  /\ Ready("watch", "idle") /\ rows # {}
  /\ job' = [job EXCEPT !["watch"] =
               [Idle EXCEPT !.pc = "watching", !.todo = [n \in rows |-> row[n]]]]
  /\ UNCHANGED <<world, store, cursor, history>>

\* A row whose note the device does not have is left to the sync.  Where it does
\* not advance the note, unlockTime and queuedTxHash may still be corrected.
WatchRow(n) ==
  LET others == Without(Watch.todo, n)
      rest == IF others = << >> THEN Idle ELSE [Watch EXCEPT !.todo = others]
  IN
  /\ Ready("watch", "watching") /\ n \in DOMAIN Watch.todo
  /\ \/ /\ n \in DOMAIN store /\ Advances(store[n].state, ToIdb(Watch.todo[n]))
        /\ PatchNoteByLeaf("watch", rest, n,
                           [store[n] EXCEPT !.state = ToIdb(Watch.todo[n])])
     \/ /\ n \in DOMAIN store /\ ~Advances(store[n].state, ToIdb(Watch.todo[n]))
        /\ PatchNoteByLeaf("watch", rest, n, store[n])
     \/ /\ n \in DOMAIN store => ~Advances(store[n].state, ToIdb(Watch.todo[n]))
        /\ job' = [job EXCEPT !["watch"] = rest] /\ UNCHANGED <<store, mishaps>>
  /\ UNCHANGED <<world, cursor, clobbered, skipped>>

-----------------------------------------------------------------------------
(* The sheets: check, sign, broadcast, then write what is about to be true *)

User == job["user"]

\* MaxUnsettled is a bound.
Begin(roles) ==
  /\ Ready("user", "idle") /\ Cardinality(pending \cup failed) < MaxUnsettled
  /\ job' = [job EXCEPT !["user"] = [Idle EXCEPT !.pc = "signing", !.todo = roles]]
  /\ UNCHANGED <<world, store, cursor, history>>

\* ShieldConfirmSheet.
UserShield(n) == n \in Fresh /\ Begin([m \in {n} |-> "shield"])

\* CancelShieldSheet: offered for what this device holds to be queued.
UserCancel(n) ==
  /\ n \in DOMAIN store /\ store[n].state = "queued"
  /\ Begin([m \in {n} |-> "cancel"])

\* Send, unshield and swap: spend a positioned note, with or without a change
\* note to oneself.
UserSpend(n, change) ==
  /\ change \subseteq Received \cap Fresh /\ Cardinality(change) <= 1
  /\ n \in DOMAIN store /\ store[n].state = "spendable" /\ store[n].leafIndex
  /\ Begin([m \in {n} \cup change |-> IF m = n THEN "spend" ELSE "change"])

\* The node or the relayer takes the transaction.
UserBroadcast ==
  /\ Ready("user", "signing")
  /\ pending' = pending \cup {User.todo}
  /\ job' = [job EXCEPT !["user"].pc = "recording"]
  /\ UNCHANGED <<cast, chain, failed, indexed, queuedAt, tied, store, cursor, history>>

\* The passkey is refused, the simulation of the relayer fails, the reply is lost.
UserGivesUp ==
  /\ Ready("user", "signing")
  /\ job' = [job EXCEPT !["user"] = Idle]
  /\ \/ UNCHANGED pending
     \/ pending' = pending \cup {User.todo}
  /\ UNCHANGED <<cast, chain, failed, indexed, queuedAt, tied, store, cursor, history>>

\* The optimistic writes, change notes last.
UserRecord(n) ==
  LET role == User.todo[n]
      others == Without(User.todo, n)
      rest == IF others = << >> THEN Idle ELSE [User EXCEPT !.todo = others]
  IN
  /\ Ready("user", "recording") /\ n \in DOMAIN User.todo
  /\ role = "change" => \A m \in DOMAIN User.todo : User.todo[m] = "change"
  /\ CASE role = "shield" ->
            AppendNote("user", rest, n, [state |-> "queued", leafIndex |-> FALSE])
       [] role = "change" ->
            AppendNote("user", rest, n, [state |-> "spendable", leafIndex |-> FALSE])
       [] OTHER ->
            PatchNoteByLeaf("user", rest, n, [store[n] EXCEPT !.state = To[role]])
  /\ UNCHANGED <<world, cursor, clobbered, skipped>>

-----------------------------------------------------------------------------
(* The device *)

\* The page is closed and opened again: what the jobs were doing is lost, and a
\* write in flight is either in the database or not (FinishWrite, or not).
Reload ==
  /\ Mishap("reload") /\ \E j \in Jobs : job[j] # Idle
  /\ job' = [j \in Jobs |-> Idle]
  /\ UNCHANGED <<world, store, cursor, clobbered, skipped>>

\* The browser evicts the database: notes and cursor go together.
Wipe ==
  /\ Mishap("wipe")
  /\ store' = << >> /\ cursor' = 0
  /\ job' = [j \in Jobs |-> Idle]
  /\ UNCHANGED <<world, clobbered, skipped>>

Next ==
  \/ ChainMoves \/ Mine \/ Drop \/ (\E n \in Notes : Index(n))
  \/ SyncStart \/ BackfillLeafIndices \/ SyncStep
  \/ WatchStart \/ (\E n \in Own : WatchRow(n))
  \/ \E n \in Own : UserShield(n) \/ UserCancel(n)
  \/ \E n \in Notes, change \in SUBSET Received : UserSpend(n, change)
  \/ UserBroadcast \/ UserGivesUp \/ (\E n \in Notes : UserRecord(n))
  \/ \E j \in Jobs : FinishWrite(j)
  \/ Reload \/ Wipe

Spec == Init /\ [][Next]_vars

\* The indexer goes on, IndexedDB answers, the wallet is opened (and synced)
\* again and again, and a job that is not interrupted goes on, after the writes
\* of the others if need be.
FairSpec ==
  /\ Spec
  /\ (\A n \in Notes : WF_vars(Index(n)))
  /\ \A j \in Jobs : WF_vars(FinishWrite(j))
  /\ WF_vars(SyncStart) /\ SF_vars(SyncStep)
  /\ WF_vars(WatchStart) /\ \A n \in Own : SF_vars(WatchRow(n))
  /\ \A n \in Notes : SF_vars(UserRecord(n))

-----------------------------------------------------------------------------
(* Properties *)

Roles == DOMAIN From

JobType(j) ==
  /\ j.pc \in {"idle", "rows", "unlisted", "scan", "backfill", "spent",
               "watching", "signing", "recording"}
  /\ DOMAIN j.todo \subseteq Notes
  /\ Range(j.todo) \subseteq RowStates \cup {"leaf", "spent"} \cup Roles
  /\ j.max \in Nat
  /\ \/ j.write = NoWrite
     \/ /\ j.write.note \in Notes /\ j.write.record \in StoredNote
        /\ DOMAIN j.write.base \subseteq Notes
        /\ Range(j.write.base) \subseteq StoredNote

TypeOK ==
  /\ cast \subseteq Notes
  /\ chain \in [Notes -> {"none", "queued", "landed", "cancelled", "contested", "spent"}]
  /\ \A tx \in pending \cup failed : DOMAIN tx \subseteq Notes /\ Range(tx) \subseteq Roles
  /\ indexed \in [Notes -> 0 .. 4]
  /\ queuedAt \in [Own -> Nat]
  /\ DOMAIN store \subseteq Notes /\ Range(store) \subseteq StoredNote
  /\ cursor \in Nat /\ mishaps \in Nat
  /\ DOMAIN job = Jobs /\ \A j \in Jobs : JobType(job[j])
  /\ clobbered \cup skipped \cup tied \subseteq Notes

\* Shields the sync will not look at again (their row is behind the cursor) are
\* on the device, whatever reloads interrupted it.  What is missing was undone
\* by an overlapping write, passed while its deployment was disabled, or queued
\* in the same millisecond as a row that was there.
HydratedBehindCursor ==
  \A n \in Own :
    (row[n] # "none" /\ queuedAt[n] <= cursor)
      => n \in DOMAIN store \cup clobbered \cup skipped \cup tied

\* A transaction of this device plays a role for the note, and has not had its
\* effect: it is in flight, reverted or was dropped.
Unsettled(n, role) == \E tx \in pending \cup failed : n \in DOMAIN tx /\ tx[n] = role

\* The balance counts no note that is not in the tree, but for the change of a
\* spend of this device that is in flight or failed; and a position is only given
\* to a note that has one, so that such a change is not spent.
SpendableHasLanded ==
  \A n \in DOMAIN store :
    /\ store[n].state = "spendable" =>
         chain[n] \in {"landed", "spent"} \/ Unsettled(n, "change")
    /\ store[n].leafIndex => n \in With("leaf")

\* No note goes back, say from spent to spendable, and none disappears, unless
\* an overlapping write or an evicted database undid it, or a cancel that comes
\* too late is written over what the note became while it was signed.
StepsForward ==
  [][\A n \in DOMAIN store :
       \/ n \in DOMAIN store' /\ ~Advances(store'[n].state, store[n].state)
       \/ n \in clobbered'
       \/ /\ Unsettled(n, "cancel") /\ n \in DOMAIN store'
          /\ store'[n] = [store[n] EXCEPT !.state = "cancelled"]
       \/ store' = << >> /\ cursor' = 0]_vars

\* What the device should show of a note once everything has settled.
Truth(n) ==
  CASE chain[n] = "landed" -> "spendable"
    [] OTHER -> chain[n]

Shows(n) ==
  IF chain[n] = "none" THEN n \notin DOMAIN store
  ELSE n \in DOMAIN store /\ store[n].state = Truth(n)

\* The device shows what a transaction of its own would have made of the note,
\* had it not failed (or not stayed in flight for ever).
Misled(n) ==
  /\ n \in DOMAIN store
  /\ \E role \in Roles :
       Unsettled(n, role) /\ store[n].state = IF role = "change" THEN "spendable" ELSE To[role]

\* Whatever is spent, received, landed, cancelled or contested elsewhere, and
\* however often the page is closed or the database evicted: a wallet that is
\* opened again and again ends up showing each of its notes as it is, except
\* the own shields HydratedBehindCursor excepts and notes that show the intended
\* outcome of a transaction of this device that failed: that is never corrected.
WalletConverges ==
  <>[](\A n \in Notes :
         Shows(n) \/ Misled(n) \/ n \in Own \cap (clobbered \cup skipped \cup tied))
=============================================================================
