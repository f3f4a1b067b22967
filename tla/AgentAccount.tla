----------------------------- MODULE AgentAccount -----------------------------
(***************************************************************************)
(* sdk/src: a headless account that needs neither indexer nor relayer.  It *)
(* scans the chain itself (sync.ts) into a SQLite file (store.ts), builds  *)
(* its proofs from the leaves it finds there (intents.ts), broadcasts with *)
(* its own key and writes down at once what it expects of the transaction  *)
(* (account.ts).                                                           *)
(*                                                                         *)
(* Nothing keeps a scan and a command apart: they run in one process       *)
(* between awaits or in two processes over one file.  A scan is a process  *)
(* that reads a range of blocks and then upserts one note after the other; *)
(* a command is a process that selects, proves, broadcasts and records.    *)
(* The chain has no reorganisations and its tree one epoch, as sync.ts     *)
(* assumes.                                                                *)
(***************************************************************************)
EXTENDS Integers, Sequences, FiniteSets

CONSTANTS
  Passes,      \* scans that may overlap
  Calls,       \* what other actors do, of AllCalls
  Mishaps,     \* what may go wrong, of "abort", "kill", "drop"
  MaxMishaps,  \* bound: things that go wrong
  MaxNotes,    \* bound: notes of this account
  MaxBlocks    \* bound: blocks, one transaction each

AllCalls == {"executeShield", "cancelShield", "contestShield",
             "receive", "foreign"}

ASSUME AgentAssumption ==
  /\ Calls \subseteq AllCalls
  /\ Mishaps \subseteq {"abort", "kill", "drop"}
  /\ {MaxMishaps, MaxNotes, MaxBlocks} \subseteq Nat

VARIABLES
  logs, head,  \* the chain: its logs in order, its height
  pending,     \* transactions of this account, broadcast and not mined
  lost,        \* history: notes whose transaction will never be mined
  minted,      \* notes made for this account so far
  notes,       \* table notes: commitment -> [state, leaf]
  leaves,      \* table leaves: leaf index -> commitment
  cursor,      \* table sync_cursors
  pass,        \* what each scan is doing
  command,     \* what the command is doing
  mishaps

chain == <<logs, head, pending, lost, minted>>
store == <<notes, leaves, cursor>>
vars == <<chain, store, pass, command, mishaps>>

Foreign == 0      \* the commitment of somebody else's note
Own == 1 .. MaxNotes
None == -1        \* NULL
Idle == [pc |-> "idle"]

-----------------------------------------------------------------------------
(* The chain *)

Of(event) == {logs[i] : i \in {j \in DOMAIN logs : logs[j].event = event}}

Log(event, note) ==
  [event |-> event, note |-> note, block |-> head + 1, leaf |-> None]

\* The k-th leaf of a transaction.
Leaf(note, k) ==
  [event |-> "LeafInserted", note |-> note, block |-> head + 1,
   leaf |-> Cardinality(Of("LeafInserted")) + k]

Notes(event) == {l.note : l \in Of(event)}
Landed == Notes("LeafInserted") \ {Foreign}
Burnt == Notes("NullifierUsed") \ {Foreign}
Waiting ==
  Notes("ShieldQueued")
    \ (Landed \cup Notes("ShieldCancelled") \cup Notes("ShieldContested"))

\* MaxBlocks is a bound.
Mine(emitted) ==
  /\ head < MaxBlocks
  /\ head' = head + 1
  /\ logs' = logs \o emitted
  /\ UNCHANGED <<lost, store, pass, command, mishaps>>

MineShield ==
  \E tx \in pending :
    /\ tx.call = "shield"
    /\ pending' = pending \ {tx}
    /\ Mine(<<Log("ShieldQueued", tx.note)>>)
    /\ UNCHANGED minted

\* The recipient's output (none if the spend is an unshield), then what is left
\* for this account, if anything.
MineSpend ==
  \E tx \in pending, paid \in {<< >>, <<Leaf(Foreign, 0)>>} :
    /\ tx.call = "spend" /\ tx.note \notin Burnt
    /\ pending' = pending \ {tx}
    /\ Mine(<<Log("NullifierUsed", tx.note)>> \o paid
              \o IF tx.change = None THEN << >>
                 ELSE <<Leaf(tx.change, Len(paid)), Log("NotePayload", tx.change)>>)
    /\ UNCHANGED minted

Refunds ==
  [cancelShield |-> "ShieldCancelled", contestShield |-> "ShieldContested"]

\* What other actors do: resolve a shield, pay this account, pay each other or
\* have shields of theirs executed.
MineOther ==
  \/ \E note \in Waiting :
       \/ /\ "executeShield" \in Calls
          /\ Mine(<<Leaf(note, 0), Log("ShieldExecuted", note)>>)
       \/ \E call \in Calls \cap DOMAIN Refunds : Mine(<<Log(Refunds[call], note)>>)
     /\ UNCHANGED <<pending, minted>>
  \/ /\ "receive" \in Calls /\ minted < MaxNotes
     /\ minted' = minted + 1
     /\ Mine(<<Leaf(minted + 1, 0), Log("NotePayload", minted + 1)>>)
     /\ UNCHANGED pending
  \/ /\ "foreign" \in Calls
     /\ \E burnt \in {<< >>, <<Log("NullifierUsed", Foreign)>>} :
          Mine(burnt \o <<Leaf(Foreign, 0)>>)
     /\ UNCHANGED <<pending, minted>>

\* Of two transactions that burn one note the second reverts.
Revert ==
  \E tx \in pending :
    /\ tx.call = "spend" /\ tx.note \in Burnt
    /\ pending' = pending \ {tx}
    /\ lost' = lost \cup {tx.change}
    /\ UNCHANGED <<logs, head, minted, store, pass, command, mishaps>>

\* MaxMishaps is a bound.
Mishap(what) ==
  /\ what \in Mishaps /\ mishaps < MaxMishaps
  /\ mishaps' = mishaps + 1

\* A transaction never gets mined: underpriced or replaced.
Drop ==
  /\ Mishap("drop")
  /\ \E tx \in pending :
       /\ pending' = pending \ {tx}
       /\ lost' = lost \cup {tx.note, tx.change}
  /\ UNCHANGED <<logs, head, minted, store, pass, command>>

-----------------------------------------------------------------------------
(* The store *)

Put(f, k, v) == [x \in DOMAIN f \cup {k} |-> IF x = k THEN v ELSE f[x]]

\* An existing row's columns are overwritten, NULLs included.
UpsertNote(note, state, leaf) ==
  notes' = Put(notes, note, [state |-> state, leaf |-> leaf])

\* patchNote, as both users of it call it.
Patched(table, note) == [table EXCEPT ![note].state = "spent"]

\* INSERT OR IGNORE: the leaf that is there already stays.
InsertLeaves(found) ==
  leaves' = [i \in DOMAIN leaves \cup {l.leaf : l \in found} |->
               IF i \in DOMAIN leaves THEN leaves[i]
               ELSE (CHOOSE l \in found : l.leaf = i).note]

-----------------------------------------------------------------------------
(* A scan: syncDeployment *)

At(p, pc) == pass[p].pc = pc
Goto(p, state) == pass' = [pass EXCEPT ![p] = state]

Begin(p) ==
  /\ At(p, "idle")
  /\ Goto(p, [pc |-> "begun", from |-> cursor + 1])
  /\ UNCHANGED <<chain, store, command, mishaps>>

InRange(event, from, to) == {l \in Of(event) : l.block \in from .. to}

\* The head (the scan may be capped below it), the windows of logs, and the
\* leaves in them.  What has to be decrypted is still to do.
Gather(p) ==
  /\ At(p, "begun")
  /\ \/ /\ pass[p].from > head
        /\ Goto(p, Idle)
        /\ UNCHANGED leaves
     \/ \E to \in pass[p].from .. head :
          LET found(event) == InRange(event, pass[p].from, to) IN
          /\ InsertLeaves(found("LeafInserted"))
          /\ Goto(p, [pc |-> "handling", from |-> pass[p].from, to |-> to,
                      todo |-> found("ShieldQueued") \cup found("NotePayload")])
  /\ UNCHANGED <<chain, notes, cursor, command, mishaps>>

Found(p, event) == InRange(event, pass[p].from, pass[p].to)
Has(p, event, note) == \E l \in Found(p, event) : l.note = note

\* Mutant of LeafIndex: the position among the leaves of the range.
RangeIndex(p, note) ==
  IF Has(p, "LeafInserted", note)
  THEN Cardinality({l \in Found(p, "LeafInserted") :
         \E m \in Found(p, "LeafInserted") : m.note = note /\ l.leaf < m.leaf})
  ELSE None

LeafIndex(p, note) ==
  IF Has(p, "LeafInserted", note)
  THEN (CHOOSE l \in Found(p, "LeafInserted") : l.note = note).leaf
  ELSE None

\* What the range of this scan says of a shield that was queued in it.
ShieldState(p, note) ==
  CASE Has(p, "ShieldCancelled", note) -> "cancelled"
    [] Has(p, "ShieldContested", note) -> "contested"
    [] Has(p, "LeafInserted", note) -> "spendable"
    [] OTHER -> "queued"

\* Shields come before payloads, each in the order of the chain.
Before(l, m) ==
  IF l.event = m.event THEN l.block <= m.block ELSE l.event = "ShieldQueued"

\* The next blob is decrypted and the note upserted.
Handle(p) ==
  /\ At(p, "handling")
  /\ \E l \in pass[p].todo :
       /\ \A m \in pass[p].todo : Before(l, m)
       /\ UpsertNote(l.note,
            IF l.event = "ShieldQueued" THEN ShieldState(p, l.note)
            ELSE "spendable",
            LeafIndex(p, l.note))
       /\ Goto(p, [pass[p] EXCEPT !.todo = @ \ {l}])
  /\ UNCHANGED <<chain, leaves, cursor, command, mishaps>>

\* The rows a scan recomputes the nullifier of.  "=== undefined" does not skip
\* those without a leaf: SQLite's NULL is read as null.
MaySpend(note) == notes[note].state # "spent"
Leafless == {n \in DOMAIN notes : MaySpend(n) /\ notes[n].leaf = None}
Seen(p) == {n \in DOMAIN notes \ Leafless : MaySpend(n) /\ Has(p, "NullifierUsed", n)}

Mark(seen) ==
  notes' = [n \in DOMAIN notes |-> IF n \in seen THEN Patched(notes, n)[n] ELSE notes[n]]

\* Mutants of ScannedTo: the cursor stays where it was, or goes to the head of now.
Unmoved(p) == pass[p].from - 1
HeadByNow(p) == head

ScannedTo(p) == pass[p].to

\* The notes whose nullifiers are in the range are spent, and the cursor moves.
\* With a nullifier of anybody in the range and a row without a leaf, BigInt(null)
\* throws when the loop, in the order of the commitments, comes to that row.
Finish(p) ==
  /\ At(p, "handling") /\ pass[p].todo = {}
  /\ \/ /\ Found(p, "NullifierUsed") = {} \/ Leafless = {}
        /\ Mark(Seen(p))
        /\ cursor' = ScannedTo(p)
     \/ /\ Found(p, "NullifierUsed") # {} /\ Leafless # {}
        /\ \E seen \in SUBSET Seen(p) : Mark(seen)
        /\ UNCHANGED cursor
  /\ Goto(p, Idle)
  /\ UNCHANGED <<chain, leaves, command, mishaps>>

\* An RPC throws or the process ends: what is written stays.
Abort(p) ==
  /\ ~At(p, "idle")
  /\ Mishap("abort")
  /\ Goto(p, Idle)
  /\ UNCHANGED <<chain, store, command>>

-----------------------------------------------------------------------------
(* A command: shield, transfer, unshield *)

Do(state) == command' = state

Broadcast(tx) == pending' = pending \cup {tx}

\* What is built for the contract: a new note to oneself, which reads nothing
\* from the store, and the spend of one note with what is left of it.
ShieldIntent(note) == [call |-> "shield", note |-> note, change |-> None]
SpendIntent(note, change) == [call |-> "spend", note |-> note, change |-> change]

\* An amount below the note's leaves a change; MaxNotes is a bound.
Changes == {None} \cup {n \in Own : n = minted + 1}

Shield ==
  /\ command = Idle /\ minted < MaxNotes
  /\ minted' = minted + 1
  /\ Broadcast(ShieldIntent(minted + 1))
  /\ Do([pc |-> "shielded", note |-> minted + 1])
  /\ UNCHANGED <<logs, head, lost, store, pass, mishaps>>

RecordShield ==
  /\ command.pc = "shielded"
  /\ UpsertNote(command.note, "queued", None)
  /\ Do(Idle)
  /\ UNCHANGED <<chain, leaves, cursor, pass, mishaps>>

\* A row that the coin selection may take.  Its "leafIndex !== undefined" holds
\* of every row: a NULL is null.
Selectable(note) == notes[note].state = "spendable"

\* The proof is built over the leaves of now; that takes seconds.
Select ==
  /\ command = Idle
  /\ \E note \in DOMAIN notes :
       /\ Selectable(note)
       /\ Do([pc |-> "proving", note |-> note, leaf |-> notes[note].leaf])
  /\ UNCHANGED <<chain, store, pass, mishaps>>

\* A note without a leaf: the Merkle proof or the nullifier of null throws.
ProvingFails ==
  /\ command.pc = "proving" /\ command.leaf = None
  /\ Do(Idle)
  /\ UNCHANGED <<chain, store, pass, mishaps>>

\* The node simulates before it takes the transaction: a burnt note throws and
\* nothing is recorded.
SendSpend ==
  /\ command.pc = "proving" /\ command.leaf # None
  /\ \/ /\ command.note \in Burnt
        /\ Do(Idle)
        /\ UNCHANGED <<pending, minted>>
     \/ /\ command.note \notin Burnt
        /\ \E change \in Changes :
             /\ Broadcast(SpendIntent(command.note, change))
             /\ minted' = IF change = None THEN minted ELSE change
             /\ Do([pc |-> "sent", note |-> command.note, change |-> change])
  /\ UNCHANGED <<logs, head, lost, store, pass, mishaps>>

\* #recordChange: of the new note's leaf, "the next sync backfills it".
WithChange(table, change) ==
  IF change = None THEN table
  ELSE Put(table, change, [state |-> "spendable", leaf |-> None])

RecordSpend ==
  /\ command.pc = "sent"
  /\ notes' = WithChange(Patched(notes, command.note), command.change)
  /\ Do(Idle)
  /\ UNCHANGED <<chain, leaves, cursor, pass, mishaps>>

\* The process is killed, or the node's answer is lost, before the record.
Kill ==
  /\ command # Idle
  /\ Mishap("kill")
  /\ Do(Idle)
  /\ UNCHANGED <<chain, store, pass>>

-----------------------------------------------------------------------------
Init ==
  /\ logs = << >> /\ head = 0
  /\ pending = {} /\ lost = {} /\ minted = 0
  /\ notes = << >> /\ leaves = << >> /\ cursor = 0
  /\ pass = [p \in Passes |-> Idle]
  /\ command = Idle
  /\ mishaps = 0

Scan(p) == Begin(p) \/ Gather(p) \/ Handle(p) \/ Finish(p)

Next ==
  \/ MineShield \/ MineSpend \/ MineOther \/ Revert \/ Drop
  \/ \E p \in Passes : Scan(p) \/ Abort(p)
  \/ Shield \/ RecordShield \/ Select \/ ProvingFails \/ SendSpend \/ RecordSpend \/ Kill

Spec == Init /\ [][Next]_vars

\* One command or scan after the other, as somebody at the command line would.
OneAtATime == command = Idle \/ \A p \in Passes : At(p, "idle")
SerialSpec == Init /\ [][Next /\ OneAtATime']_vars

\* The agent goes on syncing, and a scan that starts ends unless it is aborted.
FairSpec == Spec /\ \A p \in Passes : WF_vars(Scan(p))

-----------------------------------------------------------------------------
(* Properties *)

ChainLeaves == [i \in {l.leaf : l \in Of("LeafInserted")} |->
                  (CHOOSE l \in Of("LeafInserted") : l.leaf = i).note]

\* However scans and commands interleave, die or start again, the table of
\* leaves is a prefix of the contract's tree, so that its root is one the
\* contract knows, and a note a command proves lies there at the index its row
\* had when it was selected.  (A note without one is selected too, and fails.)
SpendableProves ==
  /\ \A i \in DOMAIN leaves :
       /\ \A j \in 0 .. i : j \in DOMAIN leaves
       /\ leaves[i] = ChainLeaves[i]
  /\ command.pc = "proving" /\ command.leaf # None =>
       /\ command.leaf \in DOMAIN leaves
       /\ leaves[command.leaf] = command.note

Quiet ==
  /\ \A p \in Passes : At(p, "idle")
  /\ command = Idle /\ pending = {} /\ cursor = head

Stands(note, state) == note \in DOMAIN notes /\ notes[note].state = state

\* Once everything has come to rest and the chain is read to its head, the
\* private balance is the notes that landed and were not burnt.  Three kinds
\* of note stay wrong: a shield still shown as queued, a note whose spend was
\* dropped, and the change of a spend that was not mined.
QuietBalance ==
  Quiet =>
    \A note \in Own \ lost :
      \/ note \in Landed /\ Stands(note, "queued")
      \/ Stands(note, "spendable") <=> note \in Landed \ Burnt

\* A note that the chain says is burnt leaves the balance for good, whether its
\* spend was recorded, killed before the record, or undone by a scan that was
\* repeated; provided that in the end no row is left without its leaf.  While one
\* is, every scan that meets a nullifier throws and is repeated from where it was.
BurntLeavesBalance ==
  <>[](Leafless = {}) =>
    \A note \in Own : note \in Burnt ~> []~Stands(note, "spendable")

\* "note is queued during the shield wait - run `pampalo sync` after it
\* unlocks": a shield that landed in blocks the scans have read is not shown as
\* queued once they and the command are at rest.
LandedIsShown ==
  \A note \in Landed : Quiet => ~Stands(note, "queued")
=============================================================================
