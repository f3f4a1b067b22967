---------------------------- MODULE ShieldIndexer ----------------------------
(***************************************************************************)
(* convex/shieldQueue/refresh.ts and store.ts: the indexer that copies the *)
(* contract's events of one deployment into the database the wallets read. *)
(*                                                                         *)
(* A pass (cron tick, shadow tick 30 seconds later, or the "Refresh"       *)
(* button) reads the deployment row and its cursor, then the head of the   *)
(* chain, then window after window of logs, and writes the rows of each    *)
(* log.  Every await in between is a point where other passes run: only    *)
(* a single mutation is atomic.  Nothing keeps passes from overlapping.    *)
(***************************************************************************)
EXTENDS Integers, Sequences, FiniteSets, FiniteSetsExt, Functions

CONSTANTS
  Passes,             \* index passes that may overlap
  Assets,
  Calls,              \* the contract calls the chain makes, of AllCalls
  ConfirmationDepth,
  ColdStartTrail,     \* COLD_START_TRAIL
  MaxBlocksPerCall,   \* MAX_BLOCKS_PER_CALL
  Mishaps,            \* what may go wrong, of "abort", "fail", "reorg"
  MaxMishaps,         \* bound: things that go wrong
  MaxBlocks           \* bound: transactions ever mined

AllCalls == {"shield", "executeShield", "cancelShield", "contestShield",
             "transfer", "unshield", "privateSwap",
             "addSupportedAsset", "disableSupportedAsset"}

ASSUME IndexerAssumption ==
  /\ Calls \subseteq AllCalls
  /\ {ConfirmationDepth, ColdStartTrail, MaxMishaps, MaxBlocks} \subseteq Nat
  /\ MaxBlocksPerCall \in Nat \ {0}
  /\ Mishaps \subseteq {"abort", "fail", "reorg"}

VARIABLES
  logs, head,      \* the chain: its logs in order, its height
  cursor,          \* lastIndexedBlock of the deployment row
  entries,         \* shieldQueueEntries: pending id -> row
  alerts,          \* the deposit alerts sent, in order
  leafRows, payloadRows, nullifierRows,  \* keys of the rows of those tables
  activity,        \* pampaloActivity: tx -> whether it has a payload preview
  assets,          \* pampaloAssets: asset -> enabled (the oracle is data)
  pass,            \* what each pass is doing
  mishaps,         \* how many things went wrong
  mined, peak,     \* history: transactions mined, the greatest height
  floor, failed    \* history: the last block skipped by a cold start, logs
                   \* whose handling threw

chain == <<logs, head, mined, peak>>
queueRows == <<entries, alerts>>
spendRows == <<leafRows, payloadRows, nullifierRows, activity>>
rows == <<queueRows, spendRows, assets>>
history == <<mishaps, floor, failed>>
vars == <<chain, cursor, rows, pass, history>>

-----------------------------------------------------------------------------
(* The chain *)

Resolution ==
  [ShieldExecuted |-> "executed", ShieldCancelled |-> "cancelled",
   ShieldContested |-> "contested"]

Log(event, key, call) ==
  [event |-> event, key |-> key, call |-> call, tx |-> mined + 1,
   block |-> head + 1]

Of(event) == {logs[i] : i \in {j \in DOMAIN logs : logs[j].event = event}}
Resolutions == UNION {Of(event) : event \in DOMAIN Resolution}
LiveIds == {l.key : l \in Of("ShieldQueued")} \ {l.key : l \in Resolutions}

\* One transaction a block, and what it emits, in the order of the contract.
\* MaxBlocks is a bound.
Mine(call, emitted) ==
  /\ call \in Calls /\ mined < MaxBlocks
  /\ logs' = logs \o emitted
  /\ head' = head + 1
  /\ mined' = mined + 1
  /\ peak' = Max({peak, head + 1})
  /\ UNCHANGED <<cursor, rows, pass, history>>

Leaf == Cardinality(Of("LeafInserted"))

MineShield ==
  Mine("shield",
       <<Log("ShieldQueued", Cardinality(Of("ShieldQueued")), "shield")>>)

\* The contract calls that emit one log, and which.
Emits ==
  [cancelShield |-> "ShieldCancelled", contestShield |-> "ShieldContested",
   addSupportedAsset |-> "AssetSupported", disableSupportedAsset |-> "AssetDisabled"]

MineResolution ==
  \E id \in LiveIds :
    \/ Mine("executeShield", <<Log("LeafInserted", Leaf, "executeShield"),
                               Log("ShieldExecuted", id, "executeShield")>>)
    \/ \E call \in {"cancelShield", "contestShield"} :
         Mine(call, <<Log(Emits[call], id, call)>>)

\* A nullifier and a payload are keyed by their transaction.
MineSpend ==
  \/ Mine("unshield", <<Log("NullifierUsed", mined + 1, "unshield")>>)
  \/ \E call \in {"transfer", "privateSwap"} :
       Mine(call, <<Log("NullifierUsed", mined + 1, call),
                    Log("LeafInserted", Leaf, call),
                    Log("NotePayload", mined + 1, call)>>)

MineAsset ==
  \E a \in Assets, call \in {"addSupportedAsset", "disableSupportedAsset"} :
    Mine(call, <<Log(Emits[call], a, call)>>)

\* MaxMishaps is a bound.
Mishap(what) ==
  /\ what \in Mishaps /\ mishaps < MaxMishaps
  /\ mishaps' = mishaps + 1

\* The last block is replaced; never one that ConfirmationDepth others confirmed.
Reorg ==
  /\ Mishap("reorg")
  /\ head + ConfirmationDepth > peak /\ head > 0
  /\ head' = head - 1
  /\ \E n \in 0 .. Len(logs) :
        /\ \A i \in DOMAIN logs : i <= n <=> logs[i].block < head
        /\ logs' = SubSeq(logs, 1, n)
  /\ UNCHANGED <<cursor, rows, pass, mined, peak, floor, failed>>

-----------------------------------------------------------------------------
(* The writes: one mutation each *)

Put(f, k, v) == [x \in DOMAIN f \cup {k} |-> IF x = k THEN v ELSE f[x]]

\* Mutant of IsNew: every replay inserts and alerts again.
AlwaysNew(id) == TRUE

IsNew(id) == id \notin DOMAIN entries

\* An alert is sent for a new row, unless its unlock time has passed.
UpsertShieldQueueEntry(log) ==
  IF IsNew(log.key)
  THEN /\ entries' = Put(entries, log.key,
                         [queuedTx |-> log.tx, state |-> "queued"])
       /\ alerts' \in {alerts, Append(alerts, log.key)}
  ELSE UNCHANGED queueRows

\* A resolution that finds no row, or a resolved one, does nothing.
ResolveShieldQueueEntry(log) ==
  /\ entries' =
       [id \in DOMAIN entries |->
          IF id = log.key /\ entries[id].state = "queued"
          THEN [entries[id] EXCEPT !.state = Resolution[log.event]]
          ELSE entries[id]]
  /\ UNCHANGED alerts

\* Both paths of one transaction call it: the first creates the row, a later
\* one fills in the payload preview.
UpsertActivity(log) ==
  LET had == log.tx \in DOMAIN activity /\ activity[log.tx]
  IN  activity' = Put(activity, log.tx, had \/ log.event = "NotePayload")

\* The last writer wins.
UpsertAsset(log) == assets' = Put(assets, log.key, log.event = "AssetSupported")

\* classifySelector: swaps stay out of the activity feed.
InFeed(log) == log.call \in {"transfer", "unshield"}

\* The mutations that handling a log makes, in order.
Writes(log) ==
  CASE log.event = "NullifierUsed" ->
         IF InFeed(log) THEN <<"activity", "nullifier">> ELSE <<"nullifier">>
    [] log.event = "NotePayload" ->
         IF InFeed(log) THEN <<"payload", "activity">> ELSE <<"payload">>
    [] log.event = "LeafInserted" -> <<"leaf">>
    [] log.event = "ShieldQueued" -> <<"queue">>
    [] log.event \in DOMAIN Resolution -> <<"resolve">>
    [] OTHER -> <<"asset">>

Perform(write, log) ==
  \/ /\ write = "queue"
     /\ UpsertShieldQueueEntry(log)
     /\ UNCHANGED <<spendRows, assets>>
  \/ /\ write = "resolve"
     /\ ResolveShieldQueueEntry(log)
     /\ UNCHANGED <<spendRows, assets>>
  \/ /\ write = "leaf"
     /\ leafRows' = leafRows \cup {log.key}
     /\ UNCHANGED <<queueRows, payloadRows, nullifierRows, activity, assets>>
  \/ /\ write = "payload"
     /\ payloadRows' = payloadRows \cup {log.key}
     /\ UNCHANGED <<queueRows, leafRows, nullifierRows, activity, assets>>
  \/ /\ write = "nullifier"
     /\ nullifierRows' = nullifierRows \cup {log.key}
     /\ UNCHANGED <<queueRows, leafRows, payloadRows, activity, assets>>
  \/ /\ write = "activity"
     /\ UpsertActivity(log)
     /\ UNCHANGED <<queueRows, leafRows, payloadRows, nullifierRows, assets>>
  \/ /\ write = "asset"
     /\ UpsertAsset(log)
     /\ UNCHANGED <<queueRows, spendRows>>

-----------------------------------------------------------------------------
(* A pass *)

Idle == [pc |-> "idle"]

Init ==
  /\ logs = << >> /\ head = 0 /\ mined = 0 /\ peak = 0
  /\ cursor = 0
  /\ entries = << >> /\ alerts = << >>
  /\ leafRows = {} /\ payloadRows = {} /\ nullifierRows = {}
  /\ activity = << >> /\ assets = << >>
  /\ pass = [p \in Passes |-> Idle]
  /\ mishaps = 0 /\ floor = 0 /\ failed = {}

At(p, pc) == pass[p].pc = pc
Goto(p, state) == pass' = [pass EXCEPT ![p] = state]

\* _enabledDeployments: the cursor is read, and kept, before the head is.
Begin(p) ==
  /\ At(p, "idle")
  /\ Goto(p, [pc |-> "begun", from |-> cursor])
  /\ UNCHANGED <<chain, cursor, rows, history>>

\* Mutant of TrailingHead: the newest blocks are read unconfirmed.
Unconfirmed(h) == h

TrailingHead(h) == IF h > ConfirmationDepth THEN h - ConfirmationDepth ELSE 0

\* Mutant of FirstBlock: a young chain is taken for a cold start too.
AlwaysCold(lastIndexed, top) ==
  IF lastIndexed = 0 THEN top - ColdStartTrail ELSE lastIndexed + 1

\* The block a pass starts from; a cold start skips what lies far behind.
FirstBlock(lastIndexed, top) ==
  IF lastIndexed = 0 /\ top > ColdStartTrail THEN top - ColdStartTrail
  ELSE lastIndexed + 1

ReadHead(p) ==
  LET top  == TrailingHead(head)
      from == FirstBlock(pass[p].from, top)
  IN
  /\ At(p, "begun")
  /\ Goto(p, IF from > top THEN Idle
             ELSE [pc |-> "walking", from |-> from, top |-> top])
  /\ floor' = IF pass[p].from = 0 THEN Max({floor, from - 1}) ELSE floor
  /\ UNCHANGED <<chain, cursor, rows, mishaps, failed>>

\* Mutant of LastBlock: the width of a window is off by one.
OneBlockShort(from, top) == Min({top, from + MaxBlocksPerCall - 2})

LastBlock(from, top) == Min({top, from + MaxBlocksPerCall - 1})

\* eth_getLogs of one window: a snapshot, handled in the order of the chain.
GetLogs(p) ==
  LET from == pass[p].from
      to   == LastBlock(from, pass[p].top)
      found == {i \in DOMAIN logs : logs[i].block \in from .. to}
  IN
  /\ At(p, "walking")
  /\ Goto(p, [pc |-> "handling", to |-> to, top |-> pass[p].top,
              todo |-> [i \in found |-> logs[i]], written |-> 0])
  /\ UNCHANGED <<chain, cursor, rows, history>>

NextLog(p) == Min(DOMAIN pass[p].todo)

Without(todo, i) == Restrict(todo, DOMAIN todo \ {i})

\* The next mutation of the log at hand.
Ingest(p) ==
  /\ At(p, "handling") /\ DOMAIN pass[p].todo # {}
  /\ LET log  == pass[p].todo[NextLog(p)]
         step == pass[p].written + 1
     IN  /\ Perform(Writes(log)[step], log)
         /\ Goto(p, IF step < Len(Writes(log))
                    THEN [pass[p] EXCEPT !.written = step]
                    ELSE [pass[p] EXCEPT !.written = 0,
                                         !.todo = Without(@, NextLog(p))])
  /\ UNCHANGED <<chain, cursor, history>>

\* An RPC for the transaction, or a mutation, throws: the loop goes on with the
\* next log, whatever this one had written.
FailLog(p) ==
  /\ At(p, "handling") /\ DOMAIN pass[p].todo # {}
  /\ Mishap("fail")
  /\ failed' = failed \cup {pass[p].todo[NextLog(p)]}
  /\ Goto(p, [pass[p] EXCEPT !.written = 0, !.todo = Without(@, NextLog(p))])
  /\ UNCHANGED <<chain, cursor, rows, floor>>

\* Mutant of Covered: the first window is taken for the whole range.
WholeRange(p) == pass[p].top

\* The block up to which the cursor may claim to have read.
Covered(p) == pass[p].to

\* _advanceCursor, forward only, then the next window.
AdvanceCursor(p) ==
  LET to == pass[p].to IN
  /\ At(p, "handling") /\ DOMAIN pass[p].todo = {}
  /\ cursor' = Max({cursor, Covered(p)})
  /\ Goto(p, IF to + 1 > pass[p].top THEN Idle
             ELSE [pc |-> "walking", from |-> to + 1, top |-> pass[p].top])
  /\ UNCHANGED <<chain, rows, history>>

\* The head or the logs cannot be read, or the action dies: the rows written so
\* far stay, the cursor does not move.
Abort(p) ==
  /\ ~At(p, "idle")
  /\ Mishap("abort")
  /\ Goto(p, Idle)
  /\ UNCHANGED <<chain, cursor, rows, floor, failed>>

Step(p) == ReadHead(p) \/ GetLogs(p) \/ Ingest(p) \/ AdvanceCursor(p)

Next ==
  \/ MineShield \/ MineResolution \/ MineSpend \/ MineAsset
  \/ Reorg
  \/ \E p \in Passes : Begin(p) \/ Step(p) \/ FailLog(p) \/ Abort(p)

Spec == Init /\ [][Next]_vars

\* The cron starts passes for ever and a pass that is not aborted goes on.
FairSpec == Spec /\ \A p \in Passes : WF_vars(Begin(p)) /\ WF_vars(Step(p))

-----------------------------------------------------------------------------
(* Properties *)

Events == DOMAIN Resolution \cup
  {"ShieldQueued", "NullifierUsed", "LeafInserted", "NotePayload",
   "AssetSupported", "AssetDisabled"}

LogType ==
  [event : Events, key : Nat \cup Assets, call : AllCalls, tx : Nat, block : Nat]

QueueRow == [queuedTx : Nat, state : {"queued"} \cup Range(Resolution)]

PassType(state) ==
  \/ state = Idle
  \/ state \in [pc : {"begun"}, from : Nat]
  \/ state \in [pc : {"walking"}, from : Nat, top : Nat]
  \/ /\ DOMAIN state = {"pc", "to", "top", "todo", "written"}
     /\ state.pc = "handling"
     /\ {state.to, state.top, state.written} \subseteq Nat
     /\ DOMAIN state.todo \subseteq Nat
     /\ Range(state.todo) \subseteq LogType

TypeOK ==
  /\ logs \in Seq(LogType)
  /\ {head, mined, peak, cursor, mishaps, floor} \subseteq Nat
  /\ Range(entries) \subseteq QueueRow /\ DOMAIN entries \subseteq Nat
  /\ alerts \in Seq(Nat)
  /\ leafRows \cup payloadRows \cup nullifierRows \cup DOMAIN activity \subseteq Nat
  /\ Range(activity) \subseteq BOOLEAN
  /\ DOMAIN assets \subseteq Assets /\ Range(assets) \subseteq BOOLEAN
  /\ \A p \in Passes : PassType(pass[p])
  /\ failed \subseteq LogType

\* The rows say what the log says.
Reflected(log) ==
  CASE log.event = "ShieldQueued" -> log.key \in DOMAIN entries
    [] log.event \in DOMAIN Resolution ->
         log.key \in DOMAIN entries
           /\ entries[log.key].state = Resolution[log.event]
    [] log.event = "LeafInserted" -> log.key \in leafRows
    [] log.event = "NullifierUsed" ->
         log.key \in nullifierRows /\ (InFeed(log) => log.tx \in DOMAIN activity)
    [] log.event = "NotePayload" ->
         log.key \in payloadRows
           /\ (InFeed(log) => log.tx \in DOMAIN activity /\ activity[log.tx])
    [] OTHER -> log.key \in DOMAIN assets

Logs == {logs[i] : i \in DOMAIN logs}

\* A resolution whose queue log was skipped, or lies before the cold start.
Orphaned(log) ==
  /\ log.event \in DOMAIN Resolution
  /\ \E q \in Of("ShieldQueued") :
        q.key = log.key /\ (q \in failed \/ q.block <= floor)

\* The log is in the tables, or nobody promised that it would be.
Settled(log) ==
  Reflected(log) \/ log \in failed \/ Orphaned(log) \/ log.block <= floor

\* Whatever passes overlap, die or are replayed, the cursor moves past a log
\* only when its rows are written; what is missing behind it is a log whose
\* handling threw, or the resolution of such a shield, and nothing else.
LossIsContained == \A l \in Logs : l.block <= cursor => Settled(l)

\* No row stems from a block that a reorganisation took away: everything in the
\* tables is on the chain, and a resolved row was resolved that way there.
RowsOnChain ==
  /\ \A id \in DOMAIN entries :
       /\ \E l \in Of("ShieldQueued") : l.key = id /\ l.tx = entries[id].queuedTx
       /\ entries[id].state # "queued" =>
            \E l \in Resolutions :
               l.key = id /\ Resolution[l.event] = entries[id].state
  /\ leafRows \subseteq {l.key : l \in Of("LeafInserted")}
  /\ payloadRows \subseteq {l.key : l \in Of("NotePayload")}
  /\ nullifierRows \cup DOMAIN activity \subseteq {l.tx : l \in Of("NullifierUsed")}

\* "This insert branch runs exactly once per (deployment, pendingId)": replays
\* and overlapping passes never alert an operator twice of one deposit.
AlertedOnce == IsInjective(alerts)

\* No log stays confirmed and out of the tables for ever, unless handling it
\* throws, however many passes overlap or die on the way.
ConfirmedIsIndexed ==
  \A tx \in 1 .. MaxBlocks :
    []<>(\A l \in Logs :
           l.tx = tx /\ l.block <= TrailingHead(head) => Settled(l))
=============================================================================
