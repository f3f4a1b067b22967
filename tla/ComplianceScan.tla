---------------------------- MODULE ComplianceScan ----------------------------
(***************************************************************************)
(* convex/compliance: the blocklist and the scan that contests shields of   *)
(* the addresses on it before their wait is over.                           *)
(*                                                                         *)
(* The unit of time is one period of the scan's cron.  Nothing makes a scan, *)
(* the mining of what it sent or the shield indexer keep within a period:   *)
(* each shield counts the periods it lost that way.                        *)
(***************************************************************************)
EXTENDS Integers, Sequences, FiniteSets, TLC

CONSTANTS
  Addresses,
  Batch,        \* queued rows a scan takes (200)
  Waits,        \* periods between a shield and its landing, as the contract is set
  Window,       \* oracle events in one eth_getLogs window
  Passes,       \* index passes over the oracle: the cron and runs on demand
  MaxMishaps,   \* bound: scans and passes that die
  MaxShields,   \* bound: shields
  MaxEvents,    \* bound: shields, events of the oracle, edits and mishaps together
  MaxAge        \* bound: periods a shield is queued

ASSUME ComplianceAssumption ==
  /\ {Batch, Window, MaxMishaps, MaxShields, MaxEvents, MaxAge} \subseteq Nat
  /\ Window > 0 /\ Waits \subseteq Nat

VARIABLES
  oracle,       \* the confirmed events of the sanctions oracle
  blocked,      \* blockedAddresses: <<address, source>>
  cursor,       \* complianceCursors: the last event whose window is done
  pass,         \* the window each index pass is working on
  shields,      \* every shield, in the order it was queued
  scan,         \* what scanAndContest has left to do
  scanned,      \* a scan began in this period
  sent,         \* contests a node accepted and no block has
  edits, mishaps,
  overtaken,    \* history: addresses whose row two passes raced for, or that
                \* were changed by hand
  unflagged,    \* history: shields whose shielder was on no list at some moment
  leftOut       \* history: shields the scans of this period did not take in, or lost

blocklist == <<oracle, blocked, cursor, pass, overtaken>>
screening == <<shields, scan, scanned, sent, leftOut>>
bounds == <<edits, mishaps>>
vars == <<blocklist, screening, unflagged, bounds>>

Event == [added : BOOLEAN, address : Addresses]
NoPass == [at |-> 0, to |-> 0, head |-> 0]
NoScan == [pc |-> "idle", todo |-> {}]

Init ==
  /\ oracle = << >> /\ blocked = {} /\ cursor = 0
  /\ pass = [p \in Passes |-> NoPass]
  /\ shields = << >> /\ scan = NoScan /\ scanned = FALSE /\ sent = {}
  /\ edits = 0 /\ mishaps = 0
  /\ overtaken = {} /\ unflagged = {} /\ leftOut = {}

Smaller(a, b) == IF a < b THEN a ELSE b

\* MaxEvents is a bound.
Room == Len(shields) + Len(oracle) + edits + mishaps < MaxEvents

\* MaxMishaps is a bound.
Mishap == Room /\ mishaps < MaxMishaps /\ mishaps' = mishaps + 1

-----------------------------------------------------------------------------
(* The blocklist *)

\* _blockedFor
Flagged(a) == \E row \in blocked : row[1] = a

\* Shields whose shielder is on no list from now on may land.
NoteUnflagged ==
  unflagged' = unflagged \cup
    {i \in DOMAIN shields' : ~\E row \in blocked' : row[1] = shields'[i].shielder}

OracleEvent ==
  /\ Room
  /\ \E e \in Event : oracle' = Append(oracle, e)
  /\ UNCHANGED <<blocked, cursor, pass, overtaken, screening, unflagged, bounds>>

\* addBlockedAddress, a published list, or removeBlockedAddress, which clears
\* the rows of every source.
EditBlocklist ==
  /\ Room /\ edits' = edits + 1
  /\ \E a \in Addresses :
       \/ /\ blocked' = blocked \cup {<<a, "manual">>}
          /\ UNCHANGED overtaken
       \/ /\ Flagged(a)
          /\ blocked' = {row \in blocked : row[1] # a}
          /\ overtaken' = overtaken \cup {a}
  /\ UNCHANGED <<oracle, cursor, pass, screening, mishaps>>
  /\ NoteUnflagged

\* Mutant of WindowEnd: the last window is not cut at the head.
FullWindow(from, head) == from + Window - 1

WindowEnd(from, head) == Smaller(from + Window - 1, head)

\* indexChainalysisOracle reads the head and the cursor.
BeginPass(p) ==
  /\ pass[p] = NoPass /\ cursor < Len(oracle)
  /\ pass' = [pass EXCEPT ![p] =
       [at |-> cursor + 1, to |-> WindowEnd(cursor + 1, Len(oracle)),
        head |-> Len(oracle)]]
  /\ UNCHANGED <<oracle, blocked, cursor, overtaken, screening, unflagged, bounds>>

\* _upsertBlocked or _removeBlockedExact: one mutation per address of a log.
IngestEvent(p) ==
  LET i == pass[p].at
      row == <<oracle[i].address, "chainalysis">>
  IN
  /\ pass[p] # NoPass /\ i <= pass[p].to
  /\ blocked' = IF oracle[i].added THEN blocked \cup {row} ELSE blocked \ {row}
  /\ overtaken' = IF cursor >= i \/ \E q \in Passes \ {p} : pass[q].at > i
                  THEN overtaken \cup {oracle[i].address} ELSE overtaken
  /\ pass' = [pass EXCEPT ![p].at = i + 1]
  /\ UNCHANGED <<oracle, cursor, screening, bounds>>
  /\ NoteUnflagged

\* Mutant of WindowDone: the cursor is saved first.
WindowRead(p) == pass[p] # NoPass

WindowDone(p) == pass[p] # NoPass /\ pass[p].at > pass[p].to

\* _setCursor never rolls back; then the next window.
SetCursor(p) ==
  LET to == pass[p].to
      head == pass[p].head
  IN
  /\ WindowDone(p)
  /\ cursor' = IF to > cursor THEN to ELSE cursor
  /\ pass' = [pass EXCEPT ![p] =
       IF to = head THEN NoPass
       ELSE [at |-> to + 1, to |-> WindowEnd(to + 1, head), head |-> head]]
  /\ UNCHANGED <<oracle, blocked, overtaken, screening, unflagged, bounds>>

PassDies(p) ==
  /\ pass[p] # NoPass /\ Mishap
  /\ pass' = [pass EXCEPT ![p] = NoPass]
  /\ UNCHANGED <<oracle, blocked, cursor, overtaken, screening, unflagged, edits>>

Blocklist ==
  \/ OracleEvent \/ EditBlocklist
  \/ \E p \in Passes : BeginPass(p) \/ IngestEvent(p) \/ SetCursor(p) \/ PassDies(p)

-----------------------------------------------------------------------------
(* The queue, on chain and in shieldQueueEntries *)

NewShield(a, wait, live, row) ==
  [shielder |-> a, wait |-> wait, live |-> live, chain |-> "queued", row |-> row,
   age |-> 0, missed |-> 0]

\* A depositor who was fast-tracked does not wait.  The row of a deployment that
\* is disabled stays as the indexer left it.
QueueShield ==
  /\ Room /\ Len(shields) < MaxShields
  /\ \E a \in Addresses :
       \/ \E wait \in {0} \cup Waits :
            shields' = Append(shields, NewShield(a, wait, TRUE, "none"))
       \/ shields' = Append(shields, NewShield(a, 0, FALSE, "queued"))
  /\ UNCHANGED <<blocklist, scan, scanned, sent, leftOut, bounds>>
  /\ NoteUnflagged

Queued(i) == shields[i].live /\ shields[i].chain = "queued"

Resolve(i, to) ==
  /\ Queued(i)
  /\ shields' = [shields EXCEPT ![i].chain = to]
  /\ UNCHANGED <<blocklist, scan, scanned, leftOut, unflagged, bounds>>

ExecuteShield(i) ==
  /\ shields[i].age >= shields[i].wait
  /\ Resolve(i, "executed") /\ UNCHANGED sent

\* A booth operator waives the wait.
ExecuteShieldImmediate(i) ==
  /\ Queued(i)
  /\ shields' = [shields EXCEPT ![i].chain = "executed", ![i].wait = 0]
  /\ UNCHANGED <<blocklist, scan, scanned, sent, leftOut, unflagged, bounds>>

CancelShield(i) == Resolve(i, "cancelled") /\ UNCHANGED sent

\* A contest sets the same flag as a cancellation; one that comes too late reverts.
MineContest(i) ==
  /\ i \in sent
  /\ sent' = sent \ {i}
  /\ IF shields[i].chain = "queued" THEN Resolve(i, "cancelled")
     ELSE UNCHANGED <<blocklist, shields, scan, scanned, leftOut, unflagged, bounds>>

\* The indexer writes what the chain says.
IndexRow(i) ==
  /\ shields[i].live /\ shields[i].row # shields[i].chain
  /\ shields' = [shields EXCEPT ![i].row = shields[i].chain]
  /\ UNCHANGED <<blocklist, scan, scanned, sent, leftOut, unflagged, bounds>>

Queue ==
  \/ QueueShield
  \/ \E i \in DOMAIN shields :
       \/ ExecuteShield(i) \/ ExecuteShieldImmediate(i) \/ CancelShield(i)
       \/ MineContest(i) \/ IndexRow(i)

-----------------------------------------------------------------------------
(* scanAndContest *)

\* Since an earlier period.
Waiting(i) == Queued(i) /\ shields[i].age > 0

QueuedRows == {i \in DOMAIN shields : shields[i].row = "queued"}

\* _queuedToScreen takes the first rows, and of those the ones of live deployments.
InBatch(i) == Cardinality({j \in QueuedRows : j < i}) < Batch
QueuedToScreen == {i \in QueuedRows : InBatch(i) /\ shields[i].live}

BeginScan ==
  /\ scan = NoScan /\ ~scanned
  /\ scanned' = TRUE
  /\ scan' = IF QueuedToScreen = {} THEN NoScan
             ELSE [pc |-> "screen", todo |-> QueuedToScreen]
  /\ leftOut' = leftOut \cup {i \in DOMAIN shields \ QueuedToScreen : Waiting(i)}
  /\ UNCHANGED <<blocklist, shields, sent, unflagged, bounds>>

\* The row the scan is at, and what is left after it.
AtHand(i) == i \in scan.todo /\ \A j \in scan.todo : i <= j
After(i) == IF scan.todo = {i} THEN NoScan
            ELSE [pc |-> "screen", todo |-> scan.todo \ {i}]

\* Mutant of ToContest: only the oracle's own rows count.
OracleRowsOnly(a) == <<a, "chainalysis">> \in blocked

\* Blocked under any source.  (Where the oracle itself lives on the shield's
\* chain the scan also asks it; that can only add matches.)
ToContest(a) == Flagged(a)

Screen(i) ==
  /\ scan.pc = "screen" /\ AtHand(i)
  /\ scan' = IF ToContest(shields[i].shielder)
             THEN [scan EXCEPT !.pc = "send"] ELSE After(i)
  /\ UNCHANGED <<blocklist, shields, scanned, sent, leftOut, unflagged, bounds>>

\* Simulated first: a shield that is resolved by now is skipped.
Contest(i) ==
  /\ scan.pc = "send" /\ AtHand(i)
  /\ scan' = After(i)
  /\ sent' = IF shields[i].chain = "queued" THEN sent \cup {i} ELSE sent
  /\ UNCHANGED <<blocklist, shields, scanned, leftOut, unflagged, bounds>>

\* A contest fails, or is sent and its reply lost, and the scan goes on, unless
\* the action dies or the nonce is wrong for the rest of it.
ScanFails ==
  /\ scan # NoScan /\ Mishap
  /\ \E gone \in SUBSET scan.todo :
       /\ gone = scan.todo \/ (scan.pc = "send" /\ \E i \in gone : AtHand(i) /\ gone = {i})
       /\ scan' = IF gone = scan.todo THEN NoScan
                  ELSE [pc |-> "screen", todo |-> scan.todo \ gone]
       /\ \/ UNCHANGED sent /\ leftOut' = leftOut \cup gone
          \/ \E i \in gone :
               /\ scan.pc = "send" /\ AtHand(i) /\ shields[i].chain = "queued"
               /\ sent' = sent \cup {i} /\ leftOut' = leftOut \cup (gone \ {i})
  /\ UNCHANGED <<blocklist, shields, scanned, unflagged, edits>>

Scan ==
  \/ BeginScan \/ ScanFails
  \/ \E i \in DOMAIN shields : Screen(i) \/ Contest(i)

\* No scan of this period has got to the shield, or its contest is not mined.
\* (The period it was queued in does not count.)
Missed(i) ==
  /\ Waiting(i)
  /\ ~scanned \/ i \in leftOut \cup scan.todo \cup sent

\* MaxAge is a bound.
Tick ==
  /\ \A i \in DOMAIN shields : Queued(i) => shields[i].age < MaxAge
  /\ scanned' = FALSE /\ leftOut' = {}
  /\ shields' = [i \in DOMAIN shields |->
       IF ~Queued(i) THEN shields[i]
       ELSE [shields[i] EXCEPT !.age = @ + 1,
                               !.missed = IF Missed(i) THEN @ + 1 ELSE @]]
  /\ UNCHANGED <<blocklist, scan, sent, unflagged, bounds>>

Symmetry == Permutations(Addresses) \cup Permutations(Passes)

Next == Tick \/ Blocklist \/ Queue \/ Scan

Spec == Init /\ [][Next]_vars

-----------------------------------------------------------------------------
(* Properties *)

PassType == [at : Nat, to : Nat, head : Nat]
ShieldType == [shielder : Addresses, age : Nat, wait : Nat, live : BOOLEAN,
               missed : Nat,
               chain : {"queued", "executed", "cancelled"},
               row : {"none", "queued", "executed", "cancelled"}]

TypeOK ==
  /\ oracle \in Seq(Event)
  /\ blocked \subseteq Addresses \X {"chainalysis", "manual"}
  /\ cursor \in 0 .. Len(oracle)
  /\ pass \in [Passes -> PassType]
  /\ \A p \in Passes : pass[p].to <= pass[p].head /\ pass[p].head <= Len(oracle)
  /\ shields \in Seq(ShieldType)
  /\ scan.pc \in {"idle", "screen", "send"} /\ scan.todo \subseteq DOMAIN shields
  /\ scanned \in BOOLEAN /\ sent \subseteq DOMAIN shields
  /\ edits \in Nat /\ mishaps \in Nat
  /\ overtaken \subseteq Addresses
  /\ unflagged \cup leftOut \subseteq DOMAIN shields

\* The first scan to take in a shield of an address that is on the blocklist all
\* along contests it, whichever scans die, lose replies or find it resolved: by
\* its unlock time it has landed only if all but one of the periods of its wait
\* were lost to scans that did not begin, died, had no room for it because of
\* older rows, or whose contest was not mined.  "Queued shields that miss a tick
\* are caught on the next one (the wait is much longer than the cron cadence)":
\* a depositor who was fast-tracked does not wait, and a booth operator's
\* execution does not ask.
FlaggedNeverLands ==
  \A i \in DOMAIN shields :
    shields[i].chain = "executed" =>
      i \in unflagged \/ shields[i].wait <= 1 + shields[i].missed

\* What the oracle says of an address after its first n events.
SanctionedAfter(n, a) ==
  LET about == {i \in 1 .. n : oracle[i].address = a} IN
  \E i \in about : oracle[i].added /\ \A j \in about : j <= i

\* The rows are those of the oracle at the cursor, for every address without
\* events beyond it: no death of a pass, in the middle of a window or between
\* its rows and its cursor, loses a listing or keeps a lifted one.  Except for
\* addresses over which two passes raced.
MirrorAtCursor ==
  \A a \in Addresses \ overtaken :
    (\A i \in cursor + 1 .. Len(oracle) : oracle[i].address # a)
      => ((<<a, "chainalysis">> \in blocked) <=> SanctionedAfter(cursor, a))
=============================================================================
