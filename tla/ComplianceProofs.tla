-------------------------- MODULE ComplianceProofs --------------------------
(***************************************************************************)
(* What the blocklist and the scan guarantee for any number of addresses,  *)
(* passes, shields and mishaps: the rows are the oracle's as far as the    *)
(* cursor says, and a shield of a listed address is contested by the first  *)
(* scan that takes it in.                                                  *)
(***************************************************************************)
EXTENDS ComplianceScan, TLAPS

-----------------------------------------------------------------------------
(* Types *)

ListType ==
  /\ oracle \in Seq(Event)
  /\ blocked \subseteq Addresses \X {"chainalysis", "manual"}
  /\ cursor \in 0 .. Len(oracle)
  /\ overtaken \subseteq Addresses

\* The window of a pass lies before the head it read, and the pass stops right
\* behind its window.
PassesInRange ==
  /\ pass \in [Passes -> PassType]
  /\ \A p \in Passes :
       /\ pass[p] # NoPass => pass[p].at > 0
       /\ pass[p].at <= pass[p].to + 1
       /\ pass[p].to <= pass[p].head /\ pass[p].head <= Len(oracle)

QueueType ==
  /\ shields \in Seq(ShieldType)
  /\ sent \subseteq DOMAIN shields
  /\ unflagged \cup leftOut \subseteq DOMAIN shields

ScanType ==
  /\ scan.pc \in {"idle", "screen", "send"} /\ scan.todo \subseteq DOMAIN shields
  /\ scanned \in BOOLEAN

CountType == edits \in Nat /\ mishaps \in 0 .. MaxMishaps

Types == ListType /\ PassesInRange /\ QueueType /\ ScanType /\ CountType

LEMMA InitTypes == Init => Types
<1> SUFFICES ASSUME Init PROVE Types
  OBVIOUS
<1>1. Len(oracle) = 0 /\ oracle \in Seq(Event) /\ shields \in Seq(ShieldType)
  BY DEF Init
<1>2. ListType
  BY <1>1 DEF Init, ListType
<1>3. PassesInRange
  BY <1>1 DEF Init, PassesInRange, PassType, NoPass
<1>4. QueueType /\ ScanType
  BY <1>1 DEF Init, QueueType, ScanType, NoScan
<1>5. CountType
  BY ComplianceAssumption DEF Init, CountType
<1> QED
  BY <1>2, <1>3, <1>4, <1>5 DEF Types

LEMMA WindowEndIsCut ==
  ASSUME NEW from \in Nat, NEW head \in Nat
  PROVE  /\ WindowEnd(from, head) \in Nat
         /\ WindowEnd(from, head) <= head
         /\ from <= head => from <= WindowEnd(from, head)
BY ComplianceAssumption DEF WindowEnd, Smaller

LEMMA BlocklistTyped ==
  ASSUME Types, Blocklist
  PROVE  ListType' /\ PassesInRange'
<1>1. CASE OracleEvent
  <2>1. PICK e \in Event : oracle' = Append(oracle, e)
    BY <1>1 DEF OracleEvent
  <2>2. oracle' \in Seq(Event) /\ Len(oracle') = Len(oracle) + 1 /\ Len(oracle) \in Nat
    BY <2>1 DEF Types, ListType
  <2>3. ListType'
    BY <1>1, <2>2 DEF OracleEvent, Types, ListType
  <2>4. PassesInRange'
    BY <1>1, <2>2 DEF OracleEvent, Types, PassesInRange, PassType
  <2> QED
    BY <2>3, <2>4
<1>2. CASE EditBlocklist
  BY <1>2 DEF EditBlocklist, Types, ListType, PassesInRange
<1>3. ASSUME NEW p \in Passes, BeginPass(p) PROVE ListType' /\ PassesInRange'
  <2>1. Len(oracle) \in Nat /\ cursor \in Nat
    BY DEF Types, ListType
  <2> DEFINE end == WindowEnd(cursor + 1, Len(oracle))
  <2>2. end \in Nat /\ end <= Len(oracle) /\ cursor + 1 <= end
    <3>1. cursor + 1 \in Nat /\ cursor + 1 <= Len(oracle)
      BY <1>3, <2>1 DEF BeginPass
    <3> QED
      BY <2>1, <3>1, WindowEndIsCut
  <2>3. pass' = [pass EXCEPT ![p] = [at |-> cursor + 1, to |-> end, head |-> Len(oracle)]]
    BY <1>3 DEF BeginPass
  <2> HIDE DEF end
  <2>4. PassesInRange'
    BY <1>3, <2>1, <2>2, <2>3 DEF BeginPass, Types, PassesInRange, PassType, NoPass
  <2> QED
    BY <1>3, <2>4 DEF BeginPass, Types, ListType
<1>4. ASSUME NEW p \in Passes, IngestEvent(p) PROVE ListType' /\ PassesInRange'
  <2> DEFINE i == pass[p].at
  <2>1. pass[p] \in PassType /\ i \in Nat /\ i <= pass[p].to /\ pass[p].to \in Nat
    BY <1>4 DEF IngestEvent, Types, PassesInRange, PassType
  <2>2. pass' = [pass EXCEPT ![p].at = i + 1] /\ UNCHANGED <<oracle, cursor>>
    BY <1>4 DEF IngestEvent
  <2>3. PassesInRange'
    BY <2>1, <2>2 DEF Types, PassesInRange, PassType, NoPass
  <2>4. i \in 1 .. Len(oracle)
    BY <1>4, <2>1 DEF IngestEvent, Types, PassesInRange, PassType, ListType
  <2>5. oracle[i].address \in Addresses
    <3>1. oracle \in Seq(Event)
      BY DEF Types, ListType
    <3>2. oracle[i] \in Event
      BY <2>4, <3>1
    <3> QED
      BY <3>2 DEF Event
  <2>6. blocked' \subseteq Addresses \X {"chainalysis", "manual"} /\ overtaken' \subseteq Addresses
    BY <1>4, <2>5 DEF IngestEvent, Types, ListType
  <2> QED
    BY <2>2, <2>3, <2>6 DEF Types, ListType
<1>5. ASSUME NEW p \in Passes, SetCursor(p) PROVE ListType' /\ PassesInRange'
  <2> DEFINE to == pass[p].to
             head == pass[p].head
             end == WindowEnd(to + 1, head)
  <2>1. to \in Nat /\ head \in Nat /\ to <= head /\ head <= Len(oracle) /\ Len(oracle) \in Nat
    BY DEF Types, PassesInRange, PassType, ListType
  <2>2. ListType'
    BY <1>5, <2>1 DEF SetCursor, Types, ListType
  <2>3. end \in Nat /\ end <= head /\ (to # head => to + 1 <= end)
    <3>1. to + 1 \in Nat /\ (to # head => to + 1 <= head)
      BY <2>1
    <3> QED
      BY <2>1, <3>1, WindowEndIsCut
  <2>4. /\ pass' = [pass EXCEPT ![p] =
                     IF to = head THEN NoPass
                     ELSE [at |-> to + 1, to |-> end, head |-> head]]
        /\ UNCHANGED oracle
    BY <1>5 DEF SetCursor
  <2> HIDE DEF end
  <2>5. PassesInRange'
    BY <2>1, <2>3, <2>4 DEF Types, PassesInRange, PassType, NoPass
  <2> QED
    BY <2>2, <2>5
<1>6. ASSUME NEW p \in Passes, PassDies(p) PROVE ListType' /\ PassesInRange'
  <2>1. Len(oracle) \in Nat
    BY DEF Types, ListType
  <2> QED
    BY <1>6, <2>1 DEF PassDies, Types, ListType, PassesInRange, PassType, NoPass
<1> QED
  BY <1>1, <1>2, <1>3, <1>4, <1>5, <1>6 DEF Blocklist

LEMMA MishapCounts ==
  ASSUME CountType, Mishap
  PROVE  mishaps' = mishaps + 1 /\ mishaps' \in 0 .. MaxMishaps
BY ComplianceAssumption DEF CountType, Mishap

\* The blocklist leaves queue and scan alone, but for the history.
LEMMA BlocklistLeavesQueue ==
  ASSUME Types, Blocklist
  PROVE  /\ UNCHANGED <<screening>>
         /\ unflagged \subseteq unflagged' /\ unflagged' \subseteq DOMAIN shields
         /\ CountType' /\ mishaps <= mishaps'
<1>1. CASE OracleEvent
  BY <1>1 DEF OracleEvent, bounds, Types, QueueType, CountType
<1>2. CASE EditBlocklist
  <2>1. UNCHANGED <<screening, mishaps>> /\ edits' = edits + 1 /\ NoteUnflagged
    BY <1>2 DEF EditBlocklist
  <2> QED
    BY <2>1 DEF NoteUnflagged, screening, Types, QueueType, CountType
<1>3. ASSUME NEW p \in Passes, BeginPass(p) \/ SetCursor(p)
      PROVE  /\ UNCHANGED <<screening, unflagged, bounds>>
  BY <1>3 DEF BeginPass, SetCursor
<1>4. ASSUME NEW p \in Passes, IngestEvent(p)
      PROVE  UNCHANGED <<screening, bounds>> /\ NoteUnflagged
  BY <1>4 DEF IngestEvent
<1>5. ASSUME NEW p \in Passes, PassDies(p)
      PROVE  UNCHANGED <<screening, unflagged, edits>> /\ Mishap
  BY <1>5 DEF PassDies
<1>6. CASE UNCHANGED <<screening, unflagged, bounds>>
  BY <1>6 DEF bounds, Types, QueueType, CountType
<1>7. CASE UNCHANGED <<screening, bounds>> /\ NoteUnflagged
  BY <1>7 DEF bounds, NoteUnflagged, screening, Types, QueueType, CountType
<1>8. CASE UNCHANGED <<screening, unflagged, edits>> /\ Mishap
  BY <1>8, MishapCounts DEF Types, QueueType, CountType
<1> QED
  BY <1>1, <1>2, <1>3, <1>4, <1>5, <1>6, <1>7, <1>8 DEF Blocklist

LEMMA BlocklistKeepsTypes ==
  ASSUME Types, Blocklist
  PROVE  Types'
BY BlocklistTyped, BlocklistLeavesQueue DEF Types, QueueType, ScanType, screening

\* One shield changes, nothing else of the queue.
LEMMA OneShieldTyped ==
  ASSUME Types, NEW i \in DOMAIN shields, NEW s \in ShieldType,
         shields' = [shields EXCEPT ![i] = s]
  PROVE  shields' \in Seq(ShieldType) /\ DOMAIN shields' = DOMAIN shields
BY DEF Types, QueueType

LEMMA OneShieldKeepsTypes ==
  ASSUME Types, NEW i \in DOMAIN shields, NEW s \in ShieldType,
         shields' = [shields EXCEPT ![i] = s], sent' \subseteq sent,
         UNCHANGED <<blocklist, scan, scanned, leftOut, unflagged, bounds>>
  PROVE  Types'
<1>1. shields' \in Seq(ShieldType) /\ DOMAIN shields' = DOMAIN shields
  BY OneShieldTyped
<1> QED
  BY <1>1 DEF blocklist, bounds, Types, ListType, PassesInRange, QueueType,
              ScanType, CountType

\* A shield that stops waiting on chain; its wait stays or is waived.
LEMMA ResolveTyped ==
  ASSUME Types, NEW i \in DOMAIN shields, NEW to \in {"executed", "cancelled"},
         Resolve(i, to), sent' \subseteq sent
  PROVE  Types'
<1> DEFINE s == [shields[i] EXCEPT !.chain = to]
<1>1. shields' = [shields EXCEPT ![i] = s]
  BY DEF Resolve
<1>2. shields[i] \in ShieldType
  BY DEF Types, QueueType
<1>3. s \in ShieldType
  BY <1>2 DEF ShieldType
<1> HIDE DEF s
<1> QED
  BY <1>1, <1>3, OneShieldKeepsTypes DEF Resolve

LEMMA WaiveTyped ==
  ASSUME Types, NEW i \in DOMAIN shields, ExecuteShieldImmediate(i)
  PROVE  Types'
<1> DEFINE s == [shields[i] EXCEPT !.chain = "executed", !.wait = 0]
<1>1. shields[i] \in ShieldType
  BY DEF Types, QueueType
<1>2. s \in ShieldType
  BY <1>1 DEF ShieldType
<1>3. shields' = [shields EXCEPT ![i] = s]
  BY DEF ExecuteShieldImmediate
<1> HIDE DEF s
<1> QED
  BY <1>2, <1>3, OneShieldKeepsTypes DEF ExecuteShieldImmediate

\* The shield that is queued.
LEMMA ShieldQueued ==
  ASSUME QueueShield
  PROVE  \E a \in Addresses, wait \in Nat, live \in BOOLEAN, row \in {"none", "queued"} :
           shields' = Append(shields, NewShield(a, wait, live, row))
BY ComplianceAssumption DEF QueueShield

LEMMA QueueKeepsTypes ==
  ASSUME Types, Queue
  PROVE  Types'
<1>1. CASE QueueShield
  <2>1. PICK a \in Addresses, wait \in Nat, live \in BOOLEAN, row \in {"none", "queued"} :
          shields' = Append(shields, NewShield(a, wait, live, row))
    BY <1>1, ShieldQueued
  <2>2. shields \in Seq(ShieldType)
    BY DEF Types, QueueType
  <2>3. NewShield(a, wait, live, row) \in ShieldType
    BY DEF NewShield, ShieldType
  <2>4. shields' \in Seq(ShieldType) /\ DOMAIN shields \subseteq DOMAIN shields'
    BY <2>1, <2>2, <2>3
  <2>5. unflagged' \cup leftOut \subseteq DOMAIN shields'
    BY <1>1, <2>4 DEF QueueShield, NoteUnflagged, Types, QueueType
  <2> QED
    BY <1>1, <2>4, <2>5
       DEF QueueShield, blocklist, bounds, Types, ListType, PassesInRange, QueueType,
           ScanType, CountType
<1>2. ASSUME NEW i \in DOMAIN shields,
             ExecuteShield(i) \/ CancelShield(i) \/ MineContest(i)
      PROVE  Types'
  <2>1. CASE UNCHANGED <<blocklist, shields, scan, scanned, leftOut, unflagged, bounds>>
             /\ sent' \subseteq sent
    BY <2>1 DEF blocklist, bounds, Types, ListType, PassesInRange, QueueType,
                ScanType, CountType
  <2> QED
    BY <1>2, <2>1, ResolveTyped DEF ExecuteShield, CancelShield, MineContest
<1>3. ASSUME NEW i \in DOMAIN shields, IndexRow(i) PROVE Types'
  <2> DEFINE s == [shields[i] EXCEPT !.row = shields[i].chain]
  <2>1. shields' = [shields EXCEPT ![i] = s]
    BY <1>3 DEF IndexRow
  <2>2. shields[i] \in ShieldType
    BY DEF Types, QueueType
  <2>3. s \in ShieldType
    BY <2>2 DEF ShieldType
  <2> HIDE DEF s
  <2> QED
    BY <1>3, <2>1, <2>3, OneShieldKeepsTypes DEF IndexRow
<1> QED
  BY <1>1, <1>2, <1>3, WaiveTyped DEF Queue

LEMMA AfterTyped ==
  ASSUME Types, NEW i \in DOMAIN shields
  PROVE  After(i).pc \in {"idle", "screen", "send"} /\ After(i).todo \subseteq DOMAIN shields
BY DEF After, NoScan, Types, ScanType

LEMMA ScanKeepsTypes ==
  ASSUME Types, Scan
  PROVE  Types'
<1>1. UNCHANGED <<blocklist, shields, unflagged>>
  BY DEF Scan, BeginScan, Screen, Contest, ScanFails
<1>2. CountType'
  BY MishapCounts DEF Scan, BeginScan, Screen, Contest, ScanFails, bounds, Types, CountType
<1>3. sent' \subseteq DOMAIN shields
  BY DEF Scan, BeginScan, Screen, Contest, ScanFails, Types, QueueType, ScanType
<1>4. leftOut' \subseteq DOMAIN shields
  BY DEF Scan, BeginScan, Screen, Contest, ScanFails, Types, QueueType, ScanType
<1>5. ScanType'
  <2>1. CASE BeginScan
    BY <2>1 DEF BeginScan, QueuedToScreen, QueuedRows, NoScan, Types, ScanType
  <2>2. ASSUME NEW i \in DOMAIN shields, Screen(i) PROVE ScanType'
    <3>1. CASE scan' = After(i)
      BY <1>1, <2>2, <3>1, AfterTyped DEF Screen, Types, ScanType
    <3>2. CASE scan' = [scan EXCEPT !.pc = "send"]
      <4>1. scan'.todo = scan.todo /\ (scan'.pc = "send" \/ scan'.pc = scan.pc)
        BY <3>2
      <4> QED
        BY <1>1, <2>2, <4>1 DEF Screen, Types, ScanType
    <3> QED
      BY <2>2, <3>1, <3>2 DEF Screen
  <2>3. ASSUME NEW i \in DOMAIN shields, Contest(i) PROVE ScanType'
    BY <1>1, <2>3, AfterTyped DEF Contest, Types, ScanType
  <2>4. CASE ScanFails
    BY <1>1, <2>4 DEF ScanFails, NoScan, Types, ScanType
  <2> QED
    BY <2>1, <2>2, <2>3, <2>4 DEF Scan
<1> QED
  BY <1>1, <1>2, <1>3, <1>4, <1>5
     DEF blocklist, Types, ListType, PassesInRange, QueueType

\* What a tick does to the shields.
LEMMA TickedShields ==
  ASSUME Types, Tick
  PROVE  /\ shields' \in Seq(ShieldType) /\ DOMAIN shields' = DOMAIN shields
         /\ \A i \in DOMAIN shields :
              /\ shields[i] \in ShieldType
              /\ shields'[i].shielder = shields[i].shielder /\ shields'[i].live = shields[i].live
              /\ shields'[i].chain = shields[i].chain /\ shields'[i].wait = shields[i].wait
              /\ shields'[i].missed >= shields[i].missed
              /\ Queued(i) => /\ shields'[i].age = shields[i].age + 1
                              /\ Missed(i) => shields'[i].missed = shields[i].missed + 1
<1> DEFINE t(i) == IF ~Queued(i) THEN shields[i]
                   ELSE [shields[i] EXCEPT !.age = @ + 1,
                                           !.missed = IF Missed(i) THEN @ + 1 ELSE @]
<1>0. \A i \in DOMAIN shields : shields[i] \in ShieldType
  BY DEF Types, QueueType
<1>1. shields \in Seq(ShieldType) /\ shields' = [i \in DOMAIN shields |-> t(i)]
  BY DEF Tick, Types, QueueType
<1>2. ASSUME NEW i \in DOMAIN shields
      PROVE  /\ shields[i] \in ShieldType /\ t(i) \in ShieldType
             /\ t(i).shielder = shields[i].shielder /\ t(i).live = shields[i].live
             /\ t(i).chain = shields[i].chain /\ t(i).wait = shields[i].wait
             /\ t(i).missed >= shields[i].missed
             /\ Queued(i) => /\ t(i).age = shields[i].age + 1
                             /\ Missed(i) => t(i).missed = shields[i].missed + 1
  <2>1. shields[i] \in ShieldType
    BY <1>0
  <2>2. CASE ~Queued(i)
    BY <2>1, <2>2 DEF ShieldType
  <2> DEFINE a == shields[i].age + 1
             m == IF Missed(i) THEN shields[i].missed + 1 ELSE shields[i].missed
  <2>3. CASE Queued(i)
    <3>1. /\ a \in Nat /\ m \in Nat /\ m >= shields[i].missed
          /\ Missed(i) => m = shields[i].missed + 1
      BY <2>1 DEF ShieldType
    <3>2. t(i) = [shields[i] EXCEPT !.age = a, !.missed = m]
      BY <2>3
    <3>3. a = shields[i].age + 1
      OBVIOUS
    <3> HIDE DEF a, m, t
    <3>4. /\ t(i) \in ShieldType
          /\ t(i).shielder = shields[i].shielder /\ t(i).live = shields[i].live
          /\ t(i).chain = shields[i].chain /\ t(i).wait = shields[i].wait
          /\ t(i).age = a /\ t(i).missed = m
      <4>1. PICK u : u = t(i)
        OBVIOUS
      <4>2. u = [shields[i] EXCEPT !.age = a, !.missed = m]
        BY <3>2, <4>1
      <4>3. /\ u \in ShieldType /\ u.shielder = shields[i].shielder /\ u.live = shields[i].live
            /\ u.chain = shields[i].chain /\ u.wait = shields[i].wait
            /\ u.age = a /\ u.missed = m
        BY <2>1, <3>1, <4>2 DEF ShieldType
      <4> QED
        BY <4>1, <4>3
    <3> QED
      BY <2>1, <2>3, <3>1, <3>3, <3>4
  <2> QED
    BY <2>2, <2>3
<1> HIDE DEF t
<1>3. shields' \in Seq(ShieldType) /\ DOMAIN shields' = DOMAIN shields
  <2>1. DOMAIN shields = 1 .. Len(shields) /\ Len(shields) \in Nat
    BY <1>1
  <2> QED
    BY <1>1, <1>2, <2>1
<1> QED
  BY <1>1, <1>2, <1>3

LEMMA NextKeepsTypes ==
  ASSUME Types, [Next]_vars
  PROVE  Types'
<1>1. CASE Tick
  <2>1. ListType' /\ PassesInRange' /\ CountType'
    BY <1>1 DEF Tick, blocklist, bounds, Types, ListType, PassesInRange, CountType
  <2>2. QueueType' /\ ScanType'
    BY <1>1, TickedShields DEF Tick, Types, QueueType, ScanType
  <2> QED
    BY <2>1, <2>2 DEF Types
<1>2. CASE UNCHANGED vars
  BY <1>2 DEF vars, blocklist, screening, bounds, Types, ListType, PassesInRange,
              QueueType, ScanType, CountType
<1> QED
  BY <1>1, <1>2, BlocklistKeepsTypes, QueueKeepsTypes, ScanKeepsTypes DEF Next

LEMMA TypesInvariant == Spec => []Types
<1>1. Types /\ [Next]_vars => Types'
  BY NextKeepsTypes
<1> QED
  BY <1>1, InitTypes, PTL DEF Spec

\* Type correctness.
THEOREM ComplianceTyped == Spec => []TypeOK
<1>1. Types => TypeOK
  BY DEF Types, ListType, PassesInRange, QueueType, ScanType, CountType, TypeOK
<1> QED
  BY <1>1, TypesInvariant, PTL

-----------------------------------------------------------------------------
(* The blocklist mirrors the oracle *)

Last(a, i) ==
  /\ i \in DOMAIN oracle /\ oracle[i].address = a
  /\ \A j \in DOMAIN oracle : oracle[j].address = a => j <= i

\* No event of the address lies beyond the cursor, or beyond what some pass has
\* ingested.
Read(a) ==
  \/ \A i \in DOMAIN oracle : oracle[i].address = a => i <= cursor
  \/ \E p \in Passes : \A i \in DOMAIN oracle : oracle[i].address = a => i < pass[p].at

HasRow(a) == <<a, "chainalysis">> \in blocked
IsSanctioned(a) == \E i \in DOMAIN oracle : Last(a, i) /\ oracle[i].added

\* Whatever was read to its last event has the row of that event.  That a pass
\* counts as much as the cursor is what makes this inductive.
ReadIsMirrored ==
  \A a \in Addresses \ overtaken : Read(a) => (HasRow(a) <=> IsSanctioned(a))

MirrorInv == Types /\ ReadIsMirrored

\* Nothing that matters to the mirror changes.
LEMMA MirrorStutters ==
  ASSUME ReadIsMirrored, UNCHANGED <<oracle, cursor, pass>>,
         \A a \in Addresses \ overtaken' : a \notin overtaken /\ (HasRow(a)' <=> HasRow(a))
  PROVE  ReadIsMirrored'
BY DEF ReadIsMirrored, Read, HasRow, IsSanctioned, Last

LEMMA OracleKeepsMirror ==
  ASSUME MirrorInv, OracleEvent
  PROVE  ReadIsMirrored'
<1>1. PICK e \in Event : oracle' = Append(oracle, e)
  BY DEF OracleEvent
<1> DEFINE n == Len(oracle) + 1
<1>2. /\ oracle \in Seq(Event) /\ Len(oracle) \in Nat
      /\ DOMAIN oracle = 1 .. Len(oracle) /\ DOMAIN oracle' = 1 .. n
      /\ oracle'[n] = e /\ \A i \in DOMAIN oracle : oracle'[i] = oracle[i]
  BY <1>1 DEF MirrorInv, Types, ListType
<1>3. UNCHANGED <<blocked, cursor, pass, overtaken>>
  BY DEF OracleEvent
<1>4. cursor < n /\ \A p \in Passes : pass[p].at <= n
  BY <1>2 DEF MirrorInv, Types, ListType, PassesInRange, PassType
<1> SUFFICES ASSUME NEW a \in Addresses \ overtaken, Read(a)'
             PROVE  HasRow(a)' <=> IsSanctioned(a)'
  BY <1>3 DEF ReadIsMirrored
<1>5. e.address # a
  <2> SUFFICES ASSUME e.address = a PROVE FALSE
    OBVIOUS
  <2>1. n \in DOMAIN oracle' /\ oracle'[n].address = a
    BY <1>2
  <2> QED
    BY <1>2, <1>3, <1>4, <2>1 DEF Read, MirrorInv, Types, PassesInRange, PassType, ListType
<1>6. \A i : i \in DOMAIN oracle' /\ oracle'[i].address = a
              <=> i \in DOMAIN oracle /\ oracle[i].address = a
  BY <1>2, <1>5
<1>7. Read(a)
  BY <1>3, <1>6 DEF Read
<1>8. IsSanctioned(a)' <=> IsSanctioned(a)
  <2>1. ASSUME NEW i PROVE Last(a, i)' <=> Last(a, i)
    BY <1>6 DEF Last
  <2> QED
    BY <1>2, <2>1 DEF IsSanctioned, Last
<1> QED
  BY <1>3, <1>7, <1>8 DEF MirrorInv, ReadIsMirrored, HasRow

LEMMA IngestKeepsMirror ==
  ASSUME MirrorInv, NEW p \in Passes, IngestEvent(p)
  PROVE  ReadIsMirrored'
<1>1. PICK i \in Nat : i = pass[p].at
  BY DEF MirrorInv, Types, PassesInRange, PassType
<1>2. i \in DOMAIN oracle /\ i <= pass[p].to
  BY <1>1 DEF IngestEvent, MirrorInv, Types, PassesInRange, PassType, ListType
<1>3. PICK b \in Addresses : b = oracle[i].address
  <2>1. oracle[i] \in Event
    BY <1>2 DEF MirrorInv, Types, ListType
  <2> QED
    BY <2>1 DEF Event
<1>4. /\ blocked' = IF oracle[i].added THEN blocked \cup {<<b, "chainalysis">>}
                                       ELSE blocked \ {<<b, "chainalysis">>}
      /\ overtaken' = IF cursor >= i \/ \E q \in Passes \ {p} : pass[q].at > i
                      THEN overtaken \cup {b} ELSE overtaken
      /\ pass' = [pass EXCEPT ![p].at = i + 1]
      /\ UNCHANGED <<oracle, cursor>>
  BY <1>1, <1>3 DEF IngestEvent
<1>5. /\ DOMAIN oracle = 1 .. Len(oracle) /\ Len(oracle) \in Nat
      /\ \A q \in Passes : pass[q].at \in Nat /\ pass[q] \in PassType
  BY DEF MirrorInv, Types, ListType, PassesInRange, PassType
<1>6. pass'[p].at = i + 1 /\ \A q \in Passes \ {p} : pass'[q] = pass[q]
  BY <1>4, <1>5 DEF MirrorInv, Types, PassesInRange, PassType
<1> SUFFICES ASSUME NEW a \in Addresses \ overtaken', Read(a)'
             PROVE  HasRow(a)' <=> IsSanctioned(a)'
  BY DEF ReadIsMirrored
<1>7. a \notin overtaken /\ (IsSanctioned(a)' <=> IsSanctioned(a))
  BY <1>4 DEF IsSanctioned, Last
<1>8. CASE a # b
  <2>1. Read(a)
    <3>1. CASE \A j \in DOMAIN oracle : oracle[j].address = a => j < i + 1
      <4>1. \A j \in DOMAIN oracle : oracle[j].address = a => j # i
        BY <1>3, <1>8
      <4>2. \A j \in DOMAIN oracle : oracle[j].address = a => j < i
        BY <1>5, <3>1, <4>1
      <4> QED
        BY <1>1, <4>2 DEF Read
    <3> QED
      BY <1>4, <1>6, <3>1 DEF Read
  <2>2. HasRow(a)' <=> HasRow(a)
    BY <1>4, <1>8 DEF HasRow
  <2> QED
    BY <1>7, <2>1, <2>2 DEF MirrorInv, ReadIsMirrored
<1>9. CASE a = b
  <2>1. cursor < i /\ \A q \in Passes \ {p} : pass[q].at <= i
    <3>1. ~(cursor >= i \/ \E q \in Passes \ {p} : pass[q].at > i)
      BY <1>4, <1>9
    <3> QED
      BY <1>5, <3>1 DEF MirrorInv, Types, ListType
  <2>2. \A j \in DOMAIN oracle : oracle[j].address = a => j <= i
    <3>1. CASE \A j \in DOMAIN oracle : oracle[j].address = a => j <= cursor
      BY <1>2, <1>3, <1>5, <1>9, <2>1, <3>1 DEF MirrorInv, Types, ListType
    <3>2. ASSUME NEW q \in Passes,
                 \A j \in DOMAIN oracle : oracle[j].address = a => j < pass'[q].at
          PROVE  \A j \in DOMAIN oracle : oracle[j].address = a => j <= i
      BY <1>2, <1>3, <1>5, <1>6, <1>9, <2>1, <3>2
    <3> QED
      BY <1>4, <3>1, <3>2 DEF Read
  <2>3. Last(a, i)
    BY <1>2, <1>3, <1>9, <2>2 DEF Last
  <2>4. \A j : Last(a, j) => j = i
    BY <1>5, <2>3 DEF Last
  <2>5. IsSanctioned(a) <=> oracle[i].added
    BY <1>2, <2>3, <2>4 DEF IsSanctioned
  <2>6. HasRow(a)' <=> oracle[i].added
    BY <1>4, <1>9 DEF HasRow
  <2> QED
    BY <1>7, <2>5, <2>6
<1> QED
  BY <1>8, <1>9

LEMMA PassKeepsMirror ==
  ASSUME MirrorInv, NEW p \in Passes, BeginPass(p) \/ SetCursor(p) \/ PassDies(p)
  PROVE  ReadIsMirrored'
<1>1. UNCHANGED <<oracle, blocked, overtaken>>
  BY DEF BeginPass, SetCursor, PassDies
<1>2. /\ DOMAIN oracle = 1 .. Len(oracle) /\ Len(oracle) \in Nat /\ cursor \in Nat
      /\ \A q \in Passes : pass[q].at \in Nat /\ pass[q].to \in Nat /\ pass[q] \in PassType
      /\ pass[p].at <= pass[p].to + 1
  BY DEF MirrorInv, Types, ListType, PassesInRange, PassType
<1>3. \A q \in Passes \ {p} : pass'[q] = pass[q]
  BY DEF BeginPass, SetCursor, PassDies, MirrorInv, Types, PassesInRange
<1>4. \/ cursor' = cursor
      \/ cursor' = pass[p].to /\ WindowDone(p)
  BY DEF BeginPass, SetCursor, PassDies
<1>5. \/ pass'[p].at = cursor + 1
      \/ pass'[p].at = 0
      \/ pass'[p].at = pass[p].to + 1 /\ WindowDone(p)
  BY DEF BeginPass, SetCursor, PassDies, NoPass, MirrorInv, Types, PassesInRange
<1>6. WindowDone(p) => pass[p].at = pass[p].to + 1
  BY <1>2 DEF WindowDone
<1>7. ASSUME NEW a, Read(a)' PROVE Read(a)
  <2>1. CASE \A j \in DOMAIN oracle : oracle[j].address = a => j <= cursor'
    BY <1>2, <1>4, <1>6, <2>1 DEF Read
  <2>2. ASSUME NEW q \in Passes,
               \A j \in DOMAIN oracle : oracle[j].address = a => j < pass'[q].at
        PROVE  Read(a)
    <3>1. CASE q # p
      BY <1>3, <2>2, <3>1 DEF Read
    <3>2. CASE q = p /\ pass'[p].at \in {0, cursor + 1}
      BY <1>2, <2>2, <3>2 DEF Read
    <3>3. CASE q = p /\ pass'[p].at = pass[p].at
      BY <2>2, <3>3 DEF Read
    <3> QED
      BY <1>2, <1>5, <1>6, <3>1, <3>2, <3>3
  <2> QED
    BY <1>1, <1>7, <2>1, <2>2 DEF Read
<1> QED
  BY <1>1, <1>7 DEF MirrorInv, ReadIsMirrored, HasRow, IsSanctioned, Last

LEMMA NextKeepsMirror ==
  ASSUME MirrorInv, [Next]_vars
  PROVE  MirrorInv'
<1>1. CASE EditBlocklist
  <2>1. UNCHANGED <<oracle, cursor, pass>>
    BY <1>1 DEF EditBlocklist
  <2>2. \A a \in Addresses \ overtaken' : a \notin overtaken /\ (HasRow(a)' <=> HasRow(a))
    <3>1. ASSUME NEW a \in Addresses,
                 blocked' = blocked \cup {<<a, "manual">>}, UNCHANGED overtaken
          PROVE  \A b \in Addresses \ overtaken' :
                    b \notin overtaken /\ (HasRow(b)' <=> HasRow(b))
      BY <3>1 DEF HasRow
    <3>2. ASSUME NEW a \in Addresses,
                 blocked' = {r \in blocked : r[1] # a}, overtaken' = overtaken \cup {a}
          PROVE  \A b \in Addresses \ overtaken' :
                    b \notin overtaken /\ (HasRow(b)' <=> HasRow(b))
      BY <3>2 DEF HasRow
    <3> QED
      BY <1>1, <3>1, <3>2 DEF EditBlocklist
  <2> QED
    BY <2>1, <2>2, MirrorStutters, NextKeepsTypes DEF MirrorInv
<1>2. CASE Blocklist
  BY <1>1, <1>2, OracleKeepsMirror, IngestKeepsMirror, PassKeepsMirror, NextKeepsTypes
     DEF Blocklist, MirrorInv
<1>3. CASE UNCHANGED blocklist
  BY <1>3, MirrorStutters, NextKeepsTypes DEF blocklist, MirrorInv, HasRow
<1>4. Queue \/ Scan \/ Tick \/ UNCHANGED vars => UNCHANGED blocklist
  BY DEF Queue, QueueShield, ExecuteShield, ExecuteShieldImmediate, CancelShield,
         MineContest, IndexRow, Resolve,
         Scan, BeginScan, Screen, Contest, ScanFails, Tick, vars
<1> QED
  BY <1>2, <1>3, <1>4 DEF Next

\* The rows are the oracle's at the cursor, for every address without events
\* beyond it, over which no two passes raced (indexChainalysisOracle): no death
\* of a pass loses a listing or keeps a lifted one.
THEOREM MirrorHolds == Spec => []MirrorAtCursor
<1>1. Init => MirrorInv
  BY InitTypes DEF Init, MirrorInv, ReadIsMirrored, Read, HasRow, IsSanctioned, Last
<1>2. MirrorInv /\ [Next]_vars => MirrorInv'
  BY NextKeepsMirror
<1>3. MirrorInv => MirrorAtCursor
  <2> SUFFICES ASSUME MirrorInv, NEW a \in Addresses \ overtaken,
                      \A i \in cursor + 1 .. Len(oracle) : oracle[i].address # a
               PROVE  HasRow(a) <=> SanctionedAfter(cursor, a)
    BY DEF MirrorAtCursor, HasRow
  <2>1. DOMAIN oracle = 1 .. Len(oracle) /\ Len(oracle) \in Nat /\ cursor \in 0 .. Len(oracle)
    BY DEF MirrorInv, Types, ListType
  <2>2. \A i : i \in DOMAIN oracle /\ oracle[i].address = a
               <=> i \in 1 .. cursor /\ oracle[i].address = a
    BY <2>1
  <2>3. Read(a)
    BY <2>1, <2>2 DEF Read
  <2>4. IsSanctioned(a) <=> SanctionedAfter(cursor, a)
    BY <2>2 DEF IsSanctioned, Last, SanctionedAfter
  <2> QED
    BY <2>3, <2>4 DEF MirrorInv, ReadIsMirrored
<1> QED
  BY <1>1, <1>2, <1>3, PTL DEF Spec

-----------------------------------------------------------------------------
(* A flagged shield does not land *)

\* Shields that wait on chain and were flagged all along.
Kept(i) == Queued(i) /\ i \notin unflagged

\* The scan of this period still has it at hand, contested it or left it out.
Covered(i) == i \in scan.todo \cup sent \cup leftOut

FlagsNoted == \A i \in DOMAIN shields : ~Flagged(shields[i].shielder) => i \in unflagged

\* Each period but the first is one it missed; and the scan of this one, if it
\* has begun, covers it.
WaitsInTime ==
  \A i \in DOMAIN shields : Kept(i) =>
    /\ shields[i].age <= 1 + shields[i].missed
    /\ shields[i].age > 0 /\ scanned => Covered(i)

ScreenInv == Types /\ FlagsNoted /\ WaitsInTime /\ FlaggedNeverLands

LEMMA InitScreen == Init => ScreenInv
<1> SUFFICES ASSUME Init PROVE ScreenInv
  OBVIOUS
<1>1. DOMAIN shields = {}
  BY DEF Init
<1> QED
  BY <1>1, InitTypes DEF ScreenInv, FlagsNoted, WaitsInTime, FlaggedNeverLands

\* The types the arithmetic needs.
LEMMA ShieldTypes ==
  ASSUME Types
  PROVE  \A i \in DOMAIN shields :
           /\ shields[i] \in ShieldType
           /\ shields[i].age \in Nat /\ shields[i].wait \in Nat /\ shields[i].missed \in Nat
<1>1. \A i \in DOMAIN shields : shields[i] \in ShieldType
  BY DEF Types, QueueType
<1> QED
  BY <1>1 DEF ShieldType

\* Shields that stay as they are or stop waiting keep the invariant, as long as
\* those that land do so when they may.
LEMMA ShieldsSettle ==
  ASSUME ScreenInv, Types', FlagsNoted', DOMAIN shields' = DOMAIN shields,
         unflagged \subseteq unflagged', scanned' = scanned,
         \A i \in DOMAIN shields :
           /\ Kept(i)' => Kept(i) /\ shields'[i].age = shields[i].age
                            /\ shields'[i].missed = shields[i].missed
                            /\ (Covered(i) => Covered(i)')
           /\ shields'[i].chain = "executed" =>
                \/ /\ shields[i].chain = "executed" /\ shields'[i].wait = shields[i].wait
                   /\ shields'[i].missed = shields[i].missed
                \/ i \in unflagged' \/ shields'[i].wait <= 1 + shields'[i].missed
  PROVE  ScreenInv'
<1>1. WaitsInTime'
  BY DEF ScreenInv, WaitsInTime
<1>2. FlaggedNeverLands'
  BY DEF ScreenInv, FlaggedNeverLands
<1> QED
  BY <1>1, <1>2 DEF ScreenInv

\* More history, the queue as it was.
LEMMA ListsKeepScreen ==
  ASSUME ScreenInv, Blocklist
  PROVE  ScreenInv'
<1>1. UNCHANGED <<shields, scan, scanned, sent, leftOut>> /\ unflagged \subseteq unflagged'
  BY BlocklistLeavesQueue DEF ScreenInv, screening
<1>2. Types'
  BY BlocklistKeepsTypes DEF ScreenInv
<1>3. FlagsNoted'
  <2>1. CASE NoteUnflagged
    BY <2>1 DEF NoteUnflagged, FlagsNoted, Flagged
  <2>2. CASE UNCHANGED blocked
    BY <1>1, <2>2 DEF ScreenInv, FlagsNoted, Flagged
  <2> QED
    BY <2>1, <2>2 DEF Blocklist, OracleEvent, EditBlocklist, BeginPass, IngestEvent,
                      SetCursor, PassDies
<1>4. \A i \in DOMAIN shields : (Kept(i)' => Kept(i)) /\ (Covered(i) => Covered(i)')
  BY <1>1 DEF Kept, Queued, Covered
<1> QED
  BY <1>1, <1>2, <1>3, <1>4, ShieldsSettle

LEMMA ShieldKeepsScreen ==
  ASSUME ScreenInv, QueueShield
  PROVE  ScreenInv'
<1>1. Types'
  BY QueueKeepsTypes DEF ScreenInv, Queue
<1>2. PICK a \in Addresses, wait \in Nat, live \in BOOLEAN, row \in {"none", "queued"} :
        shields' = Append(shields, NewShield(a, wait, live, row))
  BY ShieldQueued
<1> DEFINE n == Len(shields) + 1
<1>3. /\ DOMAIN shields' = DOMAIN shields \cup {n}
      /\ \A i \in DOMAIN shields : i # n /\ shields'[i] = shields[i]
      /\ shields'[n].age = 0 /\ shields'[n].missed = 0 /\ shields'[n].chain = "queued"
  BY <1>2 DEF ScreenInv, Types, QueueType, NewShield
<1>4. /\ UNCHANGED <<blocked, scan, scanned, sent, leftOut>>
      /\ unflagged \subseteq unflagged' /\ NoteUnflagged
  BY DEF QueueShield, blocklist, NoteUnflagged
<1>5. FlagsNoted'
  BY <1>4 DEF NoteUnflagged, FlagsNoted, Flagged
<1>6. FlaggedNeverLands'
  BY <1>3, <1>4 DEF ScreenInv, FlaggedNeverLands
<1>7. WaitsInTime'
  <2>1. \A i \in DOMAIN shields : Kept(i)' => Kept(i) /\ (Covered(i)' <=> Covered(i))
    BY <1>3, <1>4 DEF Kept, Queued, Covered
  <2> QED
    BY <1>3, <1>4, <2>1 DEF ScreenInv, WaitsInTime
<1> QED
  BY <1>1, <1>5, <1>6, <1>7 DEF ScreenInv

\* A shield that stops waiting.
LEMMA ResolveKeepsScreen ==
  ASSUME ScreenInv, Types', NEW k \in DOMAIN shields,
         NEW to \in {"executed", "cancelled"}, Resolve(k, to),
         to = "executed" => k \in unflagged \/ shields[k].wait <= 1 + shields[k].missed,
         sent' \in {sent, sent \ {k}}
  PROVE  ScreenInv'
<1>1. /\ DOMAIN shields' = DOMAIN shields
      /\ \A i \in DOMAIN shields : i # k => shields'[i] = shields[i]
      /\ shields'[k].shielder = shields[k].shielder /\ shields'[k].wait = shields[k].wait
      /\ shields'[k].missed = shields[k].missed /\ shields'[k].chain = to
  <2>1. shields' = [shields EXCEPT ![k] = [shields[k] EXCEPT !.chain = to]]
    BY DEF Resolve
  <2>2. shields[k] \in ShieldType
    BY ShieldTypes DEF ScreenInv
  <2> QED
    BY <2>1, <2>2 DEF ShieldType
<1>2. UNCHANGED <<blocked, scan, scanned, leftOut, unflagged>>
  BY DEF Resolve, blocklist
<1>3. FlagsNoted'
  BY <1>1, <1>2 DEF ScreenInv, FlagsNoted, Flagged
<1>4. \A i \in DOMAIN shields : Kept(i)' => i # k /\ Kept(i) /\ (Covered(i) => Covered(i)')
  BY <1>1, <1>2 DEF Kept, Queued, Covered
<1> QED
  BY <1>1, <1>2, <1>3, <1>4, ShieldsSettle

\* A booth operator's waiver.
LEMMA WaiveKeepsScreen ==
  ASSUME ScreenInv, NEW k \in DOMAIN shields, ExecuteShieldImmediate(k)
  PROVE  ScreenInv'
<1>1. Types'
  BY WaiveTyped DEF ScreenInv
<1>2. /\ DOMAIN shields' = DOMAIN shields
      /\ \A i \in DOMAIN shields : i # k => shields'[i] = shields[i]
      /\ shields'[k].shielder = shields[k].shielder /\ shields'[k].wait = 0
      /\ shields'[k].missed \in Nat /\ shields'[k].chain = "executed"
  <2>1. shields' = [shields EXCEPT ![k] =
                      [shields[k] EXCEPT !.chain = "executed", !.wait = 0]]
    BY DEF ExecuteShieldImmediate
  <2>2. shields[k] \in ShieldType
    BY ShieldTypes DEF ScreenInv
  <2> QED
    BY <2>1, <2>2 DEF ShieldType
<1>3. UNCHANGED <<blocked, scan, scanned, sent, leftOut, unflagged>>
  BY DEF ExecuteShieldImmediate, blocklist
<1>4. FlagsNoted'
  BY <1>2, <1>3 DEF ScreenInv, FlagsNoted, Flagged
<1>5. \A i \in DOMAIN shields : Kept(i)' => i # k /\ Kept(i) /\ (Covered(i) => Covered(i)')
  BY <1>2, <1>3 DEF Kept, Queued, Covered
<1>6. shields'[k].wait <= 1 + shields'[k].missed
  BY <1>2
<1> QED
  BY <1>1, <1>2, <1>3, <1>4, <1>5, <1>6, ShieldsSettle

LEMMA QueueKeepsScreen ==
  ASSUME ScreenInv, Queue
  PROVE  ScreenInv'
<1>1. Types'
  BY QueueKeepsTypes DEF ScreenInv
<1>2. ASSUME NEW i \in DOMAIN shields, ExecuteShield(i) PROVE ScreenInv'
  <2>1. i \in unflagged \/ shields[i].wait <= 1 + shields[i].missed
    <3> SUFFICES ASSUME i \notin unflagged PROVE shields[i].wait <= 1 + shields[i].missed
      OBVIOUS
    <3>1. Kept(i) /\ shields[i].age >= shields[i].wait
      BY <1>2 DEF ExecuteShield, Resolve, Kept
    <3>2. shields[i].age <= 1 + shields[i].missed
      BY <3>1 DEF ScreenInv, WaitsInTime
    <3> QED
      BY <3>1, <3>2, ShieldTypes DEF ScreenInv
  <2> QED
    BY <1>1, <1>2, <2>1, ResolveKeepsScreen DEF ExecuteShield
<1>3. ASSUME NEW i \in DOMAIN shields, CancelShield(i) PROVE ScreenInv'
  BY <1>1, <1>3, ResolveKeepsScreen DEF CancelShield
<1>4. ASSUME NEW i \in DOMAIN shields, MineContest(i) PROVE ScreenInv'
  <2>1. CASE shields[i].chain = "queued"
    BY <1>1, <1>4, <2>1, ResolveKeepsScreen DEF MineContest
  <2>2. CASE shields[i].chain # "queued"
    <3>1. UNCHANGED <<blocked, shields, scan, scanned, leftOut, unflagged>>
          /\ sent' = sent \ {i}
      BY <1>4, <2>2 DEF MineContest, blocklist
    <3>2. \A j \in DOMAIN shields : Kept(j)' => Kept(j) /\ (Covered(j) => Covered(j)')
      BY <2>2, <3>1 DEF Kept, Queued, Covered
    <3>3. FlagsNoted'
      BY <3>1 DEF ScreenInv, FlagsNoted, Flagged
    <3> QED
      BY <1>1, <3>1, <3>2, <3>3, ShieldsSettle
  <2> QED
    BY <2>1, <2>2
<1>5. ASSUME NEW k \in DOMAIN shields, IndexRow(k) PROVE ScreenInv'
  <2>1. /\ DOMAIN shields' = DOMAIN shields
        /\ \A i \in DOMAIN shields :
             /\ shields'[i].shielder = shields[i].shielder /\ shields'[i].wait = shields[i].wait
             /\ shields'[i].live = shields[i].live /\ shields'[i].chain = shields[i].chain
             /\ shields'[i].age = shields[i].age /\ shields'[i].missed = shields[i].missed
    <3>1. shields' = [shields EXCEPT ![k] = [shields[k] EXCEPT !.row = shields[k].chain]]
      BY <1>5 DEF IndexRow
    <3>2. \A i \in DOMAIN shields : shields[i] \in ShieldType
      BY ShieldTypes DEF ScreenInv
    <3> QED
      BY <3>1, <3>2 DEF ShieldType
  <2>2. UNCHANGED <<blocked, scan, scanned, sent, leftOut, unflagged>>
    BY <1>5 DEF IndexRow, blocklist
  <2>3. FlagsNoted'
    BY <2>1, <2>2 DEF ScreenInv, FlagsNoted, Flagged
  <2>4. \A i \in DOMAIN shields : Kept(i)' => Kept(i) /\ (Covered(i) => Covered(i)')
    BY <2>1, <2>2 DEF Kept, Queued, Covered
  <2> QED
    BY <1>1, <2>1, <2>2, <2>3, <2>4, ShieldsSettle
<1> QED
  BY <1>2, <1>3, <1>4, <1>5, ShieldKeepsScreen, WaiveKeepsScreen DEF Queue

LEMMA ScanKeepsScreen ==
  ASSUME ScreenInv, Scan
  PROVE  ScreenInv'
<1>1. Types'
  BY ScanKeepsTypes DEF ScreenInv
<1>2. UNCHANGED <<blocked, shields, unflagged>>
  BY DEF Scan, BeginScan, Screen, Contest, ScanFails, blocklist
<1>3. FlagsNoted' /\ FlaggedNeverLands'
  BY <1>2 DEF ScreenInv, FlagsNoted, Flagged, FlaggedNeverLands
<1>4. \A i \in DOMAIN shields : Kept(i)' <=> Kept(i)
  BY <1>2 DEF Kept, Queued
<1>5. CASE BeginScan
  <2>1. ASSUME NEW i \in DOMAIN shields, Kept(i), shields[i].age > 0
        PROVE  Covered(i)'
    <3>1. Waiting(i)
      BY <2>1 DEF Waiting, Kept
    <3>2. CASE i \in QueuedToScreen
      BY <1>5, <3>2 DEF BeginScan, Covered
    <3>3. CASE i \notin QueuedToScreen
      BY <1>5, <3>1, <3>3 DEF BeginScan, Covered
    <3> QED
      BY <3>2, <3>3
  <2>2. WaitsInTime'
    BY <1>2, <1>4, <2>1 DEF ScreenInv, WaitsInTime
  <2> QED
    BY <1>1, <1>3, <2>2 DEF ScreenInv
<1>6. ASSUME NEW k \in DOMAIN shields, Screen(k) \/ Contest(k) PROVE ScreenInv'
  <2>1. UNCHANGED <<scanned, leftOut>>
    BY <1>6 DEF Screen, Contest
  <2>2. After(k).todo = scan.todo \ {k}
    BY DEF After, NoScan
  <2>3. ASSUME NEW i \in DOMAIN shields, Kept(i), Covered(i) PROVE Covered(i)'
    <3>1. CASE Contest(k)
      <4>1. scan'.todo = scan.todo \ {k} /\ sent \subseteq sent'
            /\ (shields[k].chain = "queued" => k \in sent')
        BY <2>2, <3>1 DEF Contest
      <4> QED
        BY <2>1, <2>3, <4>1 DEF Covered, Kept, Queued
    <3>2. CASE Screen(k)
      <4>1. UNCHANGED sent
        BY <3>2 DEF Screen
      <4>2. CASE scan' = [scan EXCEPT !.pc = "send"]
        <5>1. scan'.todo = scan.todo
          BY <4>2
        <5> QED
          BY <2>1, <2>3, <4>1, <5>1 DEF Covered
      <4>3. CASE scan' = After(k) /\ ~ToContest(shields[k].shielder)
        <5>1. i # k
          BY <2>3, <4>3 DEF ToContest, ScreenInv, FlagsNoted, Kept
        <5> QED
          BY <2>1, <2>2, <2>3, <4>1, <4>3, <5>1 DEF Covered
      <4> QED
        BY <3>2, <4>2, <4>3 DEF Screen
    <3> QED
      BY <1>6, <3>1, <3>2
  <2>4. \A i \in DOMAIN shields : Kept(i)' => Kept(i) /\ (Covered(i) => Covered(i)')
    BY <1>4, <2>3
  <2> QED
    BY <1>1, <1>2, <1>3, <2>1, <2>4, ShieldsSettle
<1>7. CASE ScanFails
  <2>1. scanned' = scanned
    BY <1>7 DEF ScanFails
  <2>2. PICK gone \in SUBSET scan.todo :
          /\ scan' = IF gone = scan.todo THEN NoScan
                     ELSE [pc |-> "screen", todo |-> scan.todo \ gone]
          /\ \/ UNCHANGED sent /\ leftOut' = leftOut \cup gone
             \/ \E i \in gone : sent' = sent \cup {i} /\ leftOut' = leftOut \cup (gone \ {i})
    BY <1>7 DEF ScanFails
  <2>3. scan'.todo = scan.todo \ gone
    BY <2>2 DEF NoScan
  <2>4. sent \subseteq sent' /\ leftOut \subseteq leftOut' /\ gone \subseteq sent' \cup leftOut'
    BY <2>2
  <2>5. \A i \in DOMAIN shields : Covered(i) => Covered(i)'
    BY <2>3, <2>4 DEF Covered
  <2> QED
    BY <1>1, <1>2, <1>3, <1>4, <2>1, <2>5, ShieldsSettle
<1> QED
  BY <1>5, <1>6, <1>7 DEF Scan

LEMMA TickKeepsScreen ==
  ASSUME ScreenInv, Tick
  PROVE  ScreenInv'
<1>1. Types'
  BY NextKeepsTypes DEF ScreenInv, Next
<1>2. UNCHANGED <<blocked, unflagged>> /\ ~scanned'
  BY DEF Tick, blocklist
<1>3. Types
  BY DEF ScreenInv
<1>4. /\ DOMAIN shields' = DOMAIN shields
      /\ \A i \in DOMAIN shields :
           /\ shields'[i].shielder = shields[i].shielder /\ shields'[i].live = shields[i].live
           /\ shields'[i].chain = shields[i].chain /\ shields'[i].wait = shields[i].wait
           /\ shields'[i].missed >= shields[i].missed /\ shields'[i].missed \in Nat
           /\ shields[i].missed \in Nat /\ shields[i].age \in Nat /\ shields[i].wait \in Nat
           /\ Queued(i) => /\ shields'[i].age = shields[i].age + 1
                           /\ Missed(i) => shields'[i].missed = shields[i].missed + 1
  <2>1. \A i \in DOMAIN shields : shields'[i] \in ShieldType
    BY <1>3, TickedShields
  <2>2. \A i \in DOMAIN shields : shields'[i].missed \in Nat
    BY <2>1 DEF ShieldType
  <2> QED
    BY <1>3, <2>2, TickedShields, ShieldTypes
<1>5. FlagsNoted'
  BY <1>2, <1>4 DEF ScreenInv, FlagsNoted, Flagged
<1>6. FlaggedNeverLands'
  BY <1>2, <1>4 DEF ScreenInv, FlaggedNeverLands
<1>7. ASSUME NEW i \in DOMAIN shields, Kept(i)'
      PROVE  shields'[i].age <= 1 + shields'[i].missed
  <2>1. Kept(i) /\ Queued(i)
    BY <1>2, <1>4, <1>7 DEF Kept, Queued
  <2>2. shields'[i].age = shields[i].age + 1
    BY <1>4, <2>1
  <2>3. CASE shields[i].age = 0
    BY <1>4, <2>2, <2>3
  <2>4. CASE shields[i].age > 0
    <3>1. Missed(i)
      BY <2>1, <2>4 DEF ScreenInv, WaitsInTime, Covered, Missed, Waiting
    <3>2. shields[i].age <= 1 + shields[i].missed
      BY <2>1 DEF ScreenInv, WaitsInTime
    <3> QED
      BY <1>4, <2>1, <2>2, <3>1, <3>2
  <2> QED
    BY <1>4, <2>3, <2>4
<1>8. WaitsInTime'
  BY <1>2, <1>4, <1>7 DEF WaitsInTime
<1> QED
  BY <1>1, <1>5, <1>6, <1>8 DEF ScreenInv

\* A shield of an address that is listed from the moment it is queued lands
\* (executeShield, scanAndContest) only if all but one of the periods of its wait
\* were lost to scans that did not begin, died or had no room for it, or to
\* contests that were not mined.  Nothing is assumed of the wait, which is none
\* for a fast-tracked depositor and where a booth operator waives it.
THEOREM FlaggedNeverLand == Spec => []FlaggedNeverLands
<1>1. ScreenInv /\ [Next]_vars => ScreenInv'
  <2>1. ScreenInv /\ UNCHANGED vars => ScreenInv'
    BY NextKeepsTypes
       DEF vars, blocklist, screening, bounds, ScreenInv, FlagsNoted, Flagged,
           WaitsInTime, Kept, Queued, Covered, FlaggedNeverLands
  <2> QED
    BY <2>1, ListsKeepScreen, QueueKeepsScreen, ScanKeepsScreen, TickKeepsScreen DEF Next
<1>2. ScreenInv => FlaggedNeverLands
  BY DEF ScreenInv
<1> QED
  BY <1>1, <1>2, InitScreen, PTL DEF Spec
=============================================================================
