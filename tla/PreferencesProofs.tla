-------------------------- MODULE PreferencesProofs --------------------------
(***************************************************************************)
(* What a device may rely on, for any number of devices, edits and         *)
(* mishaps: its baseline is a blob the server held, dirty is the           *)
(* difference to it, and no pull takes an unpushed setting back.           *)
(*                                                                         *)
(* The invariant: a page that has loaded its record equals it, a ceremony  *)
(* holds what the server held at its revision, and no backup time lies in  *)
(* the future.                                                             *)
(***************************************************************************)
EXTENDS PreferencesSync, TLAPS

\* Preferences that somebody may have set by now.
Settable == [showTestnets : BOOLEAN, mnemonicBackedUpAt : 0 .. edits]

PageType == [cache : Settable \cup {Nothing}, synced : Settable \cup {Nothing},
             seen : 0 .. Len(served), dirty : BOOLEAN]
RecordType == [cache : Settable, synced : Settable \cup {Nothing},
               seen : 0 .. Len(served), dirty : BOOLEAN]
CeremonyType == [pc : {"idle", "pulled", "merged", "pushing", "pushed"},
                 revision : 0 .. Len(served), blob : Settable \cup {Nothing}]

Types ==
  /\ edits \in 0 .. MaxEdits /\ mishaps \in Nat
  /\ served \in Seq(Settable)
  /\ memory \in [Devices -> PageType] /\ record \in [Devices -> RecordType]
  /\ sync \in [Devices -> CeremonyType]
  /\ forgotten \subseteq Devices /\ raced \subseteq Devices

\* A ceremony holds what the server held at the revision it has read or written.
CeremonyHolds(s) ==
  /\ s.pc = "pulled" => s.revision > 0 /\ s.blob = served[s.revision]
  /\ s.pc = "pushing" => s.blob \in Settable
  /\ s.pc = "pushed" => s.revision > 0 /\ s.blob = served[s.revision]

PageIsRecord == \A d \in Devices : memory[d].cache # Nothing => memory[d] = record[d]

BaselineServed(m) == m.seen > 0 => m.synced = served[m.seen]
DirtyIsDifference(m) == m.dirty = (m.cache # OrDefault(m.synced))

PrefsInv ==
  /\ Types
  /\ \A d \in Devices : CeremonyHolds(sync[d])
  /\ PageIsRecord
  /\ \A d \in Devices : DirtyIsDifference(record[d])
  /\ \A d \in Devices \ raced : BaselineServed(memory[d]) /\ BaselineServed(record[d])

LEMMA NothingIsNotSettable == Nothing \notin Settable
BY DEF Nothing, Settable

LEMMA DefaultIsSettable ==
  ASSUME edits \in Nat PROVE Default \in Settable
BY DEF Default, Settable

LEMMA InitPrefs == Init => PrefsInv
<1> SUFFICES ASSUME Init PROVE PrefsInv
  OBVIOUS
<1>1. edits = 0 /\ edits \in 0 .. MaxEdits /\ mishaps \in Nat
  BY PreferencesAssumption DEF Init
<1>2. Default \in Settable
  BY <1>1, DefaultIsSettable
<1>3. served = << >> /\ Len(served) = 0 /\ served \in Seq(Settable)
  BY DEF Init
<1>4. Fresh \in RecordType /\ Fresh \in PageType
  BY <1>2, <1>3 DEF Fresh, Loaded, RecordType, PageType
<1>5. Idle \in CeremonyType
  BY <1>3 DEF Idle, CeremonyType
<1>6. Types
  BY <1>1, <1>3, <1>4, <1>5 DEF Types, Init
<1>7. \A d \in Devices : CeremonyHolds(sync[d])
  BY DEF Init, CeremonyHolds, Idle
<1>8. \A d \in Devices : DirtyIsDifference(record[d])
  BY DEF Init, DirtyIsDifference, Fresh, Loaded, OrDefault
<1>9. \A d \in Devices : BaselineServed(memory[d]) /\ BaselineServed(record[d])
  BY DEF Init, BaselineServed, Fresh, Loaded
<1> QED
  BY <1>6, <1>7, <1>8, <1>9 DEF PrefsInv, PageIsRecord, Init

-----------------------------------------------------------------------------
(* The clock and the log only grow *)

LEMMA TypesGrow ==
  ASSUME edits \in Nat, edits' \in Nat, edits' >= edits,
         Len(served) \in Nat, Len(served') \in Nat, Len(served') >= Len(served)
  PROVE /\ Settable \subseteq Settable'
        /\ PageType \subseteq PageType' /\ RecordType \subseteq RecordType'
        /\ CeremonyType \subseteq CeremonyType'
<1>1. 0 .. edits \subseteq 0 .. edits' /\ 0 .. Len(served) \subseteq 0 .. Len(served')
  OBVIOUS
<1>2. Settable \subseteq Settable'
  BY <1>1 DEF Settable
<1> QED
  BY <1>1, <1>2 DEF PageType, RecordType, CeremonyType

\* What is read back from a record is the record.
LEMMA ReadBack ==
  ASSUME NEW r \in RecordType, DirtyIsDifference(r)
  PROVE FromRecord(r) = r
<1>1. r.dirty = (r.cache # OrDefault(r.synced))
  BY DEF DirtyIsDifference
<1>2. CASE r.synced = Nothing
  BY <1>2 DEF FromRecord, RecordType
<1>3. CASE r.synced # Nothing
  <2>1. r.dirty = (r.cache # r.synced)
    BY <1>1, <1>3 DEF OrDefault
  <2> QED
    BY <2>1, <1>3 DEF FromRecord, RecordType
<1> QED
  BY <1>2, <1>3

LEMMA RecordIsPage == RecordType \subseteq PageType
BY DEF RecordType, PageType

\* A page that stores an honest record keeps the invariant; its baseline has
\* to be served unless it raced.
LEMMA StoreKeeps ==
  ASSUME PrefsInv, NEW d \in Devices, NEW m, m \in RecordType', Store(d, m),
         DirtyIsDifference(m), d \notin raced' => BaselineServed(m),
         edits' \in 0 .. MaxEdits, edits' >= edits, UNCHANGED <<served, mishaps>>,
         sync' \in [Devices -> CeremonyType'],
         \A e \in Devices : CeremonyHolds(sync[e])',
         raced' \subseteq Devices, raced \ {d} \subseteq raced'
  PROVE PrefsInv'
<1> USE DEF Store
<1>0. edits \in Nat /\ edits' \in Nat /\ Len(served) \in Nat /\ served \in Seq(Settable)
  BY PreferencesAssumption DEF PrefsInv, Types
<1>1. /\ Settable \subseteq Settable'
      /\ PageType \subseteq PageType' /\ RecordType \subseteq RecordType'
  BY <1>0, TypesGrow
<1>2. m \in PageType'
  BY DEF RecordType, PageType
<1>3. memory' \in [Devices -> PageType'] /\ record' \in [Devices -> RecordType']
  BY <1>1, <1>2 DEF PrefsInv, Types
<1>4. served' \in Seq(Settable')
  BY <1>0, <1>1
<1>5. forgotten' \subseteq Devices
  BY DEF PrefsInv, Types
<1>6. Types'
  BY <1>3, <1>4, <1>5 DEF Types, PrefsInv
<1>7. /\ memory'[d] = m /\ record'[d] = m
      /\ \A e \in Devices \ {d} : memory'[e] = memory[e] /\ record'[e] = record[e]
  BY DEF PrefsInv, Types
<1>8. PageIsRecord'
  BY <1>7 DEF PrefsInv, PageIsRecord
<1>9. (\A e \in Devices : DirtyIsDifference(record[e]))'
  BY <1>7 DEF PrefsInv, DirtyIsDifference
<1>10. (\A e \in Devices \ raced : BaselineServed(memory[e]) /\ BaselineServed(record[e]))'
  BY <1>7 DEF PrefsInv, BaselineServed
<1> QED
  BY <1>6, <1>8, <1>9, <1>10 DEF PrefsInv

\* A step that moves no page keeps the invariant.
LEMMA PagesStay ==
  ASSUME PrefsInv, UNCHANGED <<memory, record, edits, forgotten, raced>>,
         mishaps' \in Nat, Len(served') >= Len(served), served' \in Seq(Settable),
         \A i \in 1 .. Len(served) : served'[i] = served[i],
         sync' \in [Devices -> CeremonyType'],
         \A e \in Devices : CeremonyHolds(sync[e])'
  PROVE PrefsInv'
<1>0. edits \in Nat /\ Len(served) \in Nat /\ Len(served') \in Nat
  BY PreferencesAssumption DEF PrefsInv, Types
<1>1. /\ Settable \subseteq Settable'
      /\ PageType \subseteq PageType' /\ RecordType \subseteq RecordType'
  BY <1>0, TypesGrow
<1>2. Types'
  BY <1>1 DEF PrefsInv, Types
<1>3. (\A d \in Devices \ raced : BaselineServed(memory[d]) /\ BaselineServed(record[d]))'
  <2>1. \A d \in Devices : memory[d].seen \in 0 .. Len(served) /\ record[d].seen \in 0 .. Len(served)
    BY DEF PrefsInv, Types, PageType, RecordType
  <2> QED
    BY <2>1, <1>0 DEF PrefsInv, BaselineServed
<1> QED
  BY <1>2, <1>3 DEF PrefsInv, PageIsRecord, DirtyIsDifference

\* What every lemma on a step starts from.
LEMMA PagesOf ==
  ASSUME PrefsInv, NEW d \in Devices
  PROVE /\ memory[d] \in PageType /\ record[d] \in RecordType /\ sync[d] \in CeremonyType
        /\ edits \in Nat /\ mishaps \in Nat
        /\ served \in Seq(Settable) /\ Len(served) \in Nat
        /\ memory[d].cache # Nothing => memory[d] = record[d]
        /\ Snapshot(d) \in Settable
        /\ FromRecord(record[d]) = record[d]
        /\ Fresh \in RecordType /\ Default \in Settable
<1>1. edits \in Nat /\ mishaps \in Nat /\ served \in Seq(Settable) /\ Len(served) \in Nat
  BY PreferencesAssumption DEF PrefsInv, Types
<1>2. memory[d] \in PageType /\ record[d] \in RecordType /\ sync[d] \in CeremonyType
  BY DEF PrefsInv, Types
<1>3. memory[d].cache # Nothing => memory[d] = record[d]
  BY DEF PrefsInv, PageIsRecord
<1>4. Default \in Settable
  BY <1>1, DefaultIsSettable
<1>5. Snapshot(d) \in Settable
  BY <1>2, <1>4 DEF Snapshot, OrDefault, PageType
<1>6. FromRecord(record[d]) = record[d]
  BY <1>2, ReadBack DEF PrefsInv
<1>7. Fresh \in RecordType
  BY <1>1, <1>4 DEF Fresh, Loaded, RecordType
<1> QED
  BY <1>1, <1>2, <1>3, <1>4, <1>5, <1>6, <1>7

-----------------------------------------------------------------------------
(* The steps that read or drop a page *)

\* A page that becomes what its record says keeps the invariant.
LEMMA PageRead ==
  ASSUME PrefsInv, NEW d \in Devices,
         memory' = [memory EXCEPT ![d] = FromRecord(record[d])],
         UNCHANGED <<served, record, edits, forgotten, raced>>, mishaps' \in Nat,
         sync' \in [Devices -> CeremonyType], \A e \in Devices : CeremonyHolds(sync[e])'
  PROVE PrefsInv'
<1>1. memory' = [memory EXCEPT ![d] = record[d]] /\ record[d] \in PageType
  BY PagesOf, RecordIsPage
<1>2. memory' \in [Devices -> PageType]
  BY <1>1 DEF PrefsInv, Types
<1>3. Settable' = Settable /\ PageType' = PageType /\ RecordType' = RecordType
      /\ CeremonyType' = CeremonyType
  BY DEF Settable, PageType, RecordType, CeremonyType
<1>4. Types'
  BY <1>2, <1>3 DEF PrefsInv, Types
<1>5. memory'[d] = record[d] /\ \A e \in Devices \ {d} : memory'[e] = memory[e]
  BY <1>1 DEF PrefsInv, Types
<1>6. PageIsRecord'
  BY <1>5 DEF PrefsInv, PageIsRecord
<1>7. (\A e \in Devices \ raced : BaselineServed(memory[e]) /\ BaselineServed(record[e]))'
  BY <1>5 DEF PrefsInv, BaselineServed
<1> QED
  BY <1>4, <1>6, <1>7 DEF PrefsInv, DirtyIsDifference

LEMMA IdleHolds ==
  /\ CeremonyHolds(Idle) /\ CeremonyHolds([Idle EXCEPT !.pc = "merged"])
  /\ Len(served) \in Nat =>
       Idle \in CeremonyType /\ [Idle EXCEPT !.pc = "merged"] \in CeremonyType
BY DEF CeremonyHolds, Idle, CeremonyType

LEMMA LoadKeeps ==
  ASSUME PrefsInv, NEW d \in Devices, Load(d) PROVE PrefsInv'
<1>1. sync' \in [Devices -> CeremonyType] /\ mishaps' \in Nat
  BY DEF Load, PrefsInv, Types
<1>2. \A e \in Devices : CeremonyHolds(sync[e])'
  BY DEF Load, PrefsInv, CeremonyHolds, Settable
<1> QED
  BY <1>1, <1>2, PageRead DEF Load

LEMMA ReloadKeeps ==
  ASSUME PrefsInv, NEW d \in Devices, Reload(d) PROVE PrefsInv'
<1>1. sync' \in [Devices -> CeremonyType] /\ mishaps' \in Nat
  BY IdleHolds, PagesOf DEF Reload, Mishap, PrefsInv, Types
<1>2. \A e \in Devices : sync'[e] = Idle \/ sync'[e] = sync[e]
  BY DEF Reload, PrefsInv, Types
<1>3. \A e \in Devices : CeremonyHolds(sync[e])'
  BY <1>2, IdleHolds DEF Reload, PrefsInv, CeremonyHolds, Settable, Idle
<1> QED
  BY <1>1, <1>3, PageRead DEF Reload

LEMMA SignOutKeeps ==
  ASSUME PrefsInv, NEW d \in Devices, SignOut(d) PROVE PrefsInv'
<1>1. NotLoaded \in PageType
  BY PagesOf DEF NotLoaded, Loaded, PageType
<1>2. Settable' = Settable /\ PageType' = PageType /\ RecordType' = RecordType
      /\ CeremonyType' = CeremonyType
  BY DEF SignOut, Settable, PageType, RecordType, CeremonyType
<1>3. Types'
  <2>1. mishaps' \in Nat
    BY PagesOf DEF SignOut, Mishap
  <2>2. memory' \in [Devices -> PageType]
    BY <1>1 DEF SignOut, PrefsInv, Types
  <2> QED
    BY <2>1, <2>2, <1>2 DEF SignOut, PrefsInv, Types
<1>4. memory'[d] = NotLoaded /\ \A e \in Devices \ {d} : memory'[e] = memory[e]
  BY DEF SignOut, PrefsInv, Types
<1>5. PageIsRecord'
  BY <1>4 DEF SignOut, PrefsInv, PageIsRecord, NotLoaded, Loaded
<1>6. \A e \in Devices : CeremonyHolds(sync[e])'
  BY DEF SignOut, PrefsInv, CeremonyHolds, Settable
<1>7. (\A e \in Devices \ raced : BaselineServed(memory[e]) /\ BaselineServed(record[e]))'
  BY <1>4 DEF SignOut, PrefsInv, BaselineServed, NotLoaded, Loaded
<1> QED
  BY <1>3, <1>5, <1>6, <1>7 DEF PrefsInv, SignOut, DirtyIsDifference

-----------------------------------------------------------------------------
(* The steps of a ceremony that leave the pages alone *)

\* One ceremony moves on; its new state holds what it has to.
LEMMA CeremonyMoves ==
  ASSUME PrefsInv, NEW d \in Devices, NEW s \in CeremonyType, CeremonyHolds(s),
         sync' = [sync EXCEPT ![d] = s], mishaps' \in Nat,
         UNCHANGED <<served, memory, record, edits, forgotten, raced>>
  PROVE PrefsInv'
<1>1. CeremonyType' = CeremonyType
  BY DEF CeremonyType, Settable
<1>2. sync' \in [Devices -> CeremonyType']
  BY <1>1 DEF PrefsInv, Types
<1>3. \A e \in Devices : sync'[e] = s \/ sync'[e] = sync[e]
  BY DEF PrefsInv, Types
<1>4. \A e \in Devices : CeremonyHolds(sync[e])'
  BY <1>3 DEF PrefsInv, CeremonyHolds, Settable
<1>5. served \in Seq(Settable) /\ Len(served) \in Nat
  BY PagesOf
<1> QED
  BY <1>2, <1>4, <1>5, PagesStay

LEMMA PullReadKeeps ==
  ASSUME PrefsInv, NEW d \in Devices, PullRead(d) PROVE PrefsInv'
<1>1. CASE served = << >>
  BY <1>1, CeremonyMoves, IdleHolds, PagesOf DEF PullRead
<1>2. CASE served # << >>
  <2> DEFINE s == [pc |-> "pulled", revision |-> Len(served), blob |-> served[Len(served)]]
  <2>1. Len(served) > 0 /\ served[Len(served)] \in Settable
    BY <1>2, PagesOf
  <2>2. s \in CeremonyType /\ CeremonyHolds(s)
    <3>1. Len(served) \in 0 .. Len(served)
      BY <2>1, PagesOf
    <3>2. s \in CeremonyType
      BY <2>1, <3>1 DEF CeremonyType
    <3> QED
      BY <2>1, <3>2 DEF CeremonyHolds
  <2>3. sync' = [sync EXCEPT ![d] = s]
    BY <1>2 DEF PullRead
  <2>4. mishaps' \in Nat /\ UNCHANGED <<served, memory, record, edits, forgotten, raced>>
    BY PagesOf DEF PullRead
  <2> HIDE DEF s
  <2> QED
    BY <2>2, <2>3, <2>4, CeremonyMoves
<1> QED
  BY <1>1, <1>2

LEMMA PushStartKeeps ==
  ASSUME PrefsInv, NEW d \in Devices, PushStart(d) PROVE PrefsInv'
<1> DEFINE s == IF memory[d].dirty THEN [Idle EXCEPT !.pc = "pushing", !.blob = Snapshot(d)]
                ELSE Idle
<1>1. s \in CeremonyType /\ CeremonyHolds(s)
  <2>1. Snapshot(d) \in Settable /\ Len(served) \in Nat
    BY PagesOf
  <2>2. CASE memory[d].dirty
    <3>1. s = [Idle EXCEPT !.pc = "pushing", !.blob = Snapshot(d)] /\ Idle \in CeremonyType
      BY <2>1, <2>2, IdleHolds
    <3> HIDE DEF s
    <3>2. s \in CeremonyType /\ s.pc = "pushing" /\ s.blob = Snapshot(d)
      BY <2>1, <3>1 DEF CeremonyType
    <3> QED
      BY <2>1, <3>2 DEF CeremonyHolds
  <2>3. CASE ~memory[d].dirty
    BY <2>1, <2>3, IdleHolds
  <2> QED
    BY <2>2, <2>3
<1>2. sync' = [sync EXCEPT ![d] = s]
  BY DEF PushStart
<1>3. mishaps' \in Nat /\ UNCHANGED <<served, memory, record, edits, forgotten, raced>>
  BY PagesOf DEF PushStart
<1> HIDE DEF s
<1> QED
  BY <1>1, <1>2, <1>3, CeremonyMoves

LEMMA SyncFailsKeeps ==
  ASSUME PrefsInv, NEW d \in Devices, SyncFails(d) PROVE PrefsInv'
<1>1. mishaps' \in Nat
  BY PagesOf DEF SyncFails, Mishap
<1>2. Idle \in CeremonyType /\ CeremonyHolds(Idle)
  BY IdleHolds, PagesOf
<1> QED
  BY <1>1, <1>2, CeremonyMoves DEF SyncFails

-----------------------------------------------------------------------------
(* The steps that write a page *)

LEMMA SetPrefKeeps ==
  ASSUME PrefsInv, NEW d \in Devices, SetPref(d) PROVE PrefsInv'
<1>1. /\ edits < MaxEdits /\ edits' = edits + 1
      /\ UNCHANGED <<served, sync, mishaps, raced>>
  BY DEF SetPref
<1>2. PICK new \in {[Snapshot(d) EXCEPT !.showTestnets = ~@],
                    [Snapshot(d) EXCEPT !.mnemonicBackedUpAt = edits + 1]} :
        Store(d, [memory[d] EXCEPT !.cache = new,
                                   !.dirty = new # OrDefault(memory[d].synced)])
  BY DEF SetPref
<1> DEFINE m == [memory[d] EXCEPT !.cache = new,
                                  !.dirty = new # OrDefault(memory[d].synced)]
<1>3. edits' \in 0 .. MaxEdits /\ edits' >= edits
  BY <1>1, PagesOf, PreferencesAssumption
<1>4. /\ Settable \subseteq Settable' /\ PageType \subseteq PageType'
      /\ CeremonyType \subseteq CeremonyType'
  BY <1>1, <1>3, PagesOf, TypesGrow
<1>5. new \in Settable'
  <2>1. Snapshot(d) \in Settable /\ edits \in Nat
    BY PagesOf
  <2>2. edits + 1 \in 0 .. edits' /\ 0 .. edits \subseteq 0 .. edits'
    BY <1>1, <2>1
  <2>3. CASE new = [Snapshot(d) EXCEPT !.showTestnets = ~@]
    BY <2>1, <2>2, <2>3 DEF Settable
  <2>4. CASE new = [Snapshot(d) EXCEPT !.mnemonicBackedUpAt = edits + 1]
    BY <2>1, <2>2, <2>4 DEF Settable
  <2> QED
    BY <1>2, <2>3, <2>4
<1>6. memory[d] \in PageType'
  BY <1>4, PagesOf
<1>7. /\ m \in RecordType' /\ m.cache = new /\ m.synced = memory[d].synced
      /\ m.seen = memory[d].seen /\ m.dirty = (new # OrDefault(memory[d].synced))
  <2>1. PICK dirty \in BOOLEAN : dirty = (new # OrDefault(memory[d].synced))
    OBVIOUS
  <2>2. m = [memory[d] EXCEPT !.cache = new, !.dirty = dirty]
    BY <2>1
  <2> HIDE DEF m
  <2>3. /\ m \in RecordType' /\ m.cache = new /\ m.synced = memory[d].synced
        /\ m.seen = memory[d].seen /\ m.dirty = dirty
    BY <1>5, <1>6, <2>2 DEF PageType, RecordType
  <2> QED
    BY <2>1, <2>3
<1>8. m \in RecordType' /\ DirtyIsDifference(m)
  <2> HIDE DEF m
  <2> QED
    BY <1>7 DEF DirtyIsDifference
<1>9. d \notin raced' => BaselineServed(m)
  <2> HIDE DEF m
  <2> QED
    BY <1>1, <1>7 DEF PrefsInv, BaselineServed
<1>10. sync' \in [Devices -> CeremonyType'] /\ \A e \in Devices : CeremonyHolds(sync[e])'
  <2>1. sync' \in [Devices -> CeremonyType']
    BY <1>1, <1>4 DEF PrefsInv, Types
  <2>2. \A e \in Devices : CeremonyHolds(sync[e])'
    BY <1>1, <1>4 DEF PrefsInv, CeremonyHolds
  <2> QED
    BY <2>1, <2>2
<1>11. raced' \subseteq Devices
  BY <1>1 DEF PrefsInv, Types
<1>12. Store(d, m)
  BY <1>2
<1> HIDE DEF m
<1> QED
  BY <1>1, <1>3, <1>8, <1>9, <1>10, <1>11, <1>12, StoreKeeps

\* What a pull leaves behind of the server's settings and the page's.
LEMMA MergeIsSettable ==
  ASSUME edits \in Nat, NEW u \in Settable, NEW l \in Settable, NEW dirty \in BOOLEAN
  PROVE /\ MergePrefs(u, l, dirty) \in Settable
        /\ dirty => MergePrefs(u, l, dirty).showTestnets = l.showTestnets
        /\ MergePrefs(u, l, dirty).mnemonicBackedUpAt >= l.mnemonicBackedUpAt
<1>1. u.mnemonicBackedUpAt \in 0 .. edits /\ l.mnemonicBackedUpAt \in 0 .. edits
  BY DEF Settable
<1>2. CASE dirty
  BY <1>1, <1>2 DEF Settable, MergePrefs
<1>3. CASE ~dirty
  BY <1>1, <1>3 DEF Settable, MergePrefs
<1> QED
  BY <1>2, <1>3

LEMMA PullMergeKeeps ==
  ASSUME PrefsInv, NEW d \in Devices, PullMerge(d) PROVE PrefsInv'
<1> DEFINE row == sync[d]
           merged == MergePrefs(row.blob, Snapshot(d), memory[d].dirty)
           m == Loaded(merged, row.blob, row.revision, merged # row.blob)
           s == [Idle EXCEPT !.pc = "merged"]
<1>1. row.pc = "pulled" /\ sync' = [sync EXCEPT ![d] = s]
      /\ UNCHANGED <<served, edits, mishaps>>
  BY DEF PullMerge
<1>2. s \in CeremonyType /\ CeremonyHolds(s)
  BY IdleHolds, PagesOf
<1>3. mishaps' \in Nat
  BY <1>1, PagesOf
<1>4. CASE ~IsNews(d)
  <2>1. UNCHANGED <<memory, record, forgotten, raced>>
    BY <1>4 DEF PullMerge
  <2> HIDE DEF s
  <2> QED
    BY <1>1, <1>2, <1>3, <2>1, CeremonyMoves
<1>5. CASE IsNews(d)
  <2>1. Store(d, m) /\ raced' = raced \ {d}
    BY <1>5 DEF PullMerge, ApplyPulledPrefs
  <2>2. row.revision > 0 /\ row.blob = served[row.revision] /\ row \in CeremonyType
    BY <1>1, PagesOf DEF PrefsInv, CeremonyHolds
  <2>3. row.revision \in 0 .. Len(served) /\ row.blob \in Settable
    <3>1. row.revision \in 1 .. Len(served)
      BY <2>2, PagesOf DEF CeremonyType
    <3> QED
      BY <2>2, <3>1, PagesOf
  <2>4. merged \in Settable
    BY <2>3, PagesOf, MergeIsSettable DEF PageType
  <2>5. Settable' = Settable /\ RecordType' = RecordType /\ CeremonyType' = CeremonyType
    BY <1>1 DEF Settable, RecordType, CeremonyType
  <2>6. m \in RecordType'
    <3> HIDE DEF merged
    <3> QED
      BY <2>3, <2>4, <2>5 DEF Loaded, RecordType
  <2>7. DirtyIsDifference(m)
    <3>1. row.blob # Nothing
      BY <2>3, NothingIsNotSettable
    <3> HIDE DEF merged
    <3> QED
      BY <3>1 DEF DirtyIsDifference, Loaded, OrDefault
  <2>8. BaselineServed(m)
    BY <2>2 DEF BaselineServed, Loaded
  <2>9. sync' \in [Devices -> CeremonyType']
    BY <1>1, <1>2, <2>5 DEF PrefsInv, Types
  <2>10. \A e \in Devices : sync'[e] = s \/ sync'[e] = sync[e]
    BY <1>1 DEF PrefsInv, Types
  <2>11. \A e \in Devices : CeremonyHolds(sync[e])'
    BY <1>1, <1>2, <2>5, <2>10 DEF PrefsInv, CeremonyHolds
  <2>12. edits' \in 0 .. MaxEdits /\ edits' >= edits
    BY <1>1, PagesOf DEF PrefsInv, Types
  <2>13. raced' \subseteq Devices /\ raced \ {d} \subseteq raced'
    BY <2>1 DEF PrefsInv, Types
  <2> HIDE DEF m
  <2> QED
    BY <1>1, <2>1, <2>6, <2>7, <2>8, <2>9, <2>11, <2>12, <2>13, StoreKeeps
<1> QED
  BY <1>4, <1>5

LEMMA WriteKeeps ==
  ASSUME PrefsInv, NEW d \in Devices, WriteEncryptedPreferences(d) PROVE PrefsInv'
<1> DEFINE s == [sync[d] EXCEPT !.pc = "pushed", !.revision = NextRevision]
<1>1. /\ sync[d].pc = "pushing" /\ served' = Append(served, sync[d].blob)
      /\ UNCHANGED <<memory, record, edits, mishaps, forgotten, raced>>
  BY DEF WriteEncryptedPreferences
<1>2. sync' = [sync EXCEPT ![d] = s]
  BY DEF WriteEncryptedPreferences, PrefsInv, Types, CeremonyType
<1>3. sync[d].blob \in Settable /\ sync[d] \in CeremonyType
  BY <1>1, PagesOf DEF PrefsInv, CeremonyHolds
<1>4. /\ Len(served') = Len(served) + 1 /\ served' \in Seq(Settable)
      /\ \A i \in 1 .. Len(served) : served'[i] = served[i]
      /\ served'[Len(served) + 1] = sync[d].blob
  BY <1>1, <1>3, PagesOf
<1>5. Settable' = Settable
  BY <1>1 DEF Settable
<1>6. CeremonyType \subseteq CeremonyType'
  BY <1>1, <1>4, PagesOf, TypesGrow
<1>7. s.pc = "pushed" /\ s.revision = Len(served) + 1 /\ s.blob = sync[d].blob
  BY <1>3 DEF CeremonyType, NextRevision
<1>8. s \in CeremonyType' /\ s.pc = "pushed" /\ s.revision > 0 /\ s.blob = served'[s.revision]
  <2>1. Len(served) + 1 \in 0 .. Len(served') /\ Len(served) + 1 > 0
    BY <1>4, PagesOf
  <2>2. sync[d] \in CeremonyType' /\ NextRevision \in 0 .. Len(served')
    BY <1>3, <1>6, <2>1 DEF NextRevision
  <2>3. s \in CeremonyType'
    BY <2>2 DEF CeremonyType
  <2> HIDE DEF s
  <2> QED
    BY <1>4, <1>7, <2>1, <2>3
<1>9. sync' \in [Devices -> CeremonyType']
  BY <1>2, <1>6, <1>8 DEF PrefsInv, Types
<1>10. ASSUME NEW e \in Devices PROVE CeremonyHolds(sync[e])'
  <2>1. CASE e = d
    <3>1. sync'[e] = s
      BY <1>2, <2>1 DEF PrefsInv, Types
    <3> QED
      BY <3>1, <1>8 DEF CeremonyHolds
  <2>2. CASE e # d
    <3>1. sync'[e] = sync[e] /\ CeremonyHolds(sync[e]) /\ sync[e].revision \in 0 .. Len(served)
      BY <1>2, <2>2, PagesOf DEF PrefsInv, Types, CeremonyType
    <3>2. sync[e].revision > 0 => served'[sync[e].revision] = served[sync[e].revision]
      BY <3>1, <1>4, PagesOf
    <3> QED
      BY <3>1, <3>2, <1>5 DEF CeremonyHolds
  <2> QED
    BY <2>1, <2>2
<1>11. mishaps' \in Nat /\ Len(served') >= Len(served)
  BY <1>1, <1>4, PagesOf
<1> HIDE DEF s
<1> QED
  BY <1>1, <1>4, <1>9, <1>10, <1>11, PagesStay

LEMMA MarkPushedKeeps ==
  ASSUME PrefsInv, NEW d \in Devices, MarkPushed(d) PROVE PrefsInv'
<1> DEFINE cache == memory[d].cache
           m == Loaded(cache, cache, sync[d].revision, FALSE)
<1>1. sync[d].pc = "pushed" /\ sync' = [sync EXCEPT ![d] = Idle]
      /\ UNCHANGED <<served, edits, mishaps>>
  BY DEF MarkPushed
<1>2. Idle \in CeremonyType /\ CeremonyHolds(Idle)
  BY IdleHolds, PagesOf
<1>3. mishaps' \in Nat
  BY <1>1, PagesOf
<1>4. CASE cache = Nothing
  <2>1. UNCHANGED <<memory, record, forgotten, raced>>
    BY <1>4 DEF MarkPushed
  <2> QED
    BY <1>1, <1>2, <1>3, <2>1, CeremonyMoves
<1>5. CASE cache # Nothing
  <2>1. /\ Store(d, m)
        /\ raced' = IF cache = sync[d].blob THEN raced \ {d} ELSE raced \cup {d}
    BY <1>5 DEF MarkPushed
  <2>2. cache \in Settable
    BY <1>5, PagesOf DEF PageType
  <2>3. sync[d].blob = served[sync[d].revision] /\ sync[d].revision \in 0 .. Len(served)
    BY <1>1, PagesOf DEF PrefsInv, CeremonyHolds, CeremonyType
  <2>4. Settable' = Settable /\ RecordType' = RecordType /\ CeremonyType' = CeremonyType
    BY <1>1 DEF Settable, RecordType, CeremonyType
  <2>5. m \in RecordType' /\ DirtyIsDifference(m)
    BY <2>2, <2>3, <2>4, <1>5 DEF Loaded, RecordType, DirtyIsDifference, OrDefault
  <2>6. d \notin raced' => BaselineServed(m)
    BY <2>1, <2>3 DEF BaselineServed, Loaded
  <2>7. sync' \in [Devices -> CeremonyType']
    BY <1>1, <1>2, <2>4 DEF PrefsInv, Types
  <2>8. \A e \in Devices : sync'[e] = Idle \/ sync'[e] = sync[e]
    BY <1>1 DEF PrefsInv, Types
  <2>9. \A e \in Devices : CeremonyHolds(sync[e])'
    BY <1>1, <1>2, <2>4, <2>8 DEF PrefsInv, CeremonyHolds
  <2>10. edits' \in 0 .. MaxEdits /\ edits' >= edits
    BY <1>1, PagesOf DEF PrefsInv, Types
  <2>11. raced' \subseteq Devices /\ raced \ {d} \subseteq raced'
    BY <2>1 DEF PrefsInv, Types
  <2> HIDE DEF m
  <2> QED
    BY <1>1, <2>1, <2>5, <2>6, <2>7, <2>9, <2>10, <2>11, StoreKeeps
<1> QED
  BY <1>4, <1>5

-----------------------------------------------------------------------------
(* The invariant of the specification, and what follows from it *)

LEMMA NextKeeps == PrefsInv /\ [Next]_vars => PrefsInv'
<1> SUFFICES ASSUME PrefsInv, [Next]_vars PROVE PrefsInv'
  OBVIOUS
<1>1. CASE UNCHANGED vars
  BY <1>1 DEF vars, PrefsInv, Types, PageIsRecord, DirtyIsDifference, BaselineServed,
     CeremonyHolds, Settable, PageType, RecordType, CeremonyType
<1>2. ASSUME NEW d \in Devices,
             \/ Load(d) \/ SetPref(d) \/ PullRead(d) \/ Ceremony(d)
             \/ SyncFails(d) \/ SignOut(d) \/ Reload(d)
      PROVE PrefsInv'
  <2>1. CASE Ceremony(d)
    BY <2>1, PullMergeKeeps, PushStartKeeps, WriteKeeps, MarkPushedKeeps DEF Ceremony
  <2> QED
    BY <1>2, <2>1, LoadKeeps, SetPrefKeeps, PullReadKeeps, SyncFailsKeeps, SignOutKeeps,
       ReloadKeeps
<1> QED
  BY <1>1, <1>2 DEF Next

LEMMA PrefsInvariant == Spec => []PrefsInv
BY InitPrefs, NextKeeps, PTL DEF Spec

LEMMA InvIsTyped == PrefsInv => TypeOK
<1> SUFFICES ASSUME PrefsInv PROVE TypeOK
  OBVIOUS
<1>1. Settable \subseteq Prefs
  BY PreferencesAssumption DEF PrefsInv, Types, Settable, Prefs
<1>2. served \in Seq(Settable) /\ served \in Seq(Prefs) /\ Len(served) \in Nat
  BY <1>1 DEF PrefsInv, Types
<1>3. 0 .. Len(served) \subseteq Nat
  BY <1>2
<1>4. /\ PageType \subseteq StoredType /\ RecordType \subseteq StoredType
      /\ CeremonyType \subseteq SyncType
  BY <1>1, <1>3 DEF PageType, RecordType, CeremonyType, StoredType, SyncType
<1>5. \A d \in Devices :
        {memory[d].seen, record[d].seen, sync[d].revision} \subseteq 0 .. Len(served)
  BY DEF PrefsInv, Types, PageType, RecordType, CeremonyType
<1> QED
  BY <1>2, <1>4, <1>5 DEF PrefsInv, Types, TypeOK

\* The pages, the records and the ceremonies are well formed at every moment,
\* and none has seen a revision the server never gave
\* (src/lib/preferences.ts, preferences-sync.ts).
THEOREM PreferencesTyped == Spec => []TypeOK
BY PrefsInvariant, InvIsTyped, PTL

LEMMA InvIsHonest == PrefsInv => BaselineIsServers
BY DEF PrefsInv, BaselineIsServers, Honest, BaselineServed, DirtyIsDifference, PageIsRecord

\* A page's baseline is the blob the server held at the revision it has seen and
\* dirty is the difference to it, through every pull, push, sign-out and reload
\* (applyPulledPrefs, markPushed, loadFromIdb).
THEOREM BaselineTheorem == Spec => []BaselineIsServers
BY PrefsInvariant, InvIsHonest, PTL

-----------------------------------------------------------------------------
(* What no device loses *)

\* The record of a device keeps its settings and its backup time.
Keeps(d) ==
  /\ (record[d].dirty /\ edits' = edits)
       => record'[d].cache.showTestnets = record[d].cache.showTestnets
  /\ record'[d].cache.mnemonicBackedUpAt >= record[d].cache.mnemonicBackedUpAt

LEMMA UntouchedKeeps ==
  ASSUME PrefsInv, NEW d \in Devices, record'[d] = record[d] PROVE Keeps(d)
<1>1. record[d].cache.mnemonicBackedUpAt \in 0 .. edits /\ edits \in Nat
  BY PagesOf DEF RecordType, Settable
<1> QED
  BY <1>1 DEF Keeps

\* A page that writes over a record knows it, or the record is the first one.
LEMMA PageKnowsRecord ==
  ASSUME PrefsInv, NEW d \in Devices, NEW m, Store(d, m), d \notin forgotten'
  PROVE /\ record'[d] = m /\ \A e \in Devices \ {d} : record'[e] = record[e]
        /\ record[d].cache = Snapshot(d)
        /\ record[d].dirty => memory[d].dirty
        /\ Snapshot(d).mnemonicBackedUpAt \in 0 .. edits
<1>1. record'[d] = m /\ \A e \in Devices \ {d} : record'[e] = record[e]
  BY DEF Store, PrefsInv, Types
<1>2. memory[d].cache # Nothing \/ record[d] = Fresh
  BY DEF Store
<1>3. CASE memory[d].cache # Nothing
  <2>1. memory[d] = record[d]
    BY <1>3, PagesOf
  <2>2. Snapshot(d) = memory[d].cache
    BY <1>3 DEF Snapshot, OrDefault
  <2> QED
    BY <1>1, <2>1, <2>2, PagesOf DEF Settable
<1>4. CASE memory[d].cache = Nothing
  <2>1. record[d] = Fresh /\ Snapshot(d) = Default
    BY <1>2, <1>4 DEF Snapshot, OrDefault
  <2> QED
    BY <1>1, <2>1, PagesOf DEF Settable, Fresh, Loaded
<1> QED
  BY <1>3, <1>4

LEMMA SetPrefLoses ==
  ASSUME PrefsInv, NEW d \in Devices, SetPref(d), NEW e \in Devices \ forgotten'
  PROVE Keeps(e)
<1>1. edits' = edits + 1 /\ edits \in Nat
  BY PagesOf DEF SetPref
<1>2. PICK new \in {[Snapshot(d) EXCEPT !.showTestnets = ~@],
                    [Snapshot(d) EXCEPT !.mnemonicBackedUpAt = edits + 1]} :
        Store(d, [memory[d] EXCEPT !.cache = new,
                                   !.dirty = new # OrDefault(memory[d].synced)])
  BY DEF SetPref
<1> DEFINE m == [memory[d] EXCEPT !.cache = new,
                                  !.dirty = new # OrDefault(memory[d].synced)]
<1>3. m.cache = new
  BY PagesOf DEF PageType
<1>4. Store(d, m)
  BY <1>2
<1> HIDE DEF m
<1>5. CASE e = d
  <2>1. /\ record'[d] = m /\ record[d].cache = Snapshot(d)
        /\ Snapshot(d).mnemonicBackedUpAt \in 0 .. edits
    BY <1>4, <1>5, PageKnowsRecord
  <2>2. new.mnemonicBackedUpAt >= Snapshot(d).mnemonicBackedUpAt
    <3>1. Snapshot(d) \in Settable
      BY PagesOf
    <3> QED
      BY <1>1, <1>2, <2>1, <3>1 DEF Settable
  <2> QED
    BY <1>1, <1>3, <1>5, <2>1, <2>2 DEF Keeps
<1>6. CASE e # d
  <2>1. record'[e] = record[e]
    BY <1>4, <1>6 DEF Store, PrefsInv, Types
  <2> QED
    BY <2>1, UntouchedKeeps
<1> QED
  BY <1>5, <1>6

LEMMA PullMergeLoses ==
  ASSUME PrefsInv, NEW d \in Devices, PullMerge(d), NEW e \in Devices \ forgotten'
  PROVE Keeps(e)
<1> DEFINE row == sync[d]
           merged == MergePrefs(row.blob, Snapshot(d), memory[d].dirty)
           m == Loaded(merged, row.blob, row.revision, merged # row.blob)
<1>1. CASE ~IsNews(d)
  BY <1>1, UntouchedKeeps DEF PullMerge
<1>2. CASE IsNews(d)
  <2>1. Store(d, m)
    BY <1>2 DEF PullMerge, ApplyPulledPrefs
  <2>2. row.blob \in Settable
    <3>1. row.pc = "pulled" /\ row \in CeremonyType
      BY PagesOf DEF PullMerge
    <3>2. row.blob = served[row.revision] /\ row.revision \in 1 .. Len(served)
      BY <3>1, PagesOf DEF PrefsInv, CeremonyHolds, CeremonyType
    <3> QED
      BY <3>2, PagesOf
  <2>3. /\ memory[d].dirty => merged.showTestnets = Snapshot(d).showTestnets
        /\ merged.mnemonicBackedUpAt >= Snapshot(d).mnemonicBackedUpAt
    <3>1. edits \in Nat /\ Snapshot(d) \in Settable /\ memory[d].dirty \in BOOLEAN
      BY PagesOf DEF PageType
    <3> QED
      BY <2>2, <3>1, MergeIsSettable
  <2>4. m.cache = merged
    BY DEF Loaded
  <2> HIDE DEF m, merged
  <2>5. CASE e = d
    <3>1. /\ record'[d] = m /\ record[d].cache = Snapshot(d)
          /\ record[d].dirty => memory[d].dirty
      BY <2>1, <2>5, PageKnowsRecord
    <3> QED
      BY <2>3, <2>4, <2>5, <3>1 DEF Keeps
  <2>6. CASE e # d
    <3>1. record'[e] = record[e]
      BY <2>1, <2>6 DEF Store, PrefsInv, Types
    <3> QED
      BY <3>1, UntouchedKeeps
  <2> QED
    BY <2>5, <2>6
<1> QED
  BY <1>1, <1>2

LEMMA MarkPushedLoses ==
  ASSUME PrefsInv, NEW d \in Devices, MarkPushed(d), NEW e \in Devices \ forgotten'
  PROVE Keeps(e)
<1> DEFINE cache == memory[d].cache
           m == Loaded(cache, cache, sync[d].revision, FALSE)
<1>1. CASE cache = Nothing
  BY <1>1, UntouchedKeeps DEF MarkPushed
<1>2. CASE cache # Nothing
  <2>1. Store(d, m)
    BY <1>2 DEF MarkPushed
  <2>2. m.cache = cache
    BY DEF Loaded
  <2> HIDE DEF m
  <2>3. CASE e = d
    <3>1. record'[d] = m /\ record[d].cache = cache
      BY <1>2, <2>1, <2>3, PageKnowsRecord, PagesOf
    <3>2. record[d].cache.mnemonicBackedUpAt \in 0 .. edits /\ edits \in Nat
      BY PagesOf DEF RecordType, Settable
    <3> QED
      BY <2>2, <2>3, <3>1, <3>2 DEF Keeps
  <2>4. CASE e # d
    <3>1. record'[e] = record[e]
      BY <2>1, <2>4 DEF Store, PrefsInv, Types
    <3> QED
      BY <3>1, UntouchedKeeps
  <2> QED
    BY <2>3, <2>4
<1> QED
  BY <1>1, <1>2

LEMMA NextLosesNothing ==
  ASSUME PrefsInv, [Next]_vars, NEW e \in Devices \ forgotten'
  PROVE Keeps(e)
<1>1. CASE UNCHANGED record
  BY <1>1, UntouchedKeeps
<1>2. ASSUME NEW d \in Devices,
             \/ Load(d) \/ SetPref(d) \/ PullRead(d) \/ Ceremony(d)
             \/ SyncFails(d) \/ SignOut(d) \/ Reload(d)
      PROVE Keeps(e)
  <2>1. CASE SetPref(d)
    BY <2>1, SetPrefLoses
  <2>2. CASE PullMerge(d)
    BY <2>2, PullMergeLoses
  <2>3. CASE MarkPushed(d)
    BY <2>3, MarkPushedLoses
  <2>4. CASE UNCHANGED record
    BY <2>4, UntouchedKeeps
  <2> QED
    BY <1>2, <2>1, <2>2, <2>3, <2>4
       DEF Ceremony, Load, PullRead, PushStart, WriteEncryptedPreferences, SyncFails,
           SignOut, Reload
<1> QED
  BY <1>1, <1>2 DEF Next, vars

\* No pull, push, reload or sign-out takes an unpushed setting back or forgets
\* that the wallet was backed up, except on a device that wrote before it had
\* loaded its record (mergePrefs, applyPulledPrefs, markPushed).
THEOREM UnpushedTheorem == Spec => UnpushedSettingsStay
<1>1. ASSUME PrefsInv, [Next]_vars
      PROVE [\A d \in Devices \ forgotten' :
               LET old == record[d] new == record'[d] IN
               /\ (old.dirty /\ edits' = edits)
                    => new.cache.showTestnets = old.cache.showTestnets
               /\ new.cache.mnemonicBackedUpAt >= old.cache.mnemonicBackedUpAt]_vars
  BY <1>1, NextLosesNothing DEF Keeps
<1> QED
  BY <1>1, PrefsInvariant, PTL DEF Spec, UnpushedSettingsStay
=============================================================================
