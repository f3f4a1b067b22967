---------------------------- MODULE WalletProofs ----------------------------
(***************************************************************************)
(* What the notes of a device guarantee for any number of notes, and       *)
(* whatever overlaps, reloads and evictions there are: what they say is    *)
(* true of the chain, they only go forward, and no shield that the sync    *)
(* is done with is missing.                                                *)
(***************************************************************************)
EXTENDS WalletSync, Integers, FiniteSets, FiniteSetsExt, Functions, FiniteSetTheorems,
        WellFoundedInduction, TLAPS

-----------------------------------------------------------------------------
(* Finite sets: greatest element, images *)

\* A finite set of numbers has a greatest element: of the subsets that do not,
\* a smallest one would still not have one without one of its elements.
LEMMA MaxOfFinite ==
  ASSUME NEW S \in SUBSET Nat, IsFiniteSet(S), S # {}
  PROVE  Max(S) \in S /\ \A y \in S : y <= Max(S)
<1> DEFINE HasMax(X) == \E m \in X : \A y \in X : m >= y
           Bad == {X \in SUBSET S : X # {} /\ ~ HasMax(X)}
<1>1. ASSUME S \in Bad PROVE FALSE
  <2>1. PICK X \in Bad : \A Y \in Bad : <<Y, X>> \notin StrictSubsetOrdering(S)
    <3>1. Bad \subseteq FiniteSubsetsOf(S) /\ Bad # {}
      BY <1>1, FS_FiniteSubsetsOfFinite
    <3>2. IsWellFoundedOn(StrictSubsetOrdering(S), FiniteSubsetsOf(S))
      BY FS_StrictSubsetOrderingWellFounded
    <3> HIDE DEF Bad
    <3> QED
      BY <3>1, <3>2, WFMin
  <2>2. PICK x \in X : TRUE
    OBVIOUS
  <2>3. X \ {x} \in SUBSET S /\ <<X \ {x}, X>> \in StrictSubsetOrdering(S)
    BY <2>2 DEF StrictSubsetOrdering
  <2>4. X \ {x} = {} \/ HasMax(X \ {x})
    <3>1. X \ {x} \notin Bad
      <4> HIDE DEF Bad
      <4> QED
        BY <2>1, <2>3
    <3> QED
      BY <2>3, <3>1
  <2>5. CASE X \ {x} = {}
    BY <2>2, <2>5
  <2>6. CASE HasMax(X \ {x})
    <3>1. PICK m \in X \ {x} : \A y \in X \ {x} : m >= y
      BY <2>6
    <3>2. CASE m >= x
      BY <3>1, <3>2
    <3>3. CASE x >= m
      <4>1. \A y \in X : x >= y
        BY <2>2, <3>1, <3>3
      <4> QED
        BY <2>2, <4>1
    <3> QED
      BY <2>2, <3>1, <3>2, <3>3
  <2> QED
    BY <2>4, <2>5, <2>6
<1>2. PICK m \in S : \A y \in S : m >= y
  BY <1>1
<1>3. Max(S) \in S /\ \A y \in S : Max(S) >= y
  BY <1>2 DEF Max
<1> QED
  BY <1>3

LEMMA ImageFinite ==
  ASSUME NEW S, IsFiniteSet(S), NEW f, S \subseteq DOMAIN f
  PROVE  IsFiniteSet({f[x] : x \in S})
<1> DEFINE g == [x \in S |-> f[x]]
<1>1. g \in Surjection(S, {f[x] : x \in S})
  BY DEF Surjection
<1> QED
  BY <1>1, FS_Surjection

-----------------------------------------------------------------------------
(* Lists: functions from some of the notes *)

Lists(R) == UNION {[S -> R] : S \in SUBSET Notes}

LEMMA EmptyIsList ==
  ASSUME NEW R PROVE << >> \in Lists(R) /\ DOMAIN << >> = {}
<1>1. << >> \in [{} -> R]
  OBVIOUS
<1> QED
  BY <1>1 DEF Lists

LEMMA IsList ==
  ASSUME NEW S \in SUBSET Notes, NEW R, NEW f \in [S -> R]
  PROVE  f \in Lists(R)
BY DEF Lists

LEMMA ListDomain ==
  ASSUME NEW R, NEW f \in Lists(R)
  PROVE  DOMAIN f \subseteq Notes /\ f \in [DOMAIN f -> R] /\ \A n \in DOMAIN f : f[n] \in R
BY DEF Lists

LEMMA WithoutList ==
  ASSUME NEW R, NEW f \in Lists(R), NEW n
  PROVE  /\ Without(f, n) \in Lists(R)
         /\ DOMAIN Without(f, n) = DOMAIN f \ {n}
         /\ \A m \in DOMAIN f \ {n} : Without(f, n)[m] = f[m]
<1>1. Without(f, n) \in [DOMAIN f \ {n} -> R]
  BY ListDomain DEF Without, Restrict
<1>2. Without(f, n) \in Lists(R)
  BY <1>1, ListDomain, IsList
<1> QED
  BY <1>2 DEF Without, Restrict

LEMMA PutList ==
  ASSUME NEW R, NEW f \in Lists(R), NEW n \in Notes, NEW v \in R
  PROVE  Put(f, n, v) \in Lists(R)
<1>1. Put(f, n, v) \in [DOMAIN f \cup {n} -> R]
  BY ListDomain DEF Put
<1> QED
  BY <1>1, ListDomain, IsList

LEMMA PutFacts ==
  ASSUME NEW f, NEW n, NEW v
  PROVE  /\ \A m : m \in DOMAIN Put(f, n, v) <=> m \in DOMAIN f \/ m = n
         /\ Put(f, n, v)[n] = v
         /\ \A m \in DOMAIN f \ {n} : Put(f, n, v)[m] = f[m]
BY DEF Put

-----------------------------------------------------------------------------
(* The chain and its logs *)

Landed(n) == chain[n] \in {"landed", "spent"}

ChainOK ==
  chain \in [Notes -> {"none", "queued", "landed", "cancelled", "contested", "spent"}]

\* What a transaction of this device may name, and as what.
RoleOK(n, role) ==
  /\ role \in Roles
  /\ role = "cancel" => n \in Own
  /\ role = "change" => n \in Received

TxOK(tx) == tx \in Lists(Roles) /\ \A n \in DOMAIN tx : RoleOK(n, tx[n])

WorldOK ==
  /\ ChainOK /\ cast \subseteq Notes /\ tied \subseteq Notes
  /\ \A tx \in pending \cup failed : TxOK(tx)
  /\ indexed \in [Notes -> Nat] /\ queuedAt \in [Own -> Nat]
  /\ \A n \in Notes : indexed[n] <= Len(LogsOf(n))

Logs == {"queued", "leaf", "executed", "cancelled", "contested", "payload", "nullifier"}

\* A landed note's logs, before it is spent.
LandLogs(n) ==
  IF n \in Own THEN <<"queued", "leaf", "executed">> ELSE <<"leaf", "payload">>

LEMMA LandLogsAre ==
  ASSUME NEW n
  PROVE  /\ LandLogs(n) \in Seq(Logs)
         /\ n \in Own => /\ Len(LandLogs(n)) = 3 /\ LandLogs(n)[1] = "queued"
                         /\ LandLogs(n)[2] = "leaf" /\ LandLogs(n)[3] = "executed"
         /\ n \notin Own => /\ Len(LandLogs(n)) = 2 /\ LandLogs(n)[1] = "leaf"
                            /\ LandLogs(n)[2] = "payload"
<1>1. CASE n \in Own
  <2>1. LandLogs(n) = <<"queued", "leaf", "executed">>
    BY <1>1 DEF LandLogs
  <2> QED
    BY <1>1, <2>1 DEF Logs
<1>2. CASE n \notin Own
  <2>1. LandLogs(n) = <<"leaf", "payload">>
    BY <1>2 DEF LandLogs
  <2> QED
    BY <1>2, <2>1 DEF Logs
<1> QED
  BY <1>1, <1>2

LogFacts(n) ==
  /\ LogsOf(n) \in Seq(Logs) /\ Len(LogsOf(n)) \in 0 .. 4
  /\ chain[n] = "none" => Len(LogsOf(n)) = 0
  /\ chain[n] = "queued" => Len(LogsOf(n)) = 1 /\ LogsOf(n)[1] = "queued"
  /\ chain[n] \in {"cancelled", "contested"} =>
       Len(LogsOf(n)) = 2 /\ LogsOf(n)[1] = "queued" /\ LogsOf(n)[2] = chain[n]
  /\ chain[n] = "landed" => LogsOf(n) = LandLogs(n)
  /\ chain[n] = "spent" =>
       /\ Len(LogsOf(n)) = Len(LandLogs(n)) + 1
       /\ LogsOf(n)[Len(LandLogs(n)) + 1] = "nullifier"
       /\ \A i \in 1 .. Len(LandLogs(n)) : LogsOf(n)[i] = LandLogs(n)[i]

LEMMA LogsAre ==
  ChainOK => \A n \in Notes : LogFacts(n)
<1> SUFFICES ASSUME ChainOK, NEW n \in Notes PROVE LogFacts(n)
  OBVIOUS
<1>1. chain[n] \in {"none", "queued", "landed", "cancelled", "contested", "spent"}
  BY DEF ChainOK
<1>2. LandLogs(n) \in Seq(Logs) /\ Len(LandLogs(n)) \in {2, 3}
  BY LandLogsAre
<1>3. CASE chain[n] = "none"
  BY <1>3 DEF LogsOf, Logs, LogFacts
<1>4. CASE chain[n] = "queued"
  <2>1. LogsOf(n) = <<"queued">>
    BY <1>4 DEF LogsOf, Logs, LogFacts
  <2> QED
    BY <1>4, <2>1 DEF Logs, LogFacts
<1>5. CASE chain[n] \in {"cancelled", "contested"}
  <2>1. LogsOf(n) = <<"queued", chain[n]>> /\ chain[n] \in Logs
    BY <1>5 DEF LogsOf, Logs, LogFacts
  <2> QED
    BY <1>5, <2>1 DEF Logs, LogFacts
<1>6. CASE chain[n] = "landed"
  <2>1. LogsOf(n) = LandLogs(n)
    BY <1>6 DEF LogsOf, LandLogs
  <2> QED
    BY <1>2, <1>6, <2>1 DEF LogFacts
<1>7. CASE chain[n] = "spent"
  <2>1. LogsOf(n) = Append(LandLogs(n), "nullifier")
    BY <1>7 DEF LogsOf, LandLogs
  <2> HIDE DEF LandLogs
  <2> QED
    BY <1>2, <1>7, <2>1 DEF Logs, LogFacts
<1> QED
  BY <1>1, <1>3, <1>4, <1>5, <1>6, <1>7

LEMMA LogsAreNext == ChainOK' => \A n \in Notes : LogFacts(n)'
<1>1. (ChainOK => \A n \in Notes : LogFacts(n))'
  BY LogsAre, PTL
<1> QED
  BY <1>1

\* What is indexed of a note is true of it, and what is not the first log comes
\* after it.
LEMMA IndexedIsTrue ==
  ASSUME WorldOK, NEW n \in Notes
  PROVE  /\ Indexed(n) = {} <=> indexed[n] = 0
         /\ "leaf" \in Indexed(n) => Landed(n)
         /\ "payload" \in Indexed(n) => "leaf" \in Indexed(n)
         /\ "executed" \in Indexed(n) => Landed(n)
         /\ n \in Own /\ indexed[n] > 0 => "queued" \in Indexed(n)
<1>0. LogFacts(n)
  BY LogsAre DEF WorldOK
<1>1. indexed[n] \in Nat /\ indexed[n] <= Len(LogsOf(n)) /\ Len(LogsOf(n)) \in 0 .. 4
  BY <1>0 DEF WorldOK, LogFacts
<1>2. \A x : x \in Indexed(n) <=> \E i \in 1 .. indexed[n] : x = LogsOf(n)[i]
  BY DEF Indexed
<1>3. Indexed(n) = {} <=> indexed[n] = 0
  <2>1. indexed[n] > 0 => LogsOf(n)[1] \in Indexed(n)
    BY <1>1, <1>2
  <2> QED
    BY <1>1, <1>2, <2>1
<1>4. chain[n] \in {"none", "queued", "landed", "cancelled", "contested", "spent"}
  BY DEF WorldOK, ChainOK
<1>5. CASE chain[n] \in {"none", "queued"}
  BY <1>1, <1>2, <1>3, <1>5, <1>0 DEF LogFacts, Landed
<1>6. CASE chain[n] \in {"cancelled", "contested"}
  BY <1>1, <1>2, <1>3, <1>6, <1>0 DEF LogFacts, Landed
<1>7. CASE Landed(n) /\ n \in Own
  <2>1. LogsOf(n)[1] = "queued" /\ \A i \in 1 .. indexed[n] : LogsOf(n)[i] # "payload"
    BY <1>1, <1>7, <1>0, LandLogsAre DEF Landed, LogFacts
  <2> QED
    BY <1>1, <1>2, <1>3, <1>7, <2>1
<1>8. CASE Landed(n) /\ n \notin Own
  <2>1. LogsOf(n)[1] = "leaf" /\ LogsOf(n)[2] = "payload"
    BY <1>1, <1>8, <1>0, LandLogsAre DEF Landed, LogFacts
  <2>2. "leaf" \in Indexed(n) <=> indexed[n] > 0
    BY <1>1, <1>2, <1>3, <2>1
  <2> QED
    BY <1>1, <1>2, <1>3, <1>8, <2>2
<1> QED
  BY <1>4, <1>5, <1>6, <1>7, <1>8 DEF Landed

\* The state of a row is a state, and true.
LEMMA RowIsTrue ==
  ASSUME WorldOK, NEW n \in Own
  PROVE  /\ row[n] = "none" <=> indexed[n] = 0
         /\ row[n] \in RowStates \cup {"none"}
         /\ row[n] = "executed" => Landed(n)
<1> n \in Notes
  BY DEF Notes
<1>1. CASE Indexed(n) = {}
  BY <1>1, IndexedIsTrue DEF row
<1>2. CASE Indexed(n) # {} /\ Indexed(n) \cap RowStates = {"queued"}
  BY <1>2, IndexedIsTrue DEF row, RowStates
<1>3. CASE Indexed(n) # {} /\ Indexed(n) \cap RowStates # {"queued"}
  <2>1. indexed[n] # 0 /\ "queued" \in Indexed(n) \cap RowStates
    BY <1>3, IndexedIsTrue DEF RowStates, WorldOK
  <2>2. PICK s \in Indexed(n) \cap RowStates : s # "queued"
    BY <1>3, <2>1
  <2>3. row[n] = CHOOSE x \in Indexed(n) \cap RowStates : x # "queued"
    BY <1>3 DEF row
  <2>4. row[n] \in Indexed(n) \cap RowStates
    BY <2>2, <2>3
  <2> QED
    BY <2>1, <2>4, IndexedIsTrue DEF RowStates
<1> QED
  BY <1>1, <1>2, <1>3

-----------------------------------------------------------------------------
(* What the device holds, given the notes L that have landed (or that a        *)
(* transaction of its own was to land), the notes F whose leaf is known and    *)
(* the notes C that a transaction of its own was to cancel                     *)

PCs == {"idle", "rows", "unlisted", "scan", "backfill", "spent", "watching",
        "signing", "recording"}
Tags == RowStates \cup {"leaf", "spent"} \cup Roles
TagsOf(pc) ==
  CASE pc \in {"rows", "unlisted", "watching"} -> RowStates
    [] pc \in {"scan", "backfill"} -> {"leaf"}
    [] pc = "spent" -> {"spent"}
    [] pc \in {"signing", "recording"} -> Roles
    [] OTHER -> {}

RecordOK(L, F, C, n, r) ==
  /\ r \in StoredNote
  /\ r.state \in {"spendable", "spent"} => n \in L
  /\ r.leafIndex => n \in F

ListOK(L, F, C, l) ==
  l \in Lists(StoredNote) /\ \A n \in DOMAIN l : RecordOK(L, F, C, n, l[n])

Pending == [note : Notes, record : StoredNote, base : Lists(StoredNote)]

\* What takes a note forward, or cancels what this device asked to cancel.
NoStepBack(C, w) ==
  w.note \in DOMAIN w.base =>
    \/ ~Advances(w.record.state, w.base[w.note].state)
    \/ /\ w.note \in C \cap Own
       /\ w.record = [w.base[w.note] EXCEPT !.state = "cancelled"]

\* What is about to be written is true, and no step back from what it replaces.
WriteOK(L, F, C, w) ==
  \/ w = NoWrite
  \/ /\ w \in Pending
     /\ RecordOK(L, F, C, w.note, w.record) /\ ListOK(L, F, C, w.base)
     /\ NoStepBack(C, w)

\* Once it is broadcast, a transaction has a part in its notes.
TagOK(L, F, C, pc, n, tag) ==
  /\ tag \in {"executed", "spend", "spent"} => n \in L
  /\ tag = "leaf" => n \in F
  /\ tag \in Roles => RoleOK(n, tag)
  /\ pc = "recording" /\ tag = "change" => n \in L
  /\ pc = "recording" /\ tag = "cancel" => n \in C

TodoOK(L, F, C, pc, todo) ==
  \A n \in DOMAIN todo : todo[n] \in TagsOf(pc) /\ TagOK(L, F, C, pc, n, todo[n])

JobSet == [pc : PCs, todo : Lists(Tags), max : Nat, write : {NoWrite} \cup Pending]

JobOK(L, F, C, r) ==
  r \in JobSet /\ TodoOK(L, F, C, r.pc, r.todo) /\ WriteOK(L, F, C, r.write)

JobsOK(L, F, C, jobs) == jobs \in [Jobs -> JobSet] /\ \A j \in Jobs : JobOK(L, F, C, jobs[j])

LandedNotes == {n \in Notes : Landed(n)}
Backed == {n \in Notes : Landed(n) \/ Unsettled(n, "change")}
Recalled == {n \in Notes : chain[n] = "cancelled" \/ Unsettled(n, "cancel")}
Leaves == With("leaf")

RestOK ==
  /\ cursor \in Nat
  /\ mishaps \in Nat /\ clobbered \cup skipped \subseteq Notes

DeviceInv ==
  /\ WorldOK /\ RestOK
  /\ ListOK(Backed, Leaves, Recalled, store)
  /\ JobsOK(Backed, Leaves, Recalled, job)

\* What is true stays true when more notes land.
LEMMA MoreLandsOK ==
  ASSUME NEW L, NEW F, NEW C, NEW L2, NEW F2, NEW C2,
         L \subseteq L2, F \subseteq F2, C \subseteq C2
  PROVE  /\ \A l : ListOK(L, F, C, l) => ListOK(L2, F2, C2, l)
         /\ \A jobs : JobsOK(L, F, C, jobs) => JobsOK(L2, F2, C2, jobs)
<1>1. ASSUME NEW n, NEW r, RecordOK(L, F, C, n, r) PROVE RecordOK(L2, F2, C2, n, r)
  BY <1>1 DEF RecordOK
<1>2. ASSUME NEW l, ListOK(L, F, C, l) PROVE ListOK(L2, F2, C2, l)
  BY <1>1, <1>2 DEF ListOK
<1>3. ASSUME NEW w, WriteOK(L, F, C, w) PROVE WriteOK(L2, F2, C2, w)
  BY <1>1, <1>2, <1>3 DEF WriteOK, NoStepBack
<1>4. ASSUME NEW pc, NEW todo, TodoOK(L, F, C, pc, todo) PROVE TodoOK(L2, F2, C2, pc, todo)
  BY <1>4 DEF TodoOK, TagOK
<1>5. ASSUME NEW r, JobOK(L, F, C, r) PROVE JobOK(L2, F2, C2, r)
  BY <1>3, <1>4, <1>5 DEF JobOK
<1> QED
  BY <1>2, <1>5 DEF JobsOK

LEMMA IdleOK ==
  ASSUME NEW L, NEW F, NEW C PROVE JobOK(L, F, C, Idle) /\ Idle.write = NoWrite
<1>1. << >> \in Lists(Tags) /\ DOMAIN << >> = {}
  BY EmptyIsList
<1>2. Idle \in JobSet
  BY <1>1 DEF Idle, JobSet, PCs
<1> QED
  BY <1>1, <1>2 DEF Idle, JobOK, TodoOK, WriteOK

\* A job that starts, with tags that are true.
LEMMA StartOK ==
  ASSUME NEW L, NEW F, NEW C, NEW pc \in PCs, NEW S \in SUBSET Notes,
         NEW f \in [S -> TagsOf(pc)], \A n \in S : TagOK(L, F, C, pc, n, f[n]),
         NEW m \in Nat, TagsOf(pc) \subseteq Tags
  PROVE  JobOK(L, F, C, [pc |-> pc, todo |-> f, max |-> m, write |-> NoWrite])
<1>1. f \in Lists(Tags) /\ DOMAIN f = S
  BY IsList
<1> DEFINE r == [pc |-> pc, todo |-> f, max |-> m, write |-> NoWrite]
<1>2. r \in JobSet
  BY <1>1 DEF JobSet
<1>3. TodoOK(L, F, C, pc, f) /\ WriteOK(L, F, C, NoWrite)
  BY <1>1 DEF TodoOK, WriteOK
<1> QED
  BY <1>2, <1>3 DEF JobOK

\* A job that has dealt with one note.
LEMMA WithoutOK ==
  ASSUME NEW L, NEW F, NEW C, NEW r, JobOK(L, F, C, r), r.write = NoWrite, NEW n
  PROVE  /\ JobOK(L, F, C, [r EXCEPT !.todo = Without(r.todo, n)])
         /\ [r EXCEPT !.todo = Without(r.todo, n)].write = NoWrite
         /\ [r EXCEPT !.todo = Without(r.todo, n)].todo = Without(r.todo, n)
         /\ [r EXCEPT !.todo = Without(r.todo, n)].pc = r.pc
         /\ [r EXCEPT !.todo = Without(r.todo, n)].max = r.max
<1> DEFINE rest == Without(r.todo, n)
           s == [r EXCEPT !.todo = rest]
<1>1. r \in JobSet /\ r.todo \in Lists(Tags)
  BY DEF JobOK, JobSet
<1>2. /\ rest \in Lists(Tags) /\ DOMAIN rest = DOMAIN r.todo \ {n}
      /\ \A m \in DOMAIN r.todo \ {n} : rest[m] = r.todo[m]
  BY <1>1, WithoutList
<1> HIDE DEF rest
<1>3. s \in JobSet /\ s.pc = r.pc /\ s.todo = rest /\ s.write = r.write /\ s.max = r.max
  BY <1>1, <1>2 DEF JobSet
<1>4. TodoOK(L, F, C, s.pc, s.todo)
  BY <1>2, <1>3 DEF JobOK, TodoOK
<1>5. JobOK(L, F, C, s)
  BY <1>3, <1>4 DEF JobOK
<1> QED
  BY <1>3, <1>5 DEF rest

LEMMA RestIsJob ==
  ASSUME NEW L, NEW F, NEW C, NEW r, JobOK(L, F, C, r), r.write = NoWrite, NEW n
  PROVE  /\ [r EXCEPT !.todo = Without(r.todo, n)] \in JobSet
         /\ DOMAIN Without(r.todo, n) = DOMAIN r.todo \ {n}
<1>1. JobOK(L, F, C, [r EXCEPT !.todo = Without(r.todo, n)])
  BY WithoutOK
<1>2. r.todo \in Lists(Tags)
  BY DEF JobOK, JobSet
<1>3. DOMAIN Without(r.todo, n) = DOMAIN r.todo \ {n}
  BY <1>2, WithoutList
<1> QED
  BY <1>1, <1>3 DEF JobOK

\* One job moves on.
LEMMA GotoOK ==
  ASSUME NEW L, NEW F, NEW C, NEW jobs, JobsOK(L, F, C, jobs), NEW j \in Jobs, NEW r, JobOK(L, F, C, r)
  PROVE  JobsOK(L, F, C, [jobs EXCEPT ![j] = r])
BY DEF JobsOK, JobOK

\* One job starts to write what is true.
LEMMA WritesOK ==
  ASSUME NEW L, NEW F, NEW C, mishaps \in Nat, ListOK(L, F, C, store), JobsOK(L, F, C, job),
         NEW j \in Jobs, NEW r, JobOK(L, F, C, r),
         NEW n \in Notes, NEW record, RecordOK(L, F, C, n, record),
         NoStepBack(C, [note |-> n, record |-> record, base |-> store]),
         Writes(j, r, n, record)
  PROVE  JobsOK(L, F, C, job') /\ UNCHANGED store /\ mishaps' \in Nat
<1> DEFINE w == [note |-> n, record |-> record, base |-> store]
           s == [r EXCEPT !.write = w]
<1>1. w \in Pending /\ WriteOK(L, F, C, w)
  BY DEF Pending, WriteOK, RecordOK, ListOK
<1> HIDE DEF w
<1>2. s \in JobSet /\ s.pc = r.pc /\ s.todo = r.todo /\ s.write = w
  BY <1>1 DEF JobOK, JobSet
<1>3. JobOK(L, F, C, s)
  BY <1>1, <1>2 DEF JobOK
<1>4. job' = [job EXCEPT ![j] = s] /\ UNCHANGED store
  BY DEF Writes, w
<1>5. mishaps' \in Nat
  BY DEF Writes, MayWrite, Mishap
<1> HIDE DEF s
<1> QED
  BY <1>3, <1>4, <1>5, GotoOK

LEMMA AppendOK ==
  ASSUME NEW L, NEW F, NEW C, mishaps \in Nat, ListOK(L, F, C, store), JobsOK(L, F, C, job),
         NEW j \in Jobs, NEW r, JobOK(L, F, C, r),
         NEW n \in Notes, NEW record, RecordOK(L, F, C, n, record),
         AppendNote(j, r, n, record)
  PROVE  JobsOK(L, F, C, job') /\ UNCHANGED store /\ mishaps' \in Nat
<1>1. CASE n \in DOMAIN store
  BY <1>1, GotoOK DEF AppendNote
<1>2. CASE n \notin DOMAIN store
  <2>1. NoStepBack(C, [note |-> n, record |-> record, base |-> store])
    BY <1>2 DEF NoStepBack
  <2> QED
    BY <1>2, <2>1, WritesOK DEF AppendNote
<1> QED
  BY <1>1, <1>2

\* A record that may take the place of the one the store has.
PatchedOK(L, F, C, n, record) ==
  /\ RecordOK(L, F, C, n, record)
  /\ \/ ~Advances(record.state, store[n].state)
     \/ n \in C \cap Own /\ record = [store[n] EXCEPT !.state = "cancelled"]

LEMMA PatchOK ==
  ASSUME NEW L, NEW F, NEW C, mishaps \in Nat, ListOK(L, F, C, store), JobsOK(L, F, C, job),
         NEW j \in Jobs, NEW r, JobOK(L, F, C, r),
         NEW n \in Notes, NEW record,
         n \in DOMAIN store => PatchedOK(L, F, C, n, record),
         PatchNoteByLeaf(j, r, n, record)
  PROVE  JobsOK(L, F, C, job') /\ UNCHANGED store /\ mishaps' \in Nat
<1>1. CASE n \notin DOMAIN store
  BY <1>1, GotoOK DEF PatchNoteByLeaf
<1>2. CASE n \in DOMAIN store
  <2>1. NoStepBack(C, [note |-> n, record |-> record, base |-> store])
    BY <1>2 DEF NoStepBack, PatchedOK
  <2> QED
    BY <1>2, <2>1, WritesOK DEF PatchNoteByLeaf, PatchedOK
<1> QED
  BY <1>1, <1>2

-----------------------------------------------------------------------------
(* The world moves on *)

LEMMA AllIdleOK ==
  ASSUME NEW L, NEW F, NEW C PROVE JobsOK(L, F, C, [j \in Jobs |-> Idle])
BY IdleOK DEF JobsOK, JobOK

LEMMA InitDevice == Init => DeviceInv
<1> SUFFICES ASSUME Init PROVE DeviceInv
  OBVIOUS
<1>1. WorldOK
  <2>1. ChainOK
    BY DEF Init, ChainOK
  <2>2. \A n \in Notes : LogFacts(n)
    BY <2>1, LogsAre
  <2>3. \A n \in Notes : indexed[n] <= Len(LogsOf(n))
    BY <2>2 DEF Init, LogFacts
  <2> QED
    BY <2>1, <2>3, WalletAssumption DEF Init, WorldOK, Notes
<1>2. ListOK(Backed, Leaves, Recalled, store)
  BY EmptyIsList DEF Init, ListOK
<1>3. JobsOK(Backed, Leaves, Recalled, job)
  BY AllIdleOK DEF Init
<1> QED
  BY <1>1, <1>2, <1>3 DEF Init, DeviceInv, RestOK

\* What may become of a note on chain.
Moved(n) ==
  \/ chain'[n] = chain[n]
  \/ chain[n] = "none" /\ chain'[n] \in {"queued", "landed"}
  \/ chain[n] = "queued" /\ chain'[n] \in {"cancelled", "contested"}
  \/ chain[n] = "queued" /\ chain'[n] = "landed" /\ n \in Own
  \/ chain[n] = "landed" /\ chain'[n] = "spent"

\* The logs of a note are only ever added to.
LEMMA LogsGrow ==
  ASSUME WorldOK, ChainOK', UNCHANGED indexed, NEW n \in Notes, Moved(n)
  PROVE  /\ indexed[n] <= Len(LogsOf(n)')
         /\ \A i \in 1 .. indexed[n] : LogsOf(n)'[i] = LogsOf(n)[i]
<1>1. LogFacts(n) /\ LogFacts(n)'
  BY LogsAre, LogsAreNext DEF WorldOK
<1>2. indexed[n] \in Nat /\ indexed[n] <= Len(LogsOf(n)) /\ Len(LogsOf(n)) \in Nat
  BY <1>1 DEF WorldOK, LogFacts
<1>3. Len(LandLogs(n)) \in Nat /\ (n \in Own => Len(LandLogs(n)) >= 1 /\ LandLogs(n)[1] = "queued")
  BY LandLogsAre
<1>4. CASE chain'[n] = chain[n]
  BY <1>2, <1>4 DEF LogsOf
<1>5. CASE chain[n] = "none"
  <2>1. indexed[n] = 0 /\ Len(LogsOf(n)') \in Nat
    BY <1>1, <1>2, <1>5 DEF LogFacts
  <2> QED
    BY <2>1
<1>6. CASE chain[n] = "queued" /\ chain'[n] \in {"cancelled", "contested"}
  <2>1. Len(LogsOf(n)) = 1 /\ Len(LogsOf(n)') = 2 /\ LogsOf(n)[1] = "queued" /\ LogsOf(n)'[1] = "queued"
    BY <1>1, <1>6 DEF LogFacts
  <2> QED
    BY <1>2, <2>1
<1>7. CASE chain[n] = "queued" /\ chain'[n] = "landed" /\ n \in Own
  <2>1. /\ Len(LogsOf(n)) = 1 /\ LogsOf(n)' = LandLogs(n)
        /\ LogsOf(n)[1] = "queued"
    BY <1>1, <1>7 DEF LogFacts, LandLogs
  <2> QED
    BY <1>2, <1>3, <1>7, <2>1
<1>8. CASE chain[n] = "landed" /\ chain'[n] = "spent"
  <2>1. /\ LogsOf(n) = LandLogs(n) /\ Len(LogsOf(n)') = Len(LandLogs(n)) + 1
        /\ \A i \in 1 .. Len(LandLogs(n)) : LogsOf(n)'[i] = LandLogs(n)[i]
    BY <1>1, <1>8 DEF LogFacts, LandLogs
  <2> QED
    BY <1>2, <1>3, <2>1
<1> QED
  BY <1>4, <1>5, <1>6, <1>7, <1>8 DEF Moved

\* The state of a row, by what is indexed of its note.
StateFrom(logs) ==
  IF logs = {} THEN "none"
  ELSE IF logs \cap RowStates = {"queued"} THEN "queued"
  ELSE CHOOSE s \in logs \cap RowStates : s # "queued"

LEMMA RowIs == row = [n \in Own |-> StateFrom(Indexed(n))]
BY DEF row, StateFrom

LEMMA RowIsNext == row' = [n \in Own |-> StateFrom(Indexed(n)')]
BY DEF row, StateFrom

LEMMA ChainMovesOn ==
  ASSUME WorldOK, ChainOK', UNCHANGED <<cast, tied, indexed, queuedAt>>,
         pending' \cup failed' \subseteq pending \cup failed,
         \A n \in Notes : Moved(n)
  PROVE  WorldOK' /\ LandedNotes \subseteq LandedNotes' /\ UNCHANGED <<Leaves, row>>
<1>1. WorldOK'
  BY LogsGrow DEF WorldOK
<1>2. \A n \in Notes : Indexed(n)' = Indexed(n)
  BY LogsGrow DEF Indexed
<1>3. UNCHANGED Leaves
  BY <1>2 DEF Leaves, With
<1>4. UNCHANGED row
  BY <1>2, RowIs, RowIsNext DEF Notes
<1>5. LandedNotes \subseteq LandedNotes'
  BY DEF LandedNotes, Landed, Moved
<1> QED
  BY <1>1, <1>3, <1>4, <1>5

LEMMA WorldStutters ==
  ASSUME WorldOK, UNCHANGED world
  PROVE  WorldOK' /\ UNCHANGED <<LandedNotes, Backed, Leaves, Recalled, row>>
BY DEF world, ledger, WorldOK, ChainOK, LogsOf, LandedNotes, Landed, Backed, Unsettled, Recalled,
       Leaves, With, Indexed, row

\* The chain moves a note, or spends one and lands some.
LEMMA MovesAre ==
  ASSUME ChainOK, NEW n \in Notes, NEW from, NEW to, Moves(n, from, to),
         to \in {"queued", "landed", "cancelled", "contested", "spent"},
         \/ from = "none" /\ to \in {"queued", "landed"}
         \/ from = "queued" /\ to \in {"cancelled", "contested"}
         \/ from = "queued" /\ to = "landed" /\ n \in Own
         \/ from = "landed" /\ to = "spent"
  PROVE  ChainOK' /\ \A m \in Notes : Moved(m)
BY DEF Moves, ChainOK, Moved

LEMMA ChainMovesOK ==
  ASSUME WorldOK, ChainMoves
  PROVE  /\ WorldOK' /\ UNCHANGED <<Leaves, row>>
         /\ Backed \subseteq Backed' /\ Recalled \subseteq Recalled'
<1>1. ChainOK' /\ \A m \in Notes : Moved(m)
  BY MovesAre DEF ChainMoves, WorldOK, Notes
<1>2. WorldOK' /\ LandedNotes \subseteq LandedNotes' /\ UNCHANGED <<Leaves, row>>
  BY <1>1, ChainMovesOn DEF ChainMoves
<1>3. \A n, role : Unsettled(n, role)' = Unsettled(n, role)
  BY DEF ChainMoves, Unsettled
<1>4. Backed \subseteq Backed'
  BY <1>2, <1>3 DEF Backed, LandedNotes
<1>5. Recalled \subseteq Recalled'
  BY <1>1, <1>3 DEF Recalled, Moved
<1> QED
  BY <1>2, <1>4, <1>5

\* A transaction is mined: it has its effect, or it is one that failed.
LEMMA MineOK ==
  ASSUME WorldOK, Mine
  PROVE  /\ WorldOK' /\ UNCHANGED <<Leaves, row>>
         /\ Backed \subseteq Backed' /\ Recalled \subseteq Recalled'
<1>1. PICK tx \in pending :
        /\ pending' = pending \ {tx}
        /\ \/ /\ \A n \in DOMAIN tx : chain[n] = From[tx[n]]
              /\ chain' = [n \in Notes |-> IF n \in DOMAIN tx THEN To[tx[n]] ELSE chain[n]]
              /\ UNCHANGED failed
           \/ failed' = failed \cup {tx} /\ UNCHANGED chain
  BY DEF Mine
<1>2. TxOK(tx) /\ DOMAIN tx \subseteq Notes /\ \A n \in DOMAIN tx : tx[n] \in Roles
  <2>1. TxOK(tx)
    BY DEF WorldOK
  <2> QED
    BY <2>1, ListDomain DEF TxOK
<1>3. ChainOK' /\ \A m \in Notes : Moved(m)
  <2>1. CASE UNCHANGED chain
    BY <2>1 DEF WorldOK, ChainOK, Moved
  <2>2. CASE /\ \A n \in DOMAIN tx : chain[n] = From[tx[n]]
             /\ chain' = [n \in Notes |-> IF n \in DOMAIN tx THEN To[tx[n]] ELSE chain[n]]
    <3>1. ASSUME NEW m \in Notes
          PROVE  /\ Moved(m)
                 /\ chain'[m] \in {"none", "queued", "landed", "cancelled", "contested", "spent"}
      <4>1. CASE m \notin DOMAIN tx
        BY <2>2, <4>1 DEF Moved, WorldOK, ChainOK
      <4>2. CASE m \in DOMAIN tx
        <5>1. chain[m] = From[tx[m]] /\ chain'[m] = To[tx[m]] /\ tx[m] \in {"shield", "cancel", "spend", "change"}
          BY <1>2, <2>2, <4>2 DEF Roles, From
        <5> QED
          BY <5>1 DEF From, To, Moved
      <4> QED
        BY <4>1, <4>2
    <3> QED
      BY <2>2, <3>1 DEF ChainOK
  <2> QED
    BY <1>1, <2>1, <2>2
<1>4. WorldOK' /\ LandedNotes \subseteq LandedNotes' /\ UNCHANGED <<Leaves, row>>
  <2>1. pending' \cup failed' \subseteq pending \cup failed
    BY <1>1
  <2> QED
    BY <1>3, <2>1, ChainMovesOn DEF Mine
<1>5. ASSUME NEW n \in Notes, NEW role \in Roles, Unsettled(n, role)
      PROVE  Unsettled(n, role)' \/ chain'[n] = To[role]
  BY <1>1, <1>5 DEF Unsettled
<1>6. Backed \subseteq Backed'
  <2> SUFFICES ASSUME NEW n \in Backed PROVE n \in Backed'
    OBVIOUS
  <2>1. CASE n \in LandedNotes
    BY <1>4, <2>1 DEF Backed, LandedNotes
  <2>2. CASE Unsettled(n, "change")
    <3>1. n \in Notes /\ "change" \in Roles
      BY DEF Backed, Roles, From
    <3>2. Unsettled(n, "change")' \/ chain'[n] = To["change"]
      BY <1>5, <2>2, <3>1
    <3> QED
      BY <3>1, <3>2 DEF Backed, To, Landed
  <2> QED
    BY <2>1, <2>2 DEF Backed, LandedNotes
<1>7. Recalled \subseteq Recalled'
  <2> SUFFICES ASSUME NEW n \in Recalled PROVE n \in Recalled'
    OBVIOUS
  <2>1. CASE chain[n] = "cancelled"
    BY <1>3, <2>1 DEF Moved, Recalled
  <2>2. CASE Unsettled(n, "cancel")
    <3>1. n \in Notes /\ "cancel" \in Roles
      BY DEF Recalled, Roles, From
    <3>2. Unsettled(n, "cancel")' \/ chain'[n] = To["cancel"]
      BY <1>5, <2>2, <3>1
    <3> QED
      BY <3>1, <3>2 DEF Recalled, To
  <2> QED
    BY <2>1, <2>2 DEF Recalled
<1> QED
  BY <1>4, <1>6, <1>7

\* What the tables and the contract say of the notes when only the transactions
\* of this device change.
LEMMA TransactionsOnly ==
  ASSUME WorldOK, UNCHANGED <<cast, chain, indexed, queuedAt, tied>>,
         pending \cup failed \subseteq pending' \cup failed',
         \A tx \in pending' \cup failed' : TxOK(tx)
  PROVE  /\ WorldOK' /\ UNCHANGED <<LandedNotes, Leaves, row>>
         /\ Backed \subseteq Backed' /\ Recalled \subseteq Recalled'
<1>1. WorldOK'
  BY DEF WorldOK, ChainOK, LogsOf
<1>2. UNCHANGED <<LandedNotes, Leaves>>
  BY DEF LandedNotes, Landed, Leaves, With, Indexed, LogsOf
<1>3. UNCHANGED row
  BY DEF row, Indexed, LogsOf
<1>4. \A n, role : Unsettled(n, role) => Unsettled(n, role)'
  BY DEF Unsettled
<1>5. Backed \subseteq Backed' /\ Recalled \subseteq Recalled'
  BY <1>4 DEF Backed, Recalled, Landed
<1> QED
  BY <1>1, <1>2, <1>3, <1>5

\* No row is later than the latest.
LEMMA LatestIs ==
  ASSUME WorldOK
  PROVE  /\ Latest \in Nat /\ Latest >= ForOthers
         /\ \A m \in Own : queuedAt[m] <= Latest
<1> DEFINE U == {ForOthers} \cup Range(queuedAt)
<1>1. Range(queuedAt) = {queuedAt[m] : m \in Own} /\ Range(queuedAt) \subseteq Nat
  BY DEF Range, WorldOK
<1>2. IsFiniteSet(Range(queuedAt))
  BY <1>1, ImageFinite, WalletAssumption DEF WorldOK
<1>3. IsFiniteSet(U) /\ U \in SUBSET Nat /\ ForOthers \in U
  BY <1>1, <1>2, FS_AddElement DEF ForOthers
<1>4. Max(U) \in U /\ \A y \in U : y <= Max(U)
  <2> HIDE DEF U
  <2> QED
    BY <1>3, MaxOfFinite
<1> QED
  BY <1>1, <1>3, <1>4 DEF Latest

LEMMA IndexOK ==
  ASSUME WorldOK, NEW n \in Notes, Index(n)
  PROVE  /\ WorldOK' /\ UNCHANGED <<Backed, Recalled>> /\ Leaves \subseteq Leaves'
         /\ indexed[n] \in Nat /\ indexed'[n] = indexed[n] + 1
         /\ \A m \in Notes \ {n} : indexed'[m] = indexed[m]
<1>1. /\ indexed' = [indexed EXCEPT ![n] = indexed[n] + 1] /\ indexed[n] < Len(LogsOf(n))
      /\ UNCHANGED ledger
  BY DEF Index
<1>2. /\ indexed' \in [Notes -> Nat] /\ indexed[n] \in Nat
      /\ indexed'[n] = indexed[n] + 1 /\ \A m \in Notes \ {n} : indexed'[m] = indexed[m]
  BY <1>1 DEF WorldOK
<1>3. \A m \in Notes : LogsOf(m)' = LogsOf(m)
  BY <1>1 DEF LogsOf, ledger
<1>4. LogFacts(n)
  BY LogsAre DEF WorldOK
<1>5. \A m \in Notes : indexed'[m] <= Len(LogsOf(m))
  BY <1>1, <1>2, <1>4 DEF WorldOK, LogFacts
<1>6. queuedAt' \in [Own -> Nat]
  <2>1. CASE n \in Own /\ indexed[n] = 0
    <3>1. \E t \in {Latest, Latest + 1} : queuedAt' = [queuedAt EXCEPT ![n] = t]
      BY <2>1 DEF Index
    <3>2. Latest \in Nat
      BY LatestIs
    <3>5. Latest + 1 \in Nat
      BY <3>2
    <3>3. PICK t \in Nat : queuedAt' = [queuedAt EXCEPT ![n] = t]
      <4> DEFINE l == Latest
      <4>1. l \in Nat /\ l + 1 \in Nat
        BY <3>2, <3>5
      <4>2. queuedAt' = [queuedAt EXCEPT ![n] = l] \/ queuedAt' = [queuedAt EXCEPT ![n] = l + 1]
        BY <3>1
      <4> HIDE DEF l
      <4> QED
        BY <4>1, <4>2
    <3>4. queuedAt \in [Own -> Nat]
      BY DEF WorldOK
    <3> QED
      BY <3>3, <3>4
  <2> QED
    BY <2>1 DEF Index, WorldOK
<1>7. WorldOK'
  <2>1. tied' \subseteq Notes
    BY DEF Index, WorldOK
  <2> QED
    BY <1>1, <1>2, <1>3, <1>5, <1>6, <2>1 DEF WorldOK, ChainOK, ledger
<1>8. \A m \in Notes : Indexed(m) \subseteq Indexed(m)'
  BY <1>2, <1>3 DEF Indexed
<1> QED
  BY <1>1, <1>2, <1>7, <1>8 DEF Backed, Recalled, Unsettled, Landed, Leaves, With, ledger

-----------------------------------------------------------------------------
(* The device keeps to the truth *)

\* The types of what the invariant holds.
LEMMA DeviceTypes ==
  ASSUME DeviceInv
  PROVE  /\ WorldOK /\ RestOK /\ mishaps \in Nat
         /\ store \in Lists(StoredNote) /\ DOMAIN store \subseteq Notes
         /\ \A n \in DOMAIN store : RecordOK(Backed, Leaves, Recalled, n, store[n])
         /\ job \in [Jobs -> JobSet]
         /\ \A j \in Jobs : JobOK(Backed, Leaves, Recalled, job[j])
<1>1. DOMAIN store \subseteq Notes
  BY ListDomain DEF DeviceInv, ListOK
<1> QED
  BY <1>1 DEF DeviceInv, RestOK, ListOK, JobsOK

LEMMA WorldStandsStill ==
  ASSUME DeviceInv, UNCHANGED world, RestOK',
         ListOK(Backed, Leaves, Recalled, store'), JobsOK(Backed, Leaves, Recalled, job')
  PROVE  DeviceInv'
<1>1. WorldOK' /\ UNCHANGED <<Backed, Leaves, Recalled>>
  BY WorldStutters DEF DeviceInv
<1> QED
  BY <1>1 DEF DeviceInv

LEMMA WorldTurns ==
  ASSUME DeviceInv, WorldOK',
         Backed \subseteq Backed', Leaves \subseteq Leaves', Recalled \subseteq Recalled',
         UNCHANGED <<store, cursor, job, clobbered, skipped>>,
         mishaps' \in Nat
  PROVE  DeviceInv'
<1>1. ListOK(Backed', Leaves', Recalled', store)
  BY MoreLandsOK DEF DeviceInv
<1>2. JobsOK(Backed', Leaves', Recalled', job)
  BY MoreLandsOK DEF DeviceInv
<1>3. RestOK'
  BY DEF DeviceInv, RestOK
<1> QED
  BY <1>1, <1>2, <1>3 DEF DeviceInv

\* A transaction that is dropped still is one of this device.
LEMMA DropOK ==
  ASSUME WorldOK, Drop
  PROVE  /\ WorldOK' /\ UNCHANGED <<Leaves, row>>
         /\ Backed \subseteq Backed' /\ Recalled \subseteq Recalled'
<1>1. /\ UNCHANGED <<cast, chain, indexed, queuedAt, tied>>
      /\ pending \cup failed = pending' \cup failed'
  BY DEF Drop
<1>2. \A tx \in pending' \cup failed' : TxOK(tx)
  BY <1>1 DEF WorldOK
<1> QED
  BY <1>1, <1>2, TransactionsOnly

LEMMA WorldKeepsDevice ==
  ASSUME DeviceInv, ChainMoves \/ Mine \/ Drop \/ \E n \in Notes : Index(n)
  PROVE  DeviceInv'
<1>0. WorldOK /\ mishaps \in Nat
  BY DEF DeviceInv, RestOK
<1>1. CASE ChainMoves
  BY <1>0, <1>1, ChainMovesOK, WorldTurns DEF ChainMoves, history
<1>2. CASE Mine
  BY <1>0, <1>2, MineOK, WorldTurns DEF Mine, history
<1>3. CASE Drop
  BY <1>0, <1>3, DropOK, WorldTurns DEF Drop, Mishap
<1>4. ASSUME NEW n \in Notes, Index(n) PROVE DeviceInv'
  <2>1. mishaps' \in Nat
    BY <1>0, <1>4 DEF Index, Mishap
  <2> QED
    BY <1>0, <1>4, <2>1, IndexOK, WorldTurns DEF Index
<1> QED
  BY <1>1, <1>2, <1>3, <1>4

\* The rows are true, whoever reads them.
LEMMA RowsAreTags ==
  ASSUME WorldOK, NEW S \in SUBSET Own, \A n \in S : row[n] # "none", NEW pc
  PROVE  /\ [n \in S |-> row[n]] \in [S -> RowStates]
         /\ \A n \in S : TagOK(Backed, Leaves, Recalled, pc, n, [m \in S |-> row[m]][n])
<1>1. \A n \in S : row[n] \in RowStates /\ (row[n] = "executed" => n \in LandedNotes)
  BY RowIsTrue DEF LandedNotes, Notes
<1> QED
  BY <1>1 DEF TagOK, RowStates, Roles, From, LandedNotes, Backed

\* A job that starts from Idle, with tags that are true.
LEMMA IdleStarts ==
  ASSUME NEW L, NEW F, NEW C, NEW pc \in PCs, NEW S \in SUBSET Notes,
         NEW f \in [S -> TagsOf(pc)], \A n \in S : TagOK(L, F, C, pc, n, f[n]),
         TagsOf(pc) \subseteq Tags
  PROVE  JobOK(L, F, C, [Idle EXCEPT !.pc = pc, !.todo = f])
<1> DEFINE r == [Idle EXCEPT !.pc = pc, !.todo = f]
<1>1. f \in Lists(Tags) /\ DOMAIN f = S
  BY IsList
<1>2. r \in JobSet /\ r.pc = pc /\ r.todo = f /\ r.write = NoWrite
  BY <1>1 DEF Idle, JobSet
<1> HIDE DEF r
<1>3. TodoOK(L, F, C, pc, f) /\ WriteOK(L, F, C, NoWrite)
  BY <1>1 DEF TodoOK, WriteOK
<1>4. JobOK(L, F, C, r)
  BY <1>2, <1>3 DEF JobOK
<1> QED
  BY <1>4 DEF r

\* The cursor a sync is to save covers the rows it has read, and no other.
LEMMA SyncMaxIs ==
  ASSUME WorldOK, cursor \in Nat, NEW S \in SUBSET Own
  PROVE  /\ Max({cursor, ForOthers} \cup {queuedAt[n] : n \in S}) \in {cursor, ForOthers} \cup {queuedAt[n] : n \in S}
         /\ Max({cursor, ForOthers} \cup {queuedAt[n] : n \in S}) \in Nat
         /\ \A m \in {cursor, ForOthers} \cup {queuedAt[n] : n \in S} :
              m <= Max({cursor, ForOthers} \cup {queuedAt[n] : n \in S})
<1> DEFINE T == {queuedAt[n] : n \in S}
           U == {cursor, ForOthers} \cup T
<1>1. IsFiniteSet(S)
  BY WalletAssumption, FS_Subset
<1>2. IsFiniteSet(T)
  BY <1>1, ImageFinite DEF WorldOK
<1>3. IsFiniteSet(U)
  <2> HIDE DEF T
  <2>1. IsFiniteSet(T \cup {cursor})
    BY <1>2, FS_AddElement
  <2> DEFINE V == T \cup {cursor}
  <2>2. IsFiniteSet(V) /\ U = V \cup {ForOthers}
    BY <2>1
  <2> HIDE DEF U, V
  <2> QED
    BY <2>2, FS_AddElement
<1>4. U \in SUBSET Nat /\ U # {}
  BY DEF WorldOK, ForOthers
<1>5. Max(U) \in U /\ \A m \in U : m <= Max(U)
  <2> HIDE DEF U
  <2> QED
    BY <1>3, <1>4, MaxOfFinite
<1> QED
  BY <1>4, <1>5

LEMMA SyncStartOK ==
  ASSUME DeviceInv, SyncStart
  PROVE  DeviceInv'
<1> DEFINE rows == {n \in Own : row[n] # "none"}
           S == {m \in rows : Newer(m)}
           f == [n \in S |-> row[n]]
           m == Max({cursor, ForOthers} \cup {queuedAt[n] : n \in rows})
           r(pc) == [pc |-> pc, todo |-> f, max |-> m, write |-> NoWrite]
<1>1. PICK pc \in {"rows", "unlisted"} : job' = [job EXCEPT !["sync"] = r(pc)]
  BY DEF SyncStart
<1>2. m \in Nat
  <2>1. rows \in SUBSET Own /\ cursor \in Nat /\ WorldOK
    BY DEF DeviceInv, RestOK
  <2> HIDE DEF rows
  <2> QED
    BY <2>1, SyncMaxIs
<1>3. /\ S \in SUBSET Notes /\ f \in [S -> RowStates]
      /\ \A n \in S : TagOK(Backed, Leaves, Recalled, pc, n, f[n])
  <2>1. S \in SUBSET Own /\ \A n \in S : row[n] # "none"
    OBVIOUS
  <2> HIDE DEF S
  <2> QED
    BY <2>1, RowsAreTags DEF DeviceInv, Notes
<1>4. pc \in PCs /\ TagsOf(pc) = RowStates /\ RowStates \subseteq Tags
  BY DEF PCs, TagsOf, Tags
<1> HIDE DEF S, f, m
<1>5. JobOK(Backed, Leaves, Recalled, r(pc))
  BY <1>2, <1>3, <1>4, StartOK
<1> HIDE DEF r
<1>6. JobsOK(Backed, Leaves, Recalled, job')
  BY <1>1, <1>5, GotoOK DEF DeviceInv, Jobs
<1>7. RestOK'
  BY DEF SyncStart, Mishap, DeviceInv, RestOK
<1> QED
  BY <1>6, <1>7, WorldStandsStill DEF SyncStart, DeviceInv

LEMMA SyncRowOK ==
  ASSUME DeviceInv, NEW n \in Own, SyncRow(n)
  PROVE  DeviceInv'
<1> DEFINE r == [Sync EXCEPT !.todo = Without(Sync.todo, n)]
           record == [state |-> ToIdb(Sync.todo[n]), leafIndex |-> FALSE]
<1>1. /\ JobOK(Backed, Leaves, Recalled, Sync) /\ Sync.write = NoWrite /\ n \in DOMAIN Sync.todo
      /\ Sync.pc \in {"rows", "unlisted"} /\ "sync" \in Jobs /\ n \in Notes
  BY DeviceTypes DEF SyncRow, Writing, Sync, Jobs, Notes
<1>2. JobOK(Backed, Leaves, Recalled, r)
  BY <1>1, WithoutOK
<1>3. RecordOK(Backed, Leaves, Recalled, n, record)
  <2>1. Sync.todo[n] \in RowStates /\ TagOK(Backed, Leaves, Recalled, Sync.pc, n, Sync.todo[n])
    BY <1>1 DEF JobOK, TodoOK, TagsOf
  <2> QED
    BY <2>1 DEF ToIdb, TagOK, RecordOK, StoredNote, NoteStates, RowStates
<1>4. \/ job' = [job EXCEPT !["sync"] = r] /\ UNCHANGED <<store, mishaps>>
      \/ AppendNote("sync", r, n, record)
  BY DEF SyncRow
<1> HIDE DEF r, record
<1>5. JobsOK(Backed, Leaves, Recalled, job') /\ UNCHANGED store /\ mishaps' \in Nat
  BY <1>1, <1>2, <1>3, <1>4, GotoOK, AppendOK DEF DeviceInv, RestOK
<1>6. RestOK'
  BY <1>1, <1>5 DEF SyncRow, DeviceInv, RestOK
<1> QED
  BY <1>5, <1>6, WorldStandsStill DEF SyncRow, DeviceInv

\* One job goes on without a write, and nothing else of the device changes.
LEMMA JobGoesOn ==
  ASSUME DeviceInv, UNCHANGED <<world, store>>, NEW j \in Jobs, NEW r,
         JobOK(Backed, Leaves, Recalled, r), job' = [job EXCEPT ![j] = r], RestOK'
  PROVE  DeviceInv'
<1>1. JobsOK(Backed, Leaves, Recalled, job')
  BY GotoOK DEF DeviceInv
<1> QED
  BY <1>1, WorldStandsStill DEF DeviceInv

\* Payloads and positions are of leaves.
LEMMA KnownLeaves ==
  ASSUME WorldOK
  PROVE  With("payload") \subseteq Leaves /\ Leaves \subseteq Backed /\ Leaves \subseteq Notes
         /\ \A l : BackfillOf(l) \subseteq Leaves
BY IndexedIsTrue DEF With, Leaves, Backed, BackfillOf

LEMMA ReadingOK ==
  ASSUME NEW L, NEW F, NEW C, NEW pc \in {"scan", "backfill"}, NEW S \in SUBSET Notes, S \subseteq F
  PROVE  JobOK(L, F, C, [Idle EXCEPT !.pc = pc, !.todo = [n \in S |-> "leaf"]])
<1> DEFINE f == [n \in S |-> "leaf"]
<1>1. TagsOf(pc) = {"leaf"} /\ TagsOf(pc) \subseteq Tags /\ pc \in PCs
  BY DEF TagsOf, Tags, PCs
<1>2. f \in [S -> TagsOf(pc)] /\ \A n \in S : TagOK(L, F, C, pc, n, f[n])
  BY <1>1 DEF TagOK, Roles, From
<1> HIDE DEF f
<1>3. JobOK(L, F, C, [Idle EXCEPT !.pc = pc, !.todo = f])
  BY <1>1, <1>2, IdleStarts
<1> QED
  BY <1>3 DEF f

LEMMA SaveCursorOK ==
  ASSUME DeviceInv, SaveCursor
  PROVE  DeviceInv'
<1> DEFINE S == BackfillOf(store) \cup With("payload")
<1>1. JobOK(Backed, Leaves, Recalled, Sync) /\ "sync" \in Jobs
  BY DeviceTypes DEF Sync, Jobs
<1>2. RestOK'
  BY <1>1 DEF SaveCursor, JobOK, JobSet, DeviceInv, RestOK, history
<1>3. S \subseteq Leaves /\ S \subseteq Notes
  BY KnownLeaves DEF DeviceInv
<1>4. CASE job' = [job EXCEPT !["sync"] = Idle]
  BY <1>1, <1>2, <1>4, IdleOK, JobGoesOn DEF SaveCursor
<1>5. CASE job' = [job EXCEPT !["sync"] = [Idle EXCEPT !.pc = "scan", !.todo = [n \in S |-> "leaf"]]]
  <2> DEFINE r == [Idle EXCEPT !.pc = "scan", !.todo = [n \in S |-> "leaf"]]
  <2>1. JobOK(Backed, Leaves, Recalled, r)
    <3> HIDE DEF S
    <3> QED
      BY <1>3, ReadingOK
  <2>2. job' = [job EXCEPT !["sync"] = r]
    BY <1>5
  <2> HIDE DEF r
  <2> QED
    BY <1>1, <1>2, <2>1, <2>2, JobGoesOn DEF SaveCursor
<1> QED
  BY <1>4, <1>5 DEF SaveCursor

LEMMA BackfillOK ==
  ASSUME DeviceInv, BackfillLeafIndices
  PROVE  DeviceInv'
<1> DEFINE S == BackfillOf(store)
           r == [Idle EXCEPT !.pc = "backfill", !.todo = [n \in S |-> "leaf"]]
<1>1. S \subseteq Leaves /\ S \subseteq Notes
  BY KnownLeaves DEF DeviceInv
<1>2. JobOK(Backed, Leaves, Recalled, r)
  <2> HIDE DEF S
  <2> QED
    BY <1>1, ReadingOK
<1>3. job' = [job EXCEPT !["sync"] = r] /\ "sync" \in Jobs
  BY DEF BackfillLeafIndices, Jobs
<1> HIDE DEF r
<1> QED
  BY <1>2, <1>3, JobGoesOn DEF BackfillLeafIndices, history, DeviceInv, RestOK

LEMMA ScanNoteOK ==
  ASSUME DeviceInv, NEW n \in Notes, ScanNote(n)
  PROVE  DeviceInv'
<1> DEFINE r == [Sync EXCEPT !.todo = Without(Sync.todo, n)]
           positioned == [store[n] EXCEPT !.leafIndex = TRUE]
           opened == [state |-> "spendable", leafIndex |-> TRUE]
<1>1. /\ JobOK(Backed, Leaves, Recalled, Sync) /\ Sync.write = NoWrite /\ n \in DOMAIN Sync.todo
      /\ Sync.pc \in {"scan", "backfill"} /\ "sync" \in Jobs
  BY DeviceTypes DEF ScanNote, Writing, Sync, Jobs
<1>2. JobOK(Backed, Leaves, Recalled, r)
  BY <1>1, WithoutOK
<1>3. n \in Leaves /\ n \in Backed
  <2>1. Sync.todo[n] = "leaf" /\ TagOK(Backed, Leaves, Recalled, Sync.pc, n, Sync.todo[n])
    BY <1>1 DEF JobOK, TodoOK, TagsOf
  <2> QED
    BY <2>1, KnownLeaves DEF TagOK, DeviceInv
<1>4. RecordOK(Backed, Leaves, Recalled, n, opened)
  BY <1>3 DEF RecordOK, StoredNote, NoteStates
<1>5. n \in DOMAIN store => PatchedOK(Backed, Leaves, Recalled, n, positioned)
  <2> SUFFICES ASSUME n \in DOMAIN store
               PROVE  PatchedOK(Backed, Leaves, Recalled, n, positioned)
    OBVIOUS
  <2>1. RecordOK(Backed, Leaves, Recalled, n, store[n]) /\ store[n].state \in NoteStates
    BY DeviceTypes DEF RecordOK, StoredNote
  <2>2. positioned \in StoredNote /\ positioned.state = store[n].state
    BY <2>1 DEF RecordOK, StoredNote
  <2>3. ~Advances(store[n].state, store[n].state)
    BY <2>1 DEF Advances, AdvancementRank, NoteStates
  <2> QED
    BY <1>3, <2>1, <2>2, <2>3 DEF RecordOK, PatchedOK
<1>6. \/ job' = [job EXCEPT !["sync"] = r] /\ UNCHANGED <<store, mishaps>>
      \/ n \in DOMAIN store /\ PatchNoteByLeaf("sync", r, n, positioned)
      \/ AppendNote("sync", r, n, opened)
  BY DEF ScanNote
<1> HIDE DEF r, positioned, opened
<1>7. JobsOK(Backed, Leaves, Recalled, job') /\ UNCHANGED store /\ mishaps' \in Nat
  BY <1>1, <1>2, <1>4, <1>5, <1>6, GotoOK, AppendOK, PatchOK DEF DeviceInv, RestOK
<1> QED
  BY <1>7, WorldStandsStill DEF ScanNote, DeviceInv, RestOK

LEMMA ReconcileOK ==
  ASSUME DeviceInv, ReconcileSpentNotes
  PROVE  DeviceInv'
<1> DEFINE f == [n \in Reconcilable |-> "spent"]
           r == [Sync EXCEPT !.pc = "spent", !.todo = f]
<1>1. /\ JobOK(Backed, Leaves, Recalled, Sync) /\ Sync.write = NoWrite /\ "sync" \in Jobs
  BY DeviceTypes DEF ReconcileSpentNotes, Writing, Sync, Jobs
<1>2. f \in [Reconcilable -> Tags] /\ Reconcilable \subseteq Notes
  BY DEF Tags, Reconcilable, With
<1>3. f \in Lists(Tags) /\ DOMAIN f = Reconcilable /\ \A n \in Reconcilable : f[n] = "spent"
  BY <1>2, IsList
<1> HIDE DEF f
<1>4. r \in JobSet /\ r.pc = "spent" /\ r.todo = f /\ r.write = NoWrite
  BY <1>1, <1>3 DEF JobOK, JobSet, PCs
<1>5. TodoOK(Backed, Leaves, Recalled, "spent", f) /\ WriteOK(Backed, Leaves, Recalled, NoWrite)
  <2>1. Reconcilable \subseteq Backed
    BY DeviceTypes DEF Reconcilable, RecordOK
  <2> QED
    BY <1>3, <2>1 DEF TodoOK, TagOK, TagsOf, WriteOK, Roles, From
<1>6. JobOK(Backed, Leaves, Recalled, r)
  BY <1>4, <1>5 DEF JobOK
<1>7. job' = [job EXCEPT !["sync"] = r] \/ job' = [job EXCEPT !["sync"] = Idle]
  BY DEF ReconcileSpentNotes, f
<1> HIDE DEF r
<1> QED
  BY <1>1, <1>6, <1>7, IdleOK, JobGoesOn DEF ReconcileSpentNotes, history, DeviceInv, RestOK

LEMMA MarkSpentOK ==
  ASSUME DeviceInv, NEW n \in Notes, MarkSpent(n)
  PROVE  DeviceInv'
<1> DEFINE rest == [Sync EXCEPT !.todo = Without(Sync.todo, n)]
           r == IF Without(Sync.todo, n) = << >> THEN Idle ELSE rest
           spent == [store[n] EXCEPT !.state = "spent"]
<1>1. /\ JobOK(Backed, Leaves, Recalled, Sync) /\ Sync.write = NoWrite /\ "sync" \in Jobs
  BY DeviceTypes DEF MarkSpent, Ready, Writing, Sync, Jobs
<1>2. JobOK(Backed, Leaves, Recalled, r)
  BY <1>1, WithoutOK, IdleOK
<1>3. n \in DOMAIN store => PatchedOK(Backed, Leaves, Recalled, n, spent)
  <2> SUFFICES ASSUME n \in DOMAIN store
               PROVE  PatchedOK(Backed, Leaves, Recalled, n, spent)
    OBVIOUS
  <2>0. n \in Backed
    <3>1. Sync.todo[n] = "spent" /\ TagOK(Backed, Leaves, Recalled, Sync.pc, n, Sync.todo[n])
      BY <1>1 DEF MarkSpent, Ready, Sync, JobOK, TodoOK, TagsOf
    <3> QED
      BY <3>1 DEF TagOK
  <2>1. RecordOK(Backed, Leaves, Recalled, n, store[n]) /\ store[n].state \in NoteStates
    BY DeviceTypes DEF RecordOK, StoredNote
  <2>2. spent \in StoredNote /\ spent.state = "spent" /\ spent.leafIndex = store[n].leafIndex
    BY <2>1 DEF RecordOK, StoredNote, NoteStates
  <2>3. ~Advances("spent", store[n].state)
    BY <2>1 DEF Advances, AdvancementRank, NoteStates
  <2> QED
    BY <2>0, <2>1, <2>2, <2>3 DEF RecordOK, PatchedOK
<1>4. PatchNoteByLeaf("sync", r, n, spent)
  BY DEF MarkSpent
<1> HIDE DEF r, spent
<1>5. JobsOK(Backed, Leaves, Recalled, job') /\ UNCHANGED store /\ mishaps' \in Nat
  BY <1>1, <1>2, <1>3, <1>4, PatchOK DEF DeviceInv, RestOK
<1> QED
  BY <1>5, WorldStandsStill DEF MarkSpent, DeviceInv, RestOK

LEMMA WatchStartOK ==
  ASSUME DeviceInv, WatchStart
  PROVE  DeviceInv'
<1> DEFINE S == {m \in Own : row[m] # "none"}
           f == [n \in S |-> row[n]]
           r == [Idle EXCEPT !.pc = "watching", !.todo = f]
<1>1. /\ S \in SUBSET Notes /\ f \in [S -> RowStates]
      /\ \A n \in S : TagOK(Backed, Leaves, Recalled, "watching", n, f[n])
  <2>1. S \in SUBSET Own /\ \A n \in S : row[n] # "none"
    OBVIOUS
  <2> HIDE DEF S
  <2> QED
    BY <2>1, RowsAreTags DEF DeviceInv, Notes
<1>2. "watching" \in PCs /\ TagsOf("watching") = RowStates /\ RowStates \subseteq Tags
  BY DEF PCs, TagsOf, Tags
<1>3. job' = [job EXCEPT !["watch"] = r] /\ "watch" \in Jobs
  BY DEF WatchStart, Jobs
<1> HIDE DEF S, f
<1>4. JobOK(Backed, Leaves, Recalled, r)
  BY <1>1, <1>2, IdleStarts
<1>5. RestOK'
  BY DEF WatchStart, DeviceInv, RestOK, history
<1> HIDE DEF r
<1> QED
  BY <1>3, <1>4, <1>5, JobGoesOn DEF WatchStart

LEMMA WatchRowOK ==
  ASSUME DeviceInv, NEW n \in Own, WatchRow(n)
  PROVE  DeviceInv'
<1> DEFINE rest == [Watch EXCEPT !.todo = Without(Watch.todo, n)]
           r == IF Without(Watch.todo, n) = << >> THEN Idle ELSE rest
           record == [store[n] EXCEPT !.state = ToIdb(Watch.todo[n])]
<1>1. /\ JobOK(Backed, Leaves, Recalled, Watch) /\ Watch.write = NoWrite /\ n \in DOMAIN Watch.todo
      /\ Watch.pc = "watching" /\ "watch" \in Jobs /\ n \in Notes
  BY DeviceTypes DEF WatchRow, Ready, Writing, Watch, Jobs, Notes
<1>2. JobOK(Backed, Leaves, Recalled, r)
  BY <1>1, WithoutOK, IdleOK
<1>3. n \in DOMAIN store /\ Advances(store[n].state, ToIdb(Watch.todo[n])) =>
        PatchedOK(Backed, Leaves, Recalled, n, record)
  <2> SUFFICES ASSUME n \in DOMAIN store, Advances(store[n].state, ToIdb(Watch.todo[n]))
               PROVE  PatchedOK(Backed, Leaves, Recalled, n, record)
    OBVIOUS
  <2>1. RecordOK(Backed, Leaves, Recalled, n, store[n]) /\ store[n].state \in NoteStates
    BY DeviceTypes DEF RecordOK, StoredNote
  <2>2. Watch.todo[n] \in RowStates /\ TagOK(Backed, Leaves, Recalled, Watch.pc, n, Watch.todo[n])
    BY <1>1 DEF JobOK, TodoOK, TagsOf
  <2>3. /\ ToIdb(Watch.todo[n]) \in NoteStates
        /\ ToIdb(Watch.todo[n]) \in {"spendable", "spent"} => n \in Backed
    BY <2>2 DEF ToIdb, TagOK, NoteStates, RowStates
  <2>4. /\ record \in StoredNote /\ record.state = ToIdb(Watch.todo[n])
        /\ record.leafIndex = store[n].leafIndex
    BY <2>1, <2>3 DEF RecordOK, StoredNote
  <2>5. ~Advances(record.state, store[n].state)
    BY <2>1, <2>3, <2>4 DEF Advances, AdvancementRank, NoteStates
  <2> QED
    BY <2>1, <2>3, <2>4, <2>5 DEF RecordOK, PatchedOK
<1>4. n \in DOMAIN store => PatchedOK(Backed, Leaves, Recalled, n, store[n])
  <2> SUFFICES ASSUME n \in DOMAIN store PROVE PatchedOK(Backed, Leaves, Recalled, n, store[n])
    OBVIOUS
  <2>1. RecordOK(Backed, Leaves, Recalled, n, store[n]) /\ store[n].state \in NoteStates
    BY DeviceTypes DEF RecordOK, StoredNote
  <2>2. ~Advances(store[n].state, store[n].state)
    BY <2>1 DEF Advances, AdvancementRank, NoteStates
  <2> QED
    BY <2>1, <2>2 DEF PatchedOK
<1>5. \/ job' = [job EXCEPT !["watch"] = r] /\ UNCHANGED <<store, mishaps>>
      \/ /\ n \in DOMAIN store /\ Advances(store[n].state, ToIdb(Watch.todo[n]))
         /\ PatchNoteByLeaf("watch", r, n, record)
      \/ n \in DOMAIN store /\ PatchNoteByLeaf("watch", r, n, store[n])
  BY DEF WatchRow
<1> HIDE DEF r, record
<1>6. JobsOK(Backed, Leaves, Recalled, job') /\ UNCHANGED store /\ mishaps' \in Nat
  BY <1>1, <1>2, <1>3, <1>4, <1>5, GotoOK, PatchOK DEF DeviceInv, RestOK
<1> QED
  BY <1>6, WorldStandsStill DEF WatchRow, DeviceInv, RestOK

\* A sheet opens: its transaction names notes as what they may be.
LEMMA BeginOK ==
  ASSUME DeviceInv, NEW S \in SUBSET Notes, NEW roles \in [S -> Roles],
         \A n \in S : RoleOK(n, roles[n]) /\ (roles[n] = "spend" => n \in Backed),
         Begin(roles)
  PROVE  DeviceInv'
<1> DEFINE r == [Idle EXCEPT !.pc = "signing", !.todo = roles]
<1>1. "signing" \in PCs /\ TagsOf("signing") = Roles /\ Roles \subseteq Tags
  BY DEF PCs, TagsOf, Tags
<1>2. \A n \in S : TagOK(Backed, Leaves, Recalled, "signing", n, roles[n])
  <2> SUFFICES ASSUME NEW n \in S PROVE TagOK(Backed, Leaves, Recalled, "signing", n, roles[n])
    OBVIOUS
  <2>1. roles[n] \in {"shield", "cancel", "spend", "change"}
    BY DEF Roles, From
  <2> QED
    BY <2>1 DEF TagOK
<1>3. JobOK(Backed, Leaves, Recalled, r)
  BY <1>1, <1>2, IdleStarts
<1>4. job' = [job EXCEPT !["user"] = r] /\ "user" \in Jobs
  BY DEF Begin, Jobs
<1> HIDE DEF r
<1> QED
  BY <1>3, <1>4, JobGoesOn DEF Begin, history, DeviceInv, RestOK

LEMMA UserBeginsOK ==
  ASSUME DeviceInv,
         \/ \E n \in Own : UserShield(n) \/ UserCancel(n)
         \/ \E n \in Notes, change \in SUBSET Received : UserSpend(n, change)
  PROVE  DeviceInv'
<1>1. ASSUME NEW n \in Own, NEW role \in {"shield", "cancel"}, Begin([m \in {n} |-> role])
      PROVE  DeviceInv'
  <2> DEFINE roles == [m \in {n} |-> role]
  <2>1. {n} \in SUBSET Notes /\ roles \in [{n} -> Roles] /\ roles[n] = role
    BY DEF Notes, Roles, From
  <2>2. RoleOK(n, role) /\ role # "spend"
    BY DEF RoleOK, Roles, From
  <2> HIDE DEF roles
  <2>3. \A m \in {n} : RoleOK(m, roles[m]) /\ (roles[m] = "spend" => m \in Backed)
    BY <2>1, <2>2
  <2>4. Begin(roles)
    BY <1>1 DEF roles
  <2> QED
    BY <2>1, <2>3, <2>4, BeginOK
<1>2. ASSUME NEW n \in Notes, NEW change \in SUBSET Received, UserSpend(n, change)
      PROVE  DeviceInv'
  <2> DEFINE S == {n} \cup change
             roles == [m \in S |-> IF m = n THEN "spend" ELSE "change"]
  <2>1. S \in SUBSET Notes /\ roles \in [S -> Roles]
    BY DEF Notes, Roles, From
  <2>2. n \in Backed
    BY <1>2, DeviceTypes DEF UserSpend, RecordOK
  <2>3. \A m \in S : RoleOK(m, roles[m]) /\ (roles[m] = "spend" => m \in Backed)
    BY <2>2 DEF RoleOK, Roles, From
  <2>4. Begin(roles)
    BY <1>2 DEF UserSpend
  <2> HIDE DEF S, roles
  <2> QED
    BY <2>1, <2>3, <2>4, BeginOK
<1> QED
  BY <1>1, <1>2 DEF UserShield, UserCancel

\* What the sheet has signed is a transaction.
LEMMA SignedIsTx ==
  ASSUME DeviceInv, User.pc = "signing"
  PROVE  TxOK(User.todo)
<1>1. JobOK(Backed, Leaves, Recalled, User) /\ User.todo \in Lists(Tags)
  BY DeviceTypes DEF User, Jobs, JobOK, JobSet
<1>2. \A n \in DOMAIN User.todo :
        User.todo[n] \in Roles /\ TagOK(Backed, Leaves, Recalled, User.pc, n, User.todo[n])
  BY <1>1 DEF JobOK, TodoOK, TagsOf
<1>3. User.todo \in Lists(Roles)
  <2>1. DOMAIN User.todo \in SUBSET Notes /\ User.todo \in [DOMAIN User.todo -> Roles]
    BY <1>1, <1>2, ListDomain
  <2> QED
    BY <2>1, IsList
<1> QED
  BY <1>2, <1>3 DEF TxOK, TagOK

\* It is taken, or the sheet is given up.
LEMMA SignedOK ==
  ASSUME DeviceInv, UserBroadcast \/ UserGivesUp
  PROVE  DeviceInv' /\ UNCHANGED <<indexed, queuedAt, row, tied>>
<1>1. /\ User.pc = "signing" /\ User.write = NoWrite /\ "user" \in Jobs
      /\ JobOK(Backed, Leaves, Recalled, User)
  BY DeviceTypes DEF UserBroadcast, UserGivesUp, Ready, Writing, User, Jobs
<1>2. /\ UNCHANGED <<cast, chain, failed, indexed, queuedAt, tied>>
      /\ pending' = pending \/ pending' = pending \cup {User.todo}
  BY DEF UserBroadcast, UserGivesUp
<1>3. \A tx \in pending' \cup failed' : TxOK(tx)
  BY <1>1, <1>2, SignedIsTx DEF DeviceInv, WorldOK
<1>4. /\ WorldOK' /\ UNCHANGED <<LandedNotes, Leaves, row>>
      /\ Backed \subseteq Backed' /\ Recalled \subseteq Recalled'
  BY <1>2, <1>3, TransactionsOnly DEF DeviceInv
<1>5. /\ ListOK(Backed', Leaves', Recalled', store)
      /\ JobsOK(Backed', Leaves', Recalled', job)
  BY <1>4, MoreLandsOK DEF DeviceInv
<1>6. JobsOK(Backed', Leaves', Recalled', job')
  <2>1. CASE job' = [job EXCEPT !["user"] = Idle]
    BY <1>1, <1>5, <2>1, GotoOK, IdleOK
  <2>2. CASE UserBroadcast
    <3> DEFINE r == [User EXCEPT !.pc = "recording"]
    <3>1. JobOK(Backed', Leaves', Recalled', User)
      BY <1>1, <1>5 DEF JobsOK, User
    <3>2. /\ r \in JobSet /\ r.pc = "recording" /\ r.todo = User.todo /\ r.write = NoWrite
      BY <1>1, <3>1 DEF JobOK, JobSet, PCs
    <3>3. TodoOK(Backed', Leaves', Recalled', "recording", User.todo)
      <4> SUFFICES ASSUME NEW n \in DOMAIN User.todo
                   PROVE  /\ User.todo[n] \in TagsOf("recording")
                          /\ TagOK(Backed', Leaves', Recalled', "recording", n, User.todo[n])
        BY DEF TodoOK
      <4>1. /\ User.todo[n] \in Roles /\ n \in Notes
            /\ TagOK(Backed', Leaves', Recalled', "signing", n, User.todo[n])
        <5>1. User.todo \in Lists(Tags)
          BY <1>1 DEF JobOK, JobSet
        <5>2. n \in Notes
          BY <5>1, ListDomain
        <5> QED
          BY <1>1, <3>1, <5>2 DEF JobOK, TodoOK, TagsOf
      <4>2. User.todo \in pending'
        BY <2>2 DEF UserBroadcast
      <4>3. ASSUME NEW role, role = User.todo[n] PROVE Unsettled(n, role)'
        <5>1. \E tx \in pending' \cup failed' : n \in DOMAIN tx /\ tx[n] = role
          BY <4>2, <4>3
        <5> QED
          BY <5>1 DEF Unsettled
      <4>4. User.todo[n] = "change" => n \in Backed'
        <5>1. ASSUME User.todo[n] = "change" PROVE Unsettled(n, "change")'
          BY <4>3, <5>1
        <5> QED
          BY <4>1, <5>1 DEF Backed
      <4>5. User.todo[n] = "cancel" => n \in Recalled'
        <5>1. ASSUME User.todo[n] = "cancel" PROVE Unsettled(n, "cancel")'
          BY <4>3, <5>1
        <5> QED
          BY <4>1, <5>1 DEF Recalled
      <4>6. User.todo[n] \in TagsOf("recording")
        BY <4>1 DEF TagsOf
      <4> QED
        BY <4>1, <4>4, <4>5, <4>6 DEF TagOK
    <3>4. JobOK(Backed', Leaves', Recalled', r)
      BY <3>2, <3>3 DEF JobOK, WriteOK
    <3>5. job' = [job EXCEPT !["user"] = r]
      BY <2>2, <1>1 DEF UserBroadcast, User
    <3> HIDE DEF r
    <3> QED
      BY <1>1, <1>5, <3>4, <3>5, GotoOK
  <2> QED
    BY <2>1, <2>2 DEF UserGivesUp
<1>7. RestOK' /\ UNCHANGED store
  BY DEF UserBroadcast, UserGivesUp, history, DeviceInv, RestOK
<1> QED
  BY <1>2, <1>4, <1>5, <1>6, <1>7 DEF DeviceInv

LEMMA UserRecordOK ==
  ASSUME DeviceInv, NEW n \in Notes, UserRecord(n)
  PROVE  DeviceInv'
<1> DEFINE rest == [User EXCEPT !.todo = Without(User.todo, n)]
           r == IF Without(User.todo, n) = << >> THEN Idle ELSE rest
           role == User.todo[n]
           queued == [state |-> "queued", leafIndex |-> FALSE]
           change == [state |-> "spendable", leafIndex |-> FALSE]
           record == [store[n] EXCEPT !.state = To[role]]
<1>1. /\ JobOK(Backed, Leaves, Recalled, User) /\ User.write = NoWrite /\ n \in DOMAIN User.todo
      /\ User.pc = "recording" /\ "user" \in Jobs
  BY DeviceTypes DEF UserRecord, Ready, Writing, User, Jobs
<1>2. JobOK(Backed, Leaves, Recalled, r)
  BY <1>1, WithoutOK, IdleOK
<1>3. role \in {"shield", "cancel", "spend", "change"} /\ TagOK(Backed, Leaves, Recalled, "recording", n, role)
  BY <1>1 DEF JobOK, TodoOK, TagsOf, Roles, From
<1>4. RecordOK(Backed, Leaves, Recalled, n, queued)
  BY DEF RecordOK, StoredNote, NoteStates
<1>5. role = "change" => RecordOK(Backed, Leaves, Recalled, n, change)
  BY <1>3 DEF TagOK, RecordOK, StoredNote, NoteStates
<1>6. role \in {"cancel", "spend"} /\ n \in DOMAIN store =>
        PatchedOK(Backed, Leaves, Recalled, n, record)
  <2> SUFFICES ASSUME role \in {"cancel", "spend"}, n \in DOMAIN store
               PROVE  PatchedOK(Backed, Leaves, Recalled, n, record)
    OBVIOUS
  <2>1. RecordOK(Backed, Leaves, Recalled, n, store[n]) /\ store[n].state \in NoteStates
    BY DeviceTypes DEF RecordOK, StoredNote
  <2>2. /\ To[role] \in {"cancelled", "spent"} /\ (To[role] = "cancelled" => role = "cancel")
        /\ (To[role] = "spent" => role = "spend")
    BY DEF To
  <2>3. record \in StoredNote /\ record.state = To[role] /\ record.leafIndex = store[n].leafIndex
    BY <2>1, <2>2 DEF RecordOK, StoredNote, NoteStates
  <2>4. RecordOK(Backed, Leaves, Recalled, n, record)
    BY <1>3, <2>1, <2>2, <2>3 DEF RecordOK, TagOK
  <2>5. CASE role = "spend"
    <3>1. ~Advances("spent", store[n].state)
      BY <2>1 DEF Advances, AdvancementRank, NoteStates
    <3> QED
      BY <2>2, <2>3, <2>4, <2>5, <3>1 DEF PatchedOK
  <2>6. CASE role = "cancel"
    <3>1. n \in Recalled \cap Own
      BY <1>3, <2>6 DEF TagOK, RoleOK, Roles, From
    <3>2. record = [store[n] EXCEPT !.state = "cancelled"]
      BY <2>6 DEF To
    <3> HIDE DEF record
    <3> QED
      BY <2>4, <3>1, <3>2 DEF PatchedOK
  <2> QED
    BY <2>5, <2>6
<1>7. \/ AppendNote("user", r, n, queued)
      \/ role = "change" /\ AppendNote("user", r, n, change)
      \/ role \in {"cancel", "spend"} /\ PatchNoteByLeaf("user", r, n, record)
  BY <1>3 DEF UserRecord
<1> HIDE DEF r, queued, change, record
<1>8. JobsOK(Backed, Leaves, Recalled, job') /\ UNCHANGED store /\ mishaps' \in Nat
  BY <1>1, <1>2, <1>4, <1>5, <1>6, <1>7, AppendOK, PatchOK DEF DeviceInv, RestOK
<1> QED
  BY <1>8, WorldStandsStill DEF UserRecord, DeviceInv, RestOK

\* IndexedDB answers: the list that replaces the store is true.
LEMMA FinishWriteOK ==
  ASSUME DeviceInv, NEW j \in Jobs, FinishWrite(j)
  PROVE  /\ DeviceInv'
         /\ DOMAIN store' = DOMAIN job[j].write.base \cup {job[j].write.note}
         /\ store'[job[j].write.note] = job[j].write.record
         /\ \A n \in DOMAIN job[j].write.base \ {job[j].write.note} :
              store'[n] = job[j].write.base[n]
         /\ NoStepBack(Recalled, job[j].write)
         /\ \A n \in DOMAIN job[j].write.base :
              RecordOK(Backed, Leaves, Recalled, n, job[j].write.base[n])
<1> DEFINE w == job[j].write
           r == [job[j] EXCEPT !.write = NoWrite]
<1>1. /\ JobOK(Backed, Leaves, Recalled, job[j]) /\ w # NoWrite
      /\ store' = Put(w.base, w.note, w.record)
  BY DeviceTypes DEF FinishWrite, Writing
<1>2. /\ w \in Pending /\ RecordOK(Backed, Leaves, Recalled, w.note, w.record)
      /\ ListOK(Backed, Leaves, Recalled, w.base)
      /\ NoStepBack(Recalled, w)
  BY <1>1 DEF JobOK, WriteOK
<1>3. /\ w.base \in Lists(StoredNote) /\ w.note \in Notes /\ w.record \in StoredNote
      /\ \A n \in DOMAIN w.base : RecordOK(Backed, Leaves, Recalled, n, w.base[n])
  BY <1>2 DEF Pending, ListOK
<1>4. /\ store' \in Lists(StoredNote) /\ DOMAIN store' = DOMAIN w.base \cup {w.note}
      /\ store'[w.note] = w.record
      /\ \A n \in DOMAIN w.base \ {w.note} : store'[n] = w.base[n]
  <2> PICK base, note, record : base = w.base /\ note = w.note /\ record = w.record
    OBVIOUS
  <2>1. base \in Lists(StoredNote) /\ note \in Notes /\ record \in StoredNote
    BY <1>3
  <2>2. Put(base, note, record) \in Lists(StoredNote)
    BY <2>1, PutList
  <2>3. store' = Put(base, note, record)
    BY <1>1
  <2> HIDE DEF w
  <2>4. /\ DOMAIN Put(base, note, record) = DOMAIN base \cup {note}
        /\ Put(base, note, record)[note] = record
    BY PutFacts
  <2>5. \A n \in DOMAIN base \ {note} : Put(base, note, record)[n] = base[n]
    BY PutFacts
  <2>6. store' \in Lists(StoredNote) /\ DOMAIN store' = DOMAIN w.base \cup {w.note}
    BY <2>2, <2>3, <2>4
  <2>7. store'[w.note] = w.record
    BY <2>3, <2>4
  <2>8. \A n \in DOMAIN w.base \ {w.note} : store'[n] = w.base[n]
    BY <2>3, <2>5
  <2> QED
    BY <2>6, <2>7, <2>8
<1>5. ListOK(Backed, Leaves, Recalled, store')
  BY <1>2, <1>3, <1>4 DEF ListOK
<1>6. r \in JobSet /\ r.pc = job[j].pc /\ r.todo = job[j].todo /\ r.write = NoWrite
  BY <1>1 DEF JobOK, JobSet
<1>7. JobOK(Backed, Leaves, Recalled, r)
  BY <1>1, <1>6 DEF JobOK, WriteOK
<1>8. job' = [job EXCEPT ![j] = r]
  BY DEF FinishWrite
<1> HIDE DEF r
<1>9. JobsOK(Backed, Leaves, Recalled, job')
  BY <1>7, <1>8, GotoOK DEF DeviceInv
<1>10. RestOK'
  <2>1. DOMAIN store \subseteq Notes
    BY DeviceTypes
  <2> QED
    BY <2>1 DEF FinishWrite, DeviceInv, RestOK
<1>11. DeviceInv'
  BY <1>5, <1>9, <1>10, WorldStandsStill DEF FinishWrite
<1> QED
  BY <1>1, <1>2, <1>3, <1>4, <1>11

LEMMA DeviceStartsAnew ==
  ASSUME DeviceInv, Reload \/ Wipe
  PROVE  DeviceInv'
<1>1. JobsOK(Backed, Leaves, Recalled, job')
  BY AllIdleOK DEF Reload, Wipe, DeviceInv
<1>2. ListOK(Backed, Leaves, Recalled, store')
  <2>1. ListOK(Backed, Leaves, Recalled, << >>)
    BY EmptyIsList DEF ListOK
  <2> QED
    BY <2>1 DEF Reload, Wipe, DeviceInv
<1>3. RestOK'
  BY DEF Reload, Wipe, Mishap, DeviceInv, RestOK
<1> QED
  BY <1>1, <1>2, <1>3, WorldStandsStill DEF Reload, Wipe

LEMMA DeviceStutters ==
  ASSUME DeviceInv, UNCHANGED vars
  PROVE  DeviceInv'
BY WorldStandsStill DEF vars, history, DeviceInv, RestOK

LEMMA NextDevice == DeviceInv /\ [Next]_vars => DeviceInv'
<1> SUFFICES ASSUME DeviceInv, [Next]_vars PROVE DeviceInv'
  OBVIOUS
<1>1. CASE ChainMoves \/ Mine \/ Drop \/ \E n \in Notes : Index(n)
  BY <1>1, WorldKeepsDevice
<1>2. CASE SyncStart \/ BackfillLeafIndices \/ SyncStep
  BY <1>2, SyncStartOK, BackfillOK, SyncRowOK, SaveCursorOK, ScanNoteOK, ReconcileOK,
     MarkSpentOK DEF SyncStep
<1>3. CASE WatchStart \/ \E n \in Own : WatchRow(n)
  BY <1>3, WatchStartOK, WatchRowOK
<1>4. CASE \/ \E n \in Own : UserShield(n) \/ UserCancel(n)
           \/ \E n \in Notes, change \in SUBSET Received : UserSpend(n, change)
  BY <1>4, UserBeginsOK
<1>5. CASE UserBroadcast \/ UserGivesUp
  BY <1>5, SignedOK
<1>6. CASE (\E n \in Notes : UserRecord(n)) \/ \E j \in Jobs : FinishWrite(j)
  BY <1>6, UserRecordOK, FinishWriteOK
<1>7. CASE Reload \/ Wipe
  BY <1>7, DeviceStartsAnew
<1>8. CASE UNCHANGED vars
  BY <1>8, DeviceStutters
<1> QED
  BY <1>1, <1>2, <1>3, <1>4, <1>5, <1>6, <1>7, <1>8 DEF Next

LEMMA DeviceHolds == Spec => []DeviceInv
<1> QED
  BY InitDevice, NextDevice, PTL DEF Spec

\* The device's state has its type, whatever the jobs are doing.
THEOREM DeviceTyped == Spec => []TypeOK
<1>1. DeviceInv => TypeOK
  <2> SUFFICES ASSUME DeviceInv PROVE TypeOK
    OBVIOUS
  <2>1. indexed \in [Notes -> 0 .. 4]
    <3>1. ASSUME NEW n \in Notes PROVE indexed[n] \in 0 .. 4
      <4>1. LogFacts(n) /\ indexed[n] \in Nat /\ indexed[n] <= Len(LogsOf(n))
        BY LogsAre DEF DeviceInv, WorldOK
      <4>2. PICK length \in 0 .. 4 : length = Len(LogsOf(n))
        BY <4>1 DEF LogFacts
      <4>3. indexed[n] \in Nat /\ indexed[n] <= length
        BY <4>1, <4>2
      <4> QED
        BY <4>2, <4>3
    <3> QED
      BY <3>1 DEF DeviceInv, WorldOK
  <2>2. ASSUME NEW R, NEW f \in Lists(R)
        PROVE  DOMAIN f \subseteq Notes /\ Range(f) \subseteq R
    BY ListDomain DEF Range
  <2>3. ASSUME NEW j \in Jobs PROVE JobType(job[j])
    <3>1. job[j] \in JobSet
      BY DeviceTypes
    <3>2. DOMAIN job[j].todo \subseteq Notes /\ Range(job[j].todo) \subseteq Tags
      BY <2>2, <3>1 DEF JobSet
    <3>3. job[j].write = NoWrite \/ job[j].write \in Pending
      BY <3>1 DEF JobSet
    <3>4. job[j].write \in Pending => /\ DOMAIN job[j].write.base \subseteq Notes
                                      /\ Range(job[j].write.base) \subseteq StoredNote
      BY <2>2 DEF Pending
    <3> QED
      BY <3>1, <3>2, <3>3, <3>4 DEF JobType, JobSet, PCs, Tags, Pending
  <2>4. DOMAIN store \subseteq Notes /\ Range(store) \subseteq StoredNote
    BY <2>2, DeviceTypes
  <2>5. \A tx \in pending \cup failed : DOMAIN tx \subseteq Notes /\ Range(tx) \subseteq Roles
    BY <2>2 DEF DeviceInv, WorldOK, TxOK
  <2>6. clobbered \cup skipped \cup tied \subseteq Notes /\ cast \subseteq Notes
    BY DEF DeviceInv, WorldOK, RestOK
  <2>7. DOMAIN job = Jobs
    BY DeviceTypes
  <2> QED
    BY <2>1, <2>3, <2>4, <2>5, <2>6, <2>7, DeviceTypes DEF TypeOK, DeviceInv, WorldOK, ChainOK, RestOK
<1> QED
  BY <1>1, DeviceHolds, PTL

\* The balance counts no note that is not in the tree, but for the change of a
\* spend of this device that is not mined or failed, and a note has a position
\* only once its leaf is known, however the sync, the watcher and the sheets
\* overwrite one another and whichever transactions are dropped or revert.
THEOREM SpendableLanded == Spec => []SpendableHasLanded
<1>1. DeviceInv => SpendableHasLanded
  BY DeviceTypes DEF SpendableHasLanded, RecordOK, Backed, Landed, Leaves
<1> QED
  BY <1>1, DeviceHolds, PTL

\* Only an answer of IndexedDB and an eviction change the list in memory.
LEMMA StoreChanges ==
  ASSUME [Next]_vars
  PROVE  UNCHANGED store \/ Wipe \/ \E j \in Jobs : FinishWrite(j)
<1>1. CASE ChainMoves \/ Mine \/ Drop \/ \E n \in Notes : Index(n)
  BY <1>1 DEF ChainMoves, Mine, Index, Drop
<1>2. CASE SyncStart \/ BackfillLeafIndices \/ SyncStep
  BY <1>2 DEF SyncStart, BackfillLeafIndices, SyncStep, SyncRow, SaveCursor, ScanNote,
     ReconcileSpentNotes, MarkSpent, AppendNote, PatchNoteByLeaf, Writes
<1>3. CASE WatchStart \/ \E n \in Own : WatchRow(n)
  BY <1>3 DEF WatchStart, WatchRow, PatchNoteByLeaf, Writes
<1>4. CASE \/ \E n \in Own : UserShield(n) \/ UserCancel(n)
           \/ \E n \in Notes, change \in SUBSET Received : UserSpend(n, change)
  BY <1>4 DEF UserShield, UserCancel, UserSpend, Begin
<1>5. CASE UserBroadcast \/ UserGivesUp
  BY <1>5 DEF UserBroadcast, UserGivesUp
<1>6. CASE \E n \in Notes : UserRecord(n)
  BY <1>6 DEF UserRecord, AppendNote, PatchNoteByLeaf, Writes
<1>7. CASE Reload
  BY <1>7 DEF Reload
<1>8. CASE UNCHANGED vars
  BY <1>8 DEF vars
<1> QED
  BY <1>1, <1>2, <1>3, <1>4, <1>5, <1>6, <1>7, <1>8 DEF Next

\* No note goes back and none disappears, unless an overlapping write or an
\* evicted database undid it, or this device's own cancel that has not gone
\* through is written over it: nothing else that is written steps back from what
\* was there when the write began.
THEOREM NotesStepForward == Spec => StepsForward
<1> DEFINE Forward(n) ==
             \/ n \in DOMAIN store' /\ ~Advances(store'[n].state, store[n].state)
             \/ n \in clobbered'
             \/ /\ Unsettled(n, "cancel") /\ n \in DOMAIN store'
                /\ store'[n] = [store[n] EXCEPT !.state = "cancelled"]
             \/ store' = << >> /\ cursor' = 0
<1>0. ASSUME DeviceInv, NEW n \in DOMAIN store
      PROVE  ~Advances(store[n].state, store[n].state)
  <2>1. store[n].state \in NoteStates
    BY <1>0, DeviceTypes DEF RecordOK, StoredNote
  <2> QED
    BY <2>1 DEF Advances, AdvancementRank, NoteStates
<1>1. ASSUME DeviceInv, NEW j \in Jobs, FinishWrite(j), NEW n \in DOMAIN store
      PROVE  Forward(n)
  <2> PICK base, note, record :
        base = job[j].write.base /\ note = job[j].write.note /\ record = job[j].write.record
    OBVIOUS
  <2>1. /\ DOMAIN store' = DOMAIN base \cup {note} /\ store'[note] = record
        /\ \A m \in DOMAIN base \ {note} : store'[m] = base[m]
        /\ NoStepBack(Recalled, job[j].write)
        /\ \A m \in DOMAIN base : RecordOK(Backed, Leaves, Recalled, m, base[m])
    BY <1>1, FinishWriteOK
  <2>2. n \in clobbered' \/ (n \in DOMAIN base /\ base[n] = store[n])
    BY <1>1 DEF FinishWrite
  <2>3. CASE n \in clobbered'
    BY <2>3
  <2>4. CASE n \in DOMAIN base /\ base[n] = store[n] /\ n = note
    <3>1. n \in DOMAIN store' /\ store'[n] = record
      BY <2>1, <2>4
    <3>2. CASE ~Advances(record.state, store[n].state)
      BY <3>1, <3>2
    <3>3. CASE /\ Advances(record.state, store[n].state)
               /\ n \in Recalled \cap Own /\ record = [store[n] EXCEPT !.state = "cancelled"]
      <4>1. store[n] \in StoredNote /\ store[n].state \in NoteStates /\ n \in Notes
        BY <1>1, DeviceTypes DEF RecordOK, StoredNote
      <4>2. record.state = "cancelled"
        BY <3>3, <4>1 DEF StoredNote
      <4>3. store[n].state = "spent"
        BY <3>3, <4>1, <4>2 DEF Advances, AdvancementRank, NoteStates
      <4>4. n \in Backed
        BY <1>1, <4>3, DeviceTypes DEF RecordOK
      <4>5. ~Unsettled(n, "change")
        BY <1>1, <3>3, WalletAssumption DEF DeviceInv, WorldOK, TxOK, RoleOK, Unsettled
      <4>6. chain[n] # "cancelled"
        BY <4>4, <4>5 DEF Backed, Landed
      <4>7. Unsettled(n, "cancel")
        BY <3>3, <4>6 DEF Recalled
      <4> QED
        BY <3>1, <3>3, <4>7
    <3> QED
      BY <2>1, <2>4, <3>2, <3>3 DEF NoStepBack
  <2>5. CASE n \in DOMAIN base /\ base[n] = store[n] /\ n # note
    <3>1. n \in DOMAIN store' /\ store'[n] = store[n]
      BY <2>1, <2>5
    <3> QED
      BY <1>0, <1>1, <3>1
  <2> QED
    BY <2>2, <2>3, <2>4, <2>5
<1>2. DeviceInv /\ [Next]_vars => \A n \in DOMAIN store : Forward(n)
  <2> SUFFICES ASSUME DeviceInv, [Next]_vars, NEW n \in DOMAIN store PROVE Forward(n)
    OBVIOUS
  <2>1. CASE UNCHANGED store
    BY <1>0, <2>1
  <2>2. CASE Wipe
    BY <2>2 DEF Wipe
  <2> HIDE DEF Forward
  <2> QED
    BY <1>1, <2>1, <2>2, StoreChanges
<1> QED
  BY <1>2, DeviceHolds, PTL DEF Spec, StepsForward

-----------------------------------------------------------------------------
(* What the sync is done with is on the device *)

\* What is on the device or accounted for.
Kept == DOMAIN store \cup clobbered \cup skipped \cup tied

\* Every row has a time, and no time read from the rows is ahead of them all.
Timed == \A n \in Own : indexed[n] > 0 => queuedAt[n] > 0
Reached(t) == t <= ForOthers \/ \E n \in Own : t <= queuedAt[n]

\* A sync under way still holds what it is to hydrate.
SyncHolds ==
  \A n \in Own :
    (row[n] # "none" /\ queuedAt[n] <= Sync.max)
      => \/ n \in Kept \cup DOMAIN Sync.todo
         \/ Writing("sync") /\ n = Sync.write.note

HydrationInv ==
  /\ Timed /\ Reached(cursor) /\ HydratedBehindCursor
  /\ RowsRead => Reached(Sync.max) /\ SyncHolds

LEMMA InitHydration == Init => HydrationInv
<1> SUFFICES ASSUME Init PROVE HydrationInv
  OBVIOUS
<1>1. \A n \in Own : row[n] = "none"
  <2>1. WorldOK
    BY InitDevice DEF DeviceInv
  <2> QED
    BY <2>1, RowIsTrue DEF Init, Notes
<1>2. Sync.pc = "idle"
  BY DEF Init, Sync, Idle, Jobs
<1> QED
  BY <1>1, <1>2 DEF Init, HydrationInv, Timed, Reached, ForOthers, HydratedBehindCursor, RowsRead, Notes

\* A step that reads no rows and forgets nothing.
LEMMA HydrationStays ==
  ASSUME HydrationInv, UNCHANGED <<indexed, queuedAt, row, cursor>>, Kept \subseteq Kept',
         job'["sync"] = job["sync"] \/ job'["sync"].pc \notin {"rows", "unlisted"}
  PROVE  HydrationInv'
<1>1. Timed' /\ Reached(cursor)'
  BY DEF HydrationInv, Timed, Reached
<1>2. HydratedBehindCursor'
  BY DEF HydrationInv, HydratedBehindCursor, Kept
<1>3. RowsRead' => Reached(Sync.max)' /\ SyncHolds'
  <2> SUFFICES ASSUME RowsRead' PROVE Reached(Sync.max)' /\ SyncHolds'
    OBVIOUS
  <2>1. Sync' = Sync /\ RowsRead
    BY DEF RowsRead, Sync
  <2>2. Reached(Sync.max)'
    BY <2>1 DEF HydrationInv, Reached
  <2>3. SyncHolds'
    BY <2>1 DEF HydrationInv, SyncHolds, Writing, Sync
  <2> QED
    BY <2>2, <2>3
<1> QED
  BY <1>1, <1>2, <1>3 DEF HydrationInv

\* What a step of one job leaves the jobs doing.
LEMMA JobAfter ==
  ASSUME job \in [Jobs -> JobSet], NEW j \in Jobs, NEW r \in JobSet, NEW n, NEW record,
         \/ job' = [job EXCEPT ![j] = r] /\ UNCHANGED store
         \/ AppendNote(j, r, n, record) \/ PatchNoteByLeaf(j, r, n, record)
  PROVE  /\ UNCHANGED store
         /\ job'[j].pc = r.pc /\ job'[j].todo = r.todo /\ job'[j].max = r.max
         /\ \A k \in Jobs \ {j} : job'[k] = job[k]
         /\ AppendNote(j, r, n, record) =>
              n \in DOMAIN store \/ (Writing(j)' /\ job'[j].write.note = n)
<1> DEFINE w == [note |-> n, record |-> record, base |-> store]
           s == [r EXCEPT !.write = w]
<1>1. s.pc = r.pc /\ s.todo = r.todo /\ s.max = r.max /\ s.write = w /\ w.note = n
  BY DEF JobSet
<1>2. w # NoWrite
  <2>1. "base" \in DOMAIN w /\ "base" \notin DOMAIN NoWrite
    BY DEF NoWrite
  <2> QED
    BY <2>1
<1>3. UNCHANGED store /\ (job' = [job EXCEPT ![j] = r] \/ job' = [job EXCEPT ![j] = s])
  BY DEF AppendNote, PatchNoteByLeaf, Writes
<1>4. AppendNote(j, r, n, record) => n \in DOMAIN store \/ job' = [job EXCEPT ![j] = s]
  BY DEF AppendNote, Writes
<1> HIDE DEF w, s
<1>5. job'[j] = r \/ job'[j] = s
  BY <1>3
<1>6. \A k \in Jobs \ {j} : job'[k] = job[k]
  BY <1>3
<1> QED
  BY <1>1, <1>2, <1>3, <1>4, <1>5, <1>6 DEF Writing

\* The world moves on, except for the indexer.
LEMMA WorldHydrates ==
  ASSUME DeviceInv, HydrationInv, ChainMoves \/ Mine \/ Drop
  PROVE  HydrationInv'
<1>1. UNCHANGED <<indexed, queuedAt, row>>
  BY ChainMovesOK, MineOK, DropOK DEF ChainMoves, Mine, Drop, DeviceInv
<1>2. UNCHANGED <<store, cursor, job, clobbered, skipped, tied>>
  BY DEF ChainMoves, Mine, Drop, history
<1> QED
  BY <1>1, <1>2, HydrationStays DEF Kept

LEMMA NoRowNext == WorldOK' => \A m \in Own : row'[m] = "none" <=> indexed'[m] = 0
<1>1. WorldOK => \A m \in Own : row[m] = "none" <=> indexed[m] = 0
  BY RowIsTrue
<1>2. (WorldOK => \A m \in Own : row[m] = "none" <=> indexed[m] = 0)'
  BY <1>1, PTL
<1> QED
  BY <1>2

\* The indexer writes a log: a row that is new is ahead of every cursor.
LEMMA IndexHydrates ==
  ASSUME DeviceInv, HydrationInv, NEW n \in Notes, Index(n)
  PROVE  HydrationInv'
<1>1. /\ WorldOK /\ WorldOK' /\ indexed[n] \in Nat /\ indexed'[n] = indexed[n] + 1
      /\ \A m \in Notes \ {n} : indexed'[m] = indexed[m]
  BY IndexOK DEF DeviceInv
<1>2. UNCHANGED <<store, cursor, job, clobbered, skipped>> /\ tied \subseteq tied'
  BY DEF Index
<1>3. queuedAt \in [Own -> Nat] /\ queuedAt' \in [Own -> Nat] /\ cursor \in Nat
  BY <1>1 DEF WorldOK, DeviceInv, RestOK
<1>4. RowsRead => Sync.max \in Nat
  BY DeviceTypes DEF Sync, Jobs, JobSet
<1>5. \A m \in Own : row[m] = "none" <=> indexed[m] = 0
  BY <1>1, RowIsTrue
<1>6. \A m \in Own : row'[m] = "none" <=> indexed'[m] = 0
  BY <1>1, NoRowNext
<1>7. CASE UNCHANGED queuedAt /\ (n \in Own => indexed[n] > 0)
  <2>1. \A m \in Own : row'[m] # "none" => row[m] # "none"
    BY <1>1, <1>5, <1>6, <1>7 DEF Notes
  <2>2. Timed' /\ Reached(cursor)'
    BY <1>1, <1>2, <1>7 DEF HydrationInv, Timed, Reached, Notes
  <2>3. HydratedBehindCursor'
    BY <1>2, <1>7, <2>1 DEF HydrationInv, HydratedBehindCursor, Kept
  <2>4. RowsRead' => Reached(Sync.max)' /\ SyncHolds'
    BY <1>2, <1>7, <2>1 DEF HydrationInv, RowsRead, Reached, SyncHolds, Sync, Writing, Kept
  <2> QED
    BY <2>2, <2>3, <2>4 DEF HydrationInv
<1>8. CASE n \in Own /\ indexed[n] = 0
  <2>1. PICK t \in {Latest, Latest + 1} :
          queuedAt' = [queuedAt EXCEPT ![n] = t] /\ (t = Latest => n \in tied')
    <3>1. Latest + 1 # Latest
      BY <1>1, LatestIs
    <3> QED
      BY <1>8, <3>1 DEF Index
  <2>2. /\ t \in Nat /\ t >= ForOthers /\ t > 0 /\ Latest \in Nat /\ Latest >= ForOthers
        /\ \A m \in Own : queuedAt[m] <= Latest /\ queuedAt[m] <= t
    BY <1>1, <1>3, <2>1, LatestIs DEF ForOthers
  <2>3. queuedAt'[n] = t /\ \A m \in Own \ {n} : queuedAt'[m] = queuedAt[m]
    BY <1>3, <1>8, <2>1
  <2>4. \A m \in Own : queuedAt[m] <= queuedAt'[m]
    BY <1>3, <2>2, <2>3
  <2>5. ASSUME NEW x \in Nat, Reached(x) PROVE Reached(x)' /\ x <= Latest
    BY <1>3, <2>2, <2>4, <2>5 DEF Reached, ForOthers
  <2>6. \A m \in Own \ {n} : row'[m] # "none" => row[m] # "none"
    BY <1>1, <1>5, <1>6 DEF Notes
  <2>7. ASSUME NEW x \in Nat, Reached(x), queuedAt'[n] <= x PROVE n \in tied'
    <3>1. x <= Latest
      BY <2>5, <2>7
    <3> QED
      BY <2>1, <2>2, <2>3, <2>7, <3>1
  <2>8. Timed' /\ Reached(cursor)'
    <3>1. Timed'
      BY <1>1, <2>2, <2>3 DEF HydrationInv, Timed, Notes
    <3> QED
      BY <1>2, <1>3, <2>5, <3>1 DEF HydrationInv, Reached
  <2>9. HydratedBehindCursor'
    <3>1. queuedAt'[n] <= cursor => n \in tied'
      BY <1>3, <2>7 DEF HydrationInv
    <3> QED
      BY <1>2, <2>3, <2>6, <3>1 DEF HydrationInv, HydratedBehindCursor
  <2>10. RowsRead' => Reached(Sync.max)' /\ SyncHolds'
    <3> SUFFICES ASSUME RowsRead' PROVE Reached(Sync.max)' /\ SyncHolds'
      OBVIOUS
    <3>1. Sync' = Sync /\ RowsRead /\ Writing("sync")' = Writing("sync")
      BY <1>2 DEF RowsRead, Sync, Writing
    <3>2. Reached(Sync.max) /\ Sync.max \in Nat
      BY <1>4, <3>1 DEF HydrationInv
    <3>3. Reached(Sync.max)'
      <4> PICK x : x = Sync.max
        OBVIOUS
      <4>1. Reached(x)'
        BY <2>5, <3>2
      <4> QED
        BY <3>1, <4>1 DEF Reached
    <3>4. queuedAt'[n] <= Sync.max => n \in tied'
      BY <2>7, <3>2
    <3>5. SyncHolds'
      BY <1>2, <2>3, <2>6, <3>1, <3>4 DEF HydrationInv, SyncHolds, Kept
    <3> QED
      BY <3>3, <3>5
  <2> QED
    BY <2>8, <2>9, <2>10 DEF HydrationInv
<1>9. UNCHANGED queuedAt \/ (n \in Own /\ indexed[n] = 0)
  BY DEF Index
<1>10. indexed[n] = 0 \/ indexed[n] > 0
  BY <1>1
<1>11. (n \in Own /\ indexed[n] = 0) \/ (UNCHANGED queuedAt /\ (n \in Own => indexed[n] > 0))
  BY <1>9, <1>10
<1> QED
  BY <1>7, <1>8, <1>11

LEMMA RowStands == DeviceInv /\ UNCHANGED world => UNCHANGED <<indexed, queuedAt, row, tied>>
BY WorldStutters DEF DeviceInv, world

LEMMA SyncStartHydrates ==
  ASSUME DeviceInv, HydrationInv, SyncStart
  PROVE  HydrationInv'
<1> DEFINE rows == {n \in Own : row[n] # "none"}
           f == [n \in {k \in rows : Newer(k)} |-> row[n]]
           U == {cursor, ForOthers} \cup {queuedAt[n] : n \in rows}
           m == Max(U)
           r(pc) == [pc |-> pc, todo |-> f, max |-> m, write |-> NoWrite]
<1>1. UNCHANGED <<indexed, queuedAt, row, tied>> /\ UNCHANGED <<store, cursor, clobbered, skipped>>
  BY RowStands DEF SyncStart
<1>2. /\ \E pc : job' = [job EXCEPT !["sync"] = r(pc)]
      /\ job \in [Jobs -> JobSet] /\ "sync" \in Jobs
  BY DeviceTypes DEF SyncStart, Jobs
<1>3. m \in U
  <2>1. rows \in SUBSET Own /\ cursor \in Nat /\ WorldOK
    BY DEF DeviceInv, RestOK
  <2> HIDE DEF rows
  <2> QED
    BY <2>1, SyncMaxIs
<1>4. DOMAIN f = {k \in rows : queuedAt[k] > cursor}
  BY DEF Newer
<1>5. queuedAt \in [Own -> Nat] /\ cursor \in Nat
  BY DEF DeviceInv, WorldOK, RestOK
<1>6. Reached(m)
  <2>1. Reached(cursor) /\ Reached(ForOthers)
    BY DEF HydrationInv, Reached, ForOthers
  <2>2. ASSUME NEW n \in rows, m = queuedAt[n] PROVE Reached(m)
    BY <1>5, <2>2 DEF Reached
  <2> HIDE DEF m, rows
  <2> QED
    BY <1>3, <2>1, <2>2
<1>7. \A n \in Own : row[n] # "none" => n \in Kept \cup DOMAIN f
  BY <1>4, <1>5 DEF HydrationInv, HydratedBehindCursor, Kept
<1> HIDE DEF rows, f, m
<1>8. Sync'.max = m /\ Sync'.todo = f
  <2>1. PICK pc : job' = [job EXCEPT !["sync"] = r(pc)]
    BY <1>2
  <2>2. job'["sync"] = r(pc)
    BY <1>2, <2>1
  <2> QED
    BY <2>2 DEF Sync
<1> HIDE DEF r
<1>9. Timed' /\ Reached(cursor)' /\ HydratedBehindCursor'
  BY <1>1 DEF HydrationInv, Timed, Reached, HydratedBehindCursor
<1>10. Reached(Sync.max)'
  BY <1>1, <1>6, <1>8 DEF Reached
<1>11. SyncHolds'
  BY <1>1, <1>7, <1>8 DEF SyncHolds, Kept
<1> QED
  BY <1>9, <1>10, <1>11 DEF HydrationInv

\* The row a sync is done with is on the device, passed over, or being written.
LEMMA SyncRowHydrates ==
  ASSUME DeviceInv, HydrationInv, NEW n \in Own, SyncRow(n)
  PROVE  HydrationInv'
<1> DEFINE r == [Sync EXCEPT !.todo = Without(Sync.todo, n)]
           record == [state |-> ToIdb(Sync.todo[n]), leafIndex |-> FALSE]
<1>1. /\ JobOK(Backed, Leaves, Recalled, Sync) /\ Sync.write = NoWrite /\ ~Writing("sync")
      /\ Sync.pc \in {"rows", "unlisted"} /\ "sync" \in Jobs
      /\ job \in [Jobs -> JobSet]
  BY DeviceTypes DEF SyncRow, Writing, Sync, Jobs
<1>2. /\ r \in JobSet /\ r.todo = Without(Sync.todo, n) /\ r.max = Sync.max
      /\ DOMAIN Without(Sync.todo, n) = DOMAIN Sync.todo \ {n}
  BY <1>1, WithoutOK, RestIsJob
<1>3. \/ job' = [job EXCEPT !["sync"] = r] /\ UNCHANGED store /\ n \in skipped'
      \/ AppendNote("sync", r, n, record)
  BY DEF SyncRow
<1> HIDE DEF r, record
<1>4. /\ UNCHANGED store /\ Sync'.todo = r.todo /\ Sync'.max = r.max
      /\ AppendNote("sync", r, n, record) =>
           n \in DOMAIN store \/ (Writing("sync")' /\ Sync'.write.note = n)
  BY <1>1, <1>2, <1>3, JobAfter DEF Sync
<1>5. UNCHANGED <<indexed, queuedAt, row, tied>> /\ UNCHANGED <<cursor, clobbered>> /\ skipped \subseteq skipped'
  BY RowStands DEF SyncRow
<1>6. Kept \subseteq Kept'
  BY <1>4, <1>5 DEF Kept
<1>7. n \in Kept' \/ (Writing("sync")' /\ Sync'.write.note = n)
  BY <1>3, <1>4 DEF Kept
<1>8. Timed' /\ Reached(cursor)' /\ HydratedBehindCursor'
  BY <1>5, <1>6 DEF HydrationInv, Timed, Reached, HydratedBehindCursor, Kept
<1>9. Reached(Sync.max)'
  BY <1>1, <1>2, <1>4, <1>5 DEF HydrationInv, Reached, RowsRead
<1>10. SyncHolds'
  <2> SUFFICES ASSUME NEW k \in Own, row[k] # "none", queuedAt[k] <= Sync.max
               PROVE  \/ k \in Kept' \cup DOMAIN Sync'.todo
                      \/ Writing("sync")' /\ k = Sync'.write.note
    BY <1>2, <1>4, <1>5 DEF SyncHolds
  <2>1. k \in Kept \cup DOMAIN Sync.todo
    BY <1>1 DEF HydrationInv, SyncHolds, RowsRead
  <2>2. CASE k = n
    BY <1>7, <2>2
  <2>3. CASE k # n
    BY <1>2, <1>4, <1>6, <2>1, <2>3
  <2> QED
    BY <2>2, <2>3
<1> QED
  BY <1>8, <1>9, <1>10 DEF HydrationInv

\* The cursor is saved when nothing is left to hydrate.
LEMMA SaveCursorHydrates ==
  ASSUME DeviceInv, HydrationInv, SaveCursor
  PROVE  HydrationInv'
<1>1. /\ UNCHANGED <<indexed, queuedAt, row, tied>> /\ UNCHANGED <<store, clobbered, skipped>>
      /\ cursor' = Sync.max /\ RowsRead /\ ~Writing("sync") /\ DOMAIN Sync.todo = {}
  BY RowStands, EmptyIsList DEF SaveCursor, RowsDone, history
<1>2. Timed' /\ Reached(cursor)'
  BY <1>1 DEF HydrationInv, Timed, Reached
<1>3. HydratedBehindCursor'
  BY <1>1 DEF HydrationInv, HydratedBehindCursor, SyncHolds, Kept
<1>4. ~RowsRead'
  <2>1. job \in [Jobs -> JobSet] /\ "sync" \in Jobs
    BY DeviceTypes DEF Jobs
  <2>2. Sync'.pc \in {"idle", "scan"}
    BY <2>1 DEF SaveCursor, Sync, Idle
  <2> QED
    BY <2>2 DEF RowsRead
<1> QED
  BY <1>2, <1>3, <1>4 DEF HydrationInv

\* The other steps of the sync read no rows.
LEMMA SyncReadsNoRow ==
  ASSUME DeviceInv, HydrationInv,
         BackfillLeafIndices \/ ReconcileSpentNotes
           \/ \E n \in Notes : ScanNote(n) \/ MarkSpent(n)
  PROVE  HydrationInv'
<1>1. /\ job \in [Jobs -> JobSet] /\ "sync" \in Jobs
      /\ Sync \in JobSet /\ JobOK(Backed, Leaves, Recalled, Sync)
  BY DeviceTypes DEF Jobs, Sync
<1>2. UNCHANGED <<indexed, queuedAt, row, tied>> /\ UNCHANGED <<cursor, clobbered, skipped>>
  BY RowStands DEF BackfillLeafIndices, ReconcileSpentNotes, ScanNote, MarkSpent, history
<1>3. UNCHANGED store /\ job'["sync"].pc \notin {"rows", "unlisted"}
  <2>1. CASE BackfillLeafIndices
    BY <1>1, <2>1 DEF BackfillLeafIndices, Idle
  <2>2. CASE ReconcileSpentNotes
    BY <1>1, <2>2 DEF ReconcileSpentNotes, Idle, JobSet
  <2>3. ASSUME NEW n \in Notes, ScanNote(n)
        PROVE  UNCHANGED store /\ job'["sync"].pc \notin {"rows", "unlisted"}
    <3> DEFINE r == [Sync EXCEPT !.todo = Without(Sync.todo, n)]
    <3>1. Sync.write = NoWrite /\ Sync.pc \in {"scan", "backfill"}
      BY <2>3 DEF ScanNote, Writing, Sync
    <3>2. r \in JobSet
      BY <1>1, <3>1, RestIsJob
    <3>4. r.pc = Sync.pc
      BY <1>1, <3>1, WithoutOK
    <3>3. \/ job' = [job EXCEPT !["sync"] = r] /\ UNCHANGED store
          \/ \E record : AppendNote("sync", r, n, record) \/ PatchNoteByLeaf("sync", r, n, record)
      BY <2>3 DEF ScanNote
    <3> HIDE DEF r
    <3> QED
      BY <1>1, <3>1, <3>2, <3>3, <3>4, JobAfter
  <2>4. ASSUME NEW n \in Notes, MarkSpent(n)
        PROVE  UNCHANGED store /\ job'["sync"].pc \notin {"rows", "unlisted"}
    <3> DEFINE rest == [Sync EXCEPT !.todo = Without(Sync.todo, n)]
               r == IF Without(Sync.todo, n) = << >> THEN Idle ELSE rest
    <3>1. Sync.write = NoWrite /\ Sync.pc = "spent"
      BY <2>4 DEF MarkSpent, Ready, Writing, Sync
    <3>2. rest \in JobSet /\ rest.pc = Sync.pc /\ Idle \in JobSet /\ Idle.pc = "idle"
      <4>1. rest \in JobSet
        BY <1>1, <3>1, RestIsJob
      <4>2. rest.pc = Sync.pc
        BY <1>1, <3>1, WithoutOK
      <4>3. Idle \in JobSet
        BY IdleOK DEF JobOK
      <4> QED
        BY <4>1, <4>2, <4>3 DEF Idle
    <3>3. r \in JobSet /\ r.pc \in {"idle", "spent"}
      BY <3>1, <3>2
    <3>4. \E record : PatchNoteByLeaf("sync", r, n, record)
      BY <2>4 DEF MarkSpent
    <3> HIDE DEF r
    <3> QED
      BY <1>1, <3>3, <3>4, JobAfter
  <2> QED
    BY <2>1, <2>2, <2>3, <2>4
<1>4. Kept \subseteq Kept'
  BY <1>2, <1>3 DEF Kept
<1> QED
  BY <1>2, <1>3, <1>4, HydrationStays

\* The other jobs leave the sync as it is.
LEMMA OthersHydrate ==
  ASSUME DeviceInv, HydrationInv, UNCHANGED <<indexed, queuedAt, row, tied, cursor>>,
         NEW j \in Jobs \ {"sync"},
         \E r \in JobSet : \E n, record :
           \/ job' = [job EXCEPT ![j] = r] /\ UNCHANGED store
           \/ AppendNote(j, r, n, record) \/ PatchNoteByLeaf(j, r, n, record),
         UNCHANGED <<clobbered, skipped>>
  PROVE  HydrationInv'
<1>1. job \in [Jobs -> JobSet] /\ "sync" \in Jobs
  BY DeviceTypes DEF Jobs
<1>2. UNCHANGED store /\ job'["sync"] = job["sync"]
  BY <1>1, JobAfter
<1>3. Kept \subseteq Kept'
  BY <1>2 DEF Kept
<1> QED
  BY <1>2, <1>3, HydrationStays

LEMMA WatcherHydrates ==
  ASSUME DeviceInv, HydrationInv, WatchStart \/ \E n \in Own : WatchRow(n)
  PROVE  HydrationInv'
<1>1. /\ "watch" \in Jobs \ {"sync"} /\ job \in [Jobs -> JobSet] /\ Watch \in JobSet
      /\ JobOK(Backed, Leaves, Recalled, Watch)
  BY DeviceTypes DEF Jobs, Watch
<1>2. CASE WatchStart
  <2>1. UNCHANGED <<indexed, queuedAt, row, tied, cursor, store, clobbered, skipped>>
    BY <1>2, RowStands DEF WatchStart, history
  <2>2. job'["sync"] = job["sync"]
    BY <1>1, <1>2 DEF WatchStart, Jobs
  <2>3. Kept \subseteq Kept'
    BY <2>1 DEF Kept
  <2> QED
    BY <2>1, <2>2, <2>3, HydrationStays
<1>3. ASSUME NEW n \in Own, WatchRow(n) PROVE HydrationInv'
  <2> DEFINE rest == [Watch EXCEPT !.todo = Without(Watch.todo, n)]
             r == IF Without(Watch.todo, n) = << >> THEN Idle ELSE rest
  <2>1. Watch.write = NoWrite
    BY <1>3 DEF WatchRow, Ready, Writing, Watch
  <2>2. r \in JobSet
    BY <1>1, <2>1, RestIsJob, IdleOK DEF JobOK
  <2>3. UNCHANGED <<indexed, queuedAt, row, tied, cursor, clobbered, skipped>>
    BY <1>3, RowStands DEF WatchRow
  <2>4. \/ job' = [job EXCEPT !["watch"] = r] /\ UNCHANGED store
        \/ \E record : PatchNoteByLeaf("watch", r, n, record)
    BY <1>3 DEF WatchRow
  <2> HIDE DEF r
  <2> QED
    BY <1>1, <2>2, <2>3, <2>4, OthersHydrate
<1> QED
  BY <1>2, <1>3

\* What the sheets begin, broadcast and record leaves the sync as it is.
LEMMA SheetsHydrate ==
  ASSUME DeviceInv, HydrationInv,
         \/ \E roles : Begin(roles)
         \/ UserBroadcast \/ UserGivesUp
         \/ \E n \in Notes : UserRecord(n)
  PROVE  HydrationInv'
<1>1. /\ "user" \in Jobs \ {"sync"} /\ job \in [Jobs -> JobSet] /\ User \in JobSet
      /\ JobOK(Backed, Leaves, Recalled, User)
  BY DeviceTypes DEF Jobs, User
<1>2. CASE UserBroadcast \/ UserGivesUp \/ \E roles : Begin(roles)
  <2>1. UNCHANGED <<indexed, queuedAt, row, tied>>
    BY <1>2, RowStands, SignedOK DEF Begin
  <2>2. UNCHANGED <<cursor, store, clobbered, skipped>>
    BY <1>2 DEF UserBroadcast, UserGivesUp, Begin, history
  <2>3. job'["sync"] = job["sync"]
    BY <1>1, <1>2 DEF UserBroadcast, UserGivesUp, Begin, Jobs
  <2>4. Kept \subseteq Kept'
    BY <2>1, <2>2 DEF Kept
  <2> QED
    BY <2>1, <2>2, <2>3, <2>4, HydrationStays
<1>3. ASSUME NEW n \in Notes, UserRecord(n) PROVE HydrationInv'
  <2> DEFINE rest == [User EXCEPT !.todo = Without(User.todo, n)]
             r == IF Without(User.todo, n) = << >> THEN Idle ELSE rest
  <2>1. User.write = NoWrite
    BY <1>3 DEF UserRecord, Ready, Writing, User
  <2>2. r \in JobSet
    BY <1>1, <2>1, RestIsJob, IdleOK DEF JobOK
  <2>3. UNCHANGED <<indexed, queuedAt, row, tied, cursor, clobbered, skipped>>
    BY <1>3, RowStands DEF UserRecord
  <2>4. \E record : AppendNote("user", r, n, record) \/ PatchNoteByLeaf("user", r, n, record)
    BY <1>3 DEF UserRecord
  <2> HIDE DEF r
  <2> QED
    BY <1>1, <2>2, <2>3, <2>4, OthersHydrate
<1> QED
  BY <1>2, <1>3

\* A write that ends brings its note, and what it undoes is accounted for.
LEMMA FinishHydrates ==
  ASSUME DeviceInv, HydrationInv, NEW j \in Jobs, FinishWrite(j)
  PROVE  HydrationInv'
<1>1. job \in [Jobs -> JobSet] /\ "sync" \in Jobs
  BY DeviceTypes DEF Jobs
<1> PICK base, note : base = job[j].write.base /\ note = job[j].write.note
  OBVIOUS
<1>2. DOMAIN store' = DOMAIN base \cup {note}
  BY FinishWriteOK
<1>3. UNCHANGED <<indexed, queuedAt, row, tied, cursor, skipped>>
  BY RowStands DEF FinishWrite
<1>4. Kept \subseteq Kept' /\ note \in Kept'
  <2>1. \A n \in DOMAIN store : n \in clobbered' \/ n \in DOMAIN base
    BY DEF FinishWrite
  <2>2. clobbered \subseteq clobbered'
    BY DEF FinishWrite
  <2> QED
    BY <1>2, <1>3, <2>1, <2>2 DEF Kept
<1>5. CASE j # "sync"
  <2>1. job'["sync"] = job["sync"]
    BY <1>1, <1>5 DEF FinishWrite
  <2> QED
    BY <1>3, <1>4, <2>1, HydrationStays
<1>6. CASE j = "sync"
  <2>1. Sync'.pc = Sync.pc /\ Sync'.todo = Sync.todo /\ Sync'.max = Sync.max
    BY <1>1, <1>6 DEF FinishWrite, Sync, JobSet
  <2>2. Timed' /\ Reached(cursor)' /\ HydratedBehindCursor'
    BY <1>3, <1>4 DEF HydrationInv, Timed, Reached, HydratedBehindCursor, Kept
  <2>3. RowsRead' => RowsRead
    BY <2>1 DEF RowsRead
  <2>4. RowsRead => Reached(Sync.max)'
    BY <1>3, <2>1 DEF HydrationInv, Reached
  <2>5. RowsRead => SyncHolds'
    BY <1>3, <1>4, <1>6, <2>1 DEF HydrationInv, SyncHolds, Sync
  <2> QED
    BY <2>2, <2>3, <2>4, <2>5 DEF HydrationInv
<1> QED
  BY <1>5, <1>6

\* A device that starts anew reads from the cursor it saved, or from none.
LEMMA StartingHydrates ==
  ASSUME DeviceInv, HydrationInv, Reload \/ Wipe
  PROVE  HydrationInv'
<1>1. UNCHANGED <<indexed, queuedAt, row, tied, clobbered, skipped>>
  BY RowStands DEF Reload, Wipe
<1>2. job'["sync"] = Idle /\ Idle.pc = "idle"
  BY DEF Reload, Wipe, Jobs, Idle
<1>3. CASE Reload
  <2>1. UNCHANGED <<cursor, store>>
    BY <1>3 DEF Reload
  <2> QED
    BY <1>1, <1>2, <2>1, HydrationStays DEF Kept
<1>4. CASE Wipe
  <2>1. cursor' = 0 /\ ~RowsRead'
    BY <1>2, <1>4 DEF Wipe, RowsRead, Sync
  <2>2. WorldOK /\ queuedAt \in [Own -> Nat] /\ indexed \in [Notes -> Nat]
    BY DEF DeviceInv, WorldOK
  <2>3. \A n \in Own : row[n] # "none" => queuedAt[n] > 0
    <3>1. \A n \in Own : row[n] # "none" => indexed[n] # 0
      BY <2>2, RowIsTrue
    <3> QED
      BY <2>2, <3>1 DEF HydrationInv, Timed, Notes
  <2>4. HydratedBehindCursor'
    BY <1>1, <2>1, <2>2, <2>3 DEF HydratedBehindCursor
  <2> QED
    BY <1>1, <2>1, <2>4 DEF HydrationInv, Timed, Reached, ForOthers
<1> QED
  BY <1>3, <1>4

LEMMA NextHydration == DeviceInv /\ HydrationInv /\ [Next]_vars => HydrationInv'
<1> SUFFICES ASSUME DeviceInv, HydrationInv, [Next]_vars PROVE HydrationInv'
  OBVIOUS
<1>1. CASE ChainMoves \/ Mine \/ Drop \/ \E n \in Notes : Index(n)
  BY <1>1, WorldHydrates, IndexHydrates
<1>2. CASE SyncStart \/ BackfillLeafIndices \/ SyncStep
  BY <1>2, SyncStartHydrates, SyncRowHydrates, SaveCursorHydrates, SyncReadsNoRow DEF SyncStep
<1>3. CASE WatchStart \/ \E n \in Own : WatchRow(n)
  BY <1>3, WatcherHydrates
<1>4. CASE \/ \E n \in Own : UserShield(n) \/ UserCancel(n)
           \/ \E n \in Notes, change \in SUBSET Received : UserSpend(n, change)
           \/ UserBroadcast \/ UserGivesUp
           \/ \E n \in Notes : UserRecord(n)
  <2>1. \/ \E roles : Begin(roles)
        \/ UserBroadcast \/ UserGivesUp
        \/ \E n \in Notes : UserRecord(n)
    BY <1>4 DEF UserShield, UserCancel, UserSpend
  <2> QED
    BY <2>1, SheetsHydrate
<1>5. CASE \E j \in Jobs : FinishWrite(j)
  BY <1>5, FinishHydrates
<1>6. CASE Reload \/ Wipe
  BY <1>6, StartingHydrates
<1>7. CASE UNCHANGED vars
  <2>1. UNCHANGED world /\ UNCHANGED <<store, cursor, job, clobbered, skipped>>
    BY <1>7 DEF vars, history
  <2>2. UNCHANGED <<indexed, queuedAt, row, tied>> /\ Kept \subseteq Kept'
    BY <2>1, RowStands DEF Kept
  <2> QED
    BY <2>1, <2>2, HydrationStays
<1> QED
  BY <1>1, <1>2, <1>3, <1>4, <1>5, <1>6, <1>7 DEF Next

\* A shield whose row is behind the saved cursor is on the device, however the
\* syncs were interrupted: the cursor is saved last, and a row that is new is
\* ahead of every cursor that was computed before it.
THEOREM HydrationHolds == Spec => []HydratedBehindCursor
<1>1. HydrationInv => HydratedBehindCursor
  BY DEF HydrationInv
<1> QED
  BY <1>1, InitHydration, NextHydration, DeviceHolds, PTL DEF Spec
=============================================================================
