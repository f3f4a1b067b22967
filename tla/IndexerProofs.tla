---------------------------- MODULE IndexerProofs ----------------------------
(***************************************************************************)
(* What the indexer guarantees for any number of passes, any window, depth *)
(* and trail, whatever overlaps, dies, throws or is reorganised: the       *)
(* tables hold nothing that is not on the chain, miss nothing behind the   *)
(* cursor that nobody lost, and no deposit is alerted twice.               *)
(***************************************************************************)
EXTENDS ShieldIndexer, Integers, FiniteSets, FiniteSetsExt, Functions, FiniteSetTheorems,
        WellFoundedInduction, TLAPS

-----------------------------------------------------------------------------
(* Finite sets: induction, greatest and least element, images *)

\* A family that has the empty set, and every set all of whose subsets with one
\* element less it has, has every finite set.
LEMMA FiniteInduction ==
  ASSUME NEW S, IsFiniteSet(S), NEW Good, {} \in Good,
         \A X \in SUBSET S : X # {} /\ (\A x \in X : X \ {x} \in Good) => X \in Good
  PROVE  S \in Good
<1> DEFINE Bad == {X \in SUBSET S : X \notin Good}
<1>1. SUFFICES ASSUME S \notin Good PROVE FALSE
  OBVIOUS
<1>2. Bad \subseteq FiniteSubsetsOf(S) /\ Bad # {}
  BY <1>1, FS_FiniteSubsetsOfFinite
<1>3. PICK X \in Bad : \A Y \in Bad : <<Y, X>> \notin StrictSubsetOrdering(S)
  <2>1. IsWellFoundedOn(StrictSubsetOrdering(S), FiniteSubsetsOf(S))
    BY FS_StrictSubsetOrderingWellFounded
  <2> HIDE DEF Bad
  <2> QED
    BY <1>2, <2>1, WFMin
<1>4. X # {} /\ X \subseteq S /\ X \notin Good
  OBVIOUS
<1>5. PICK x \in X : X \ {x} \notin Good
  BY <1>4
<1>6. X \ {x} \in Bad
  BY <1>4, <1>5
<1>7. <<X \ {x}, X>> \in StrictSubsetOrdering(S)
  BY <1>4, <1>5 DEF StrictSubsetOrdering
<1> QED
  BY <1>3, <1>6, <1>7

LEMMA MaxOfFinite ==
  ASSUME NEW S \in SUBSET Nat, IsFiniteSet(S), S # {}
  PROVE  Max(S) \in S /\ \A y \in S : y <= Max(S)
<1> DEFINE HasMax(X) == \E m \in X : \A y \in X : m >= y
           Good == {X \in SUBSET S : X = {} \/ HasMax(X)}
<1>1. {} \in Good
  OBVIOUS
<1>2. ASSUME NEW X \in SUBSET S, X # {}, \A x \in X : X \ {x} \in Good
      PROVE  X \in Good
  <2> PICK x \in X : TRUE
    BY <1>2
  <2>1. CASE X \ {x} = {}
    BY <2>1
  <2>2. CASE HasMax(X \ {x})
    <3>1. PICK m \in X \ {x} : \A y \in X \ {x} : m >= y
      BY <2>2
    <3>2. CASE m >= x
      BY <3>1, <3>2
    <3>3. CASE x >= m
      <4>1. \A y \in X : x >= y
        BY <3>1, <3>3
      <4> QED
        BY <4>1
    <3> QED
      BY <3>2, <3>3
  <2> QED
    BY <1>2, <2>1, <2>2
<1>3. S \in Good
  <2> HIDE DEF Good
  <2> QED
    BY <1>1, <1>2, FiniteInduction
<1>4. PICK m \in S : \A y \in S : m >= y
  BY <1>3
<1>5. Max(S) \in S /\ \A y \in S : Max(S) >= y
  BY <1>4 DEF Max
<1> QED
  BY <1>5

LEMMA MinOfFinite ==
  ASSUME NEW S \in SUBSET Nat, IsFiniteSet(S), S # {}
  PROVE  Min(S) \in S /\ \A y \in S : Min(S) <= y
<1> DEFINE HasMin(X) == \E m \in X : \A y \in X : m <= y
           Good == {X \in SUBSET S : X = {} \/ HasMin(X)}
<1>1. {} \in Good
  OBVIOUS
<1>2. ASSUME NEW X \in SUBSET S, X # {}, \A x \in X : X \ {x} \in Good
      PROVE  X \in Good
  <2> PICK x \in X : TRUE
    BY <1>2
  <2>1. CASE X \ {x} = {}
    BY <2>1
  <2>2. CASE HasMin(X \ {x})
    <3>1. PICK m \in X \ {x} : \A y \in X \ {x} : m <= y
      BY <2>2
    <3>2. CASE m <= x
      BY <3>1, <3>2
    <3>3. CASE x <= m
      <4>1. \A y \in X : x <= y
        BY <3>1, <3>3
      <4> QED
        BY <4>1
    <3> QED
      BY <3>2, <3>3
  <2> QED
    BY <1>2, <2>1, <2>2
<1>3. S \in Good
  <2> HIDE DEF Good
  <2> QED
    BY <1>1, <1>2, FiniteInduction
<1>4. PICK m \in S : \A y \in S : m <= y
  BY <1>3
<1>5. Min(S) \in S /\ \A y \in S : Min(S) <= y
  BY <1>4 DEF Min
<1> QED
  BY <1>5

\* The larger, and the smaller, of two numbers.
LEMMA MaxOfTwo ==
  ASSUME NEW a \in Nat, NEW b \in Nat
  PROVE  Max({a, b}) \in {a, b} /\ a <= Max({a, b}) /\ b <= Max({a, b})
<1>1. {a, b} \in SUBSET Nat /\ {a, b} # {} /\ a \in {a, b} /\ b \in {a, b}
  OBVIOUS
<1>2. IsFiniteSet({a, b})
  <2>1. IsFiniteSet({a})
    BY FS_Singleton
  <2>2. {a, b} = {a} \cup {b}
    OBVIOUS
  <2> QED
    BY <2>1, <2>2, FS_AddElement
<1> QED
  BY <1>1, <1>2, MaxOfFinite

LEMMA MinOfTwo ==
  ASSUME NEW a \in Nat, NEW b \in Nat
  PROVE  Min({a, b}) \in {a, b} /\ Min({a, b}) <= a /\ Min({a, b}) <= b
<1>1. {a, b} \in SUBSET Nat /\ {a, b} # {} /\ a \in {a, b} /\ b \in {a, b}
  OBVIOUS
<1>2. IsFiniteSet({a, b})
  <2>1. IsFiniteSet({a})
    BY FS_Singleton
  <2>2. {a, b} = {a} \cup {b}
    OBVIOUS
  <2> QED
    BY <2>1, <2>2, FS_AddElement
<1> QED
  BY <1>1, <1>2, MinOfFinite

LEMMA ImageFinite ==
  ASSUME NEW S, IsFiniteSet(S), NEW f, S \subseteq DOMAIN f
  PROVE  IsFiniteSet({f[x] : x \in S})
<1> DEFINE g == [x \in S |-> f[x]]
<1>1. g \in Surjection(S, {f[x] : x \in S})
  BY DEF Surjection
<1> QED
  BY <1>1, FS_Surjection

-----------------------------------------------------------------------------
(* The inductive invariant *)

Confirmed(block) == block + ConfirmationDepth <= peak

AssetEvents == {"AssetSupported", "AssetDisabled"}
SpendEvents == {"NullifierUsed", "NotePayload"}

\* The positions of an event in the log.
PositionsOf(event) == {i \in DOMAIN logs : logs[i].event = event}
ResolutionPositions == {i \in DOMAIN logs : logs[i].event \in DOMAIN Resolution}

LogOK(l, height) ==
  /\ l \in LogType /\ l.block \in 1 .. height
  /\ IF l.event \in AssetEvents THEN l.key \in Assets ELSE l.key \in Nat
  /\ l.event \in SpendEvents => l.key = l.tx

\* Shields are numbered in the order of the chain, from 0 on.
KeysCount ==
  \A i \in PositionsOf("ShieldQueued") :
    /\ \A j \in PositionsOf("ShieldQueued") : i < j => logs[i].key < logs[j].key
    /\ \A k \in 0 .. logs[i].key - 1 :
         \E j \in PositionsOf("ShieldQueued") : j < i /\ logs[j].key = k

\* A shield is resolved after it was queued, and once.
ResolvedOnce ==
  \A i \in ResolutionPositions :
    /\ \E j \in PositionsOf("ShieldQueued") : j < i /\ logs[j].key = logs[i].key
    /\ \A j \in ResolutionPositions : logs[j].key = logs[i].key => j = i

\* A payload comes with a nullifier of its transaction.
PayloadsPaid ==
  \A i \in PositionsOf("NotePayload") :
    \E j \in PositionsOf("NullifierUsed") :
      logs[j].tx = logs[i].tx /\ logs[j].block = logs[i].block

ChainInv ==
  /\ {head, mined, peak} \subseteq Nat
  /\ head <= peak /\ peak <= head + ConfirmationDepth
  /\ logs \in Seq(LogType) /\ \A i \in DOMAIN logs : LogOK(logs[i], head)
  /\ \A i, j \in DOMAIN logs : i <= j => logs[i].block <= logs[j].block
  /\ KeysCount /\ ResolvedOnce /\ PayloadsPaid

\* The logs a reorganisation does not take away any more.
Final == {l \in Logs : Confirmed(l.block)}

\* The rows stem from logs of C.
RowsFrom(C) ==
  /\ \A id \in DOMAIN entries :
       /\ \E l \in C : /\ l.event = "ShieldQueued"
                       /\ l.key = id /\ l.tx = entries[id].queuedTx
       /\ entries[id].state # "queued" =>
            \E l \in C : /\ l.event \in DOMAIN Resolution
                         /\ l.key = id /\ Resolution[l.event] = entries[id].state
  /\ \A k \in leafRows : \E l \in C : l.event = "LeafInserted" /\ l.key = k
  /\ \A k \in payloadRows : \E l \in C : l.event = "NotePayload" /\ l.key = k
  /\ \A k \in nullifierRows \cup DOMAIN activity :
       \E l \in C : l.event = "NullifierUsed" /\ l.tx = k

RowsInv ==
  /\ \A id \in DOMAIN entries : id \in Nat /\ entries[id] \in QueueRow
  /\ leafRows \cup payloadRows \cup nullifierRows \cup DOMAIN activity \subseteq Nat
  /\ \A tx \in DOMAIN activity : activity[tx] \in BOOLEAN
  /\ DOMAIN assets \subseteq Assets /\ \A a \in DOMAIN assets : assets[a] \in BOOLEAN
  /\ alerts \in Seq(Nat) /\ Range(alerts) \subseteq DOMAIN entries /\ IsInjective(alerts)
  /\ failed \subseteq LogType /\ {floor, mishaps} \subseteq Nat
  /\ RowsFrom(Final)

\* What a write leaves in the tables.
Done(write, log) ==
  CASE write = "queue" -> log.key \in DOMAIN entries
    [] write = "resolve" ->
         log.key \in DOMAIN entries => entries[log.key].state = Resolution[log.event]
    [] write = "leaf" -> log.key \in leafRows
    [] write = "payload" -> log.key \in payloadRows
    [] write = "nullifier" -> log.key \in nullifierRows
    [] write = "activity" ->
         log.tx \in DOMAIN activity /\ (log.event = "NotePayload" => activity[log.tx])
    [] OTHER -> log.key \in DOMAIN assets

\* A pass that reads windows from here has everything before them behind it.
WalkingOK(r) ==
  /\ r \in [pc : {"walking"}, from : Nat, top : Nat]
  /\ r.from <= r.top /\ Confirmed(r.top)
  /\ \A l \in Logs : l.block < r.from => Settled(l)

\* A pass handles the logs of its window in their order, and what of them it is
\* done with is settled.
HandlingOK(r) ==
  /\ r \in [pc : {"handling"}, to : Nat, top : Nat, todo : {r.todo}, written : 0 .. 1]
  /\ r.to <= r.top /\ Confirmed(r.top)
  /\ DOMAIN r.todo \subseteq DOMAIN logs
  /\ \A i \in DOMAIN r.todo : r.todo[i] = logs[i] /\ logs[i].block <= r.to
  /\ \A i \in DOMAIN logs : logs[i].block <= r.to => i \in DOMAIN r.todo \/ Settled(logs[i])
  /\ r.written = 1 =>
       \E i \in DOMAIN r.todo :
         /\ \A j \in DOMAIN r.todo : i <= j
         /\ Len(Writes(r.todo[i])) = 2 /\ Done(Writes(r.todo[i])[1], r.todo[i])

PassOK(r) ==
  \/ r = Idle
  \/ r \in [pc : {"begun"}, from : Nat] /\ r.from <= cursor
  \/ WalkingOK(r) \/ HandlingOK(r)

IndexInv ==
  /\ ChainInv /\ RowsInv
  /\ cursor \in Nat /\ (cursor > 0 => Confirmed(cursor)) /\ LossIsContained
  /\ DOMAIN pass = Passes /\ \A p \in Passes : PassOK(pass[p])

-----------------------------------------------------------------------------
(* The chain *)

LEMMA LogsAreSequence ==
  ASSUME ChainInv
  PROVE  /\ Len(logs) \in Nat /\ DOMAIN logs = 1 .. Len(logs)
         /\ \A i \in DOMAIN logs : logs[i] \in LogType /\ LogOK(logs[i], head)
BY DEF ChainInv

\* The next number of a shield is fresh, and none before it is missing.
LEMMA FreshKey ==
  ASSUME ChainInv
  PROVE  /\ Cardinality(Of("ShieldQueued")) \in Nat
         /\ \A i \in PositionsOf("ShieldQueued") :
              logs[i].key < Cardinality(Of("ShieldQueued"))
         /\ \A k \in 0 .. Cardinality(Of("ShieldQueued")) - 1 :
              \E i \in PositionsOf("ShieldQueued") : logs[i].key = k
<1> DEFINE Q == PositionsOf("ShieldQueued")
           O == Of("ShieldQueued")
           K == {logs[i].key : i \in Q}
<1>1. Q \subseteq 1 .. Len(logs) /\ Len(logs) \in Nat /\ IsFiniteSet(Q)
  <2>1. Q \subseteq 1 .. Len(logs) /\ Len(logs) \in Nat
    <3>1. DOMAIN logs = 1 .. Len(logs) /\ Len(logs) \in Nat
      BY LogsAreSequence
    <3> QED
      BY <3>1 DEF PositionsOf
  <2> HIDE DEF Q
  <2>2. IsFiniteSet(1 .. Len(logs))
    BY <2>1, FS_Interval
  <2> QED
    BY <2>1, <2>2, FS_Subset
<1>2. \A i \in Q : logs[i].key \in Nat
  BY LogsAreSequence DEF PositionsOf, LogOK, AssetEvents
<1>3. O = {logs[i] : i \in Q}
  BY DEF Of, PositionsOf
<1>4. \A i, j \in Q : i < j => logs[i].key < logs[j].key
  BY DEF ChainInv, KeysCount
<1>5. \A i, j \in Q : logs[i].key = logs[j].key => i = j
  <2> HIDE DEF Q
  <2> QED
    BY <1>1, <1>2, <1>4
<1>6. \A i \in Q : \A k \in 0 .. logs[i].key - 1 : \E j \in Q : logs[j].key = k
  BY DEF ChainInv, KeysCount
<1> HIDE DEF Q
<1>7. IsFiniteSet(K) /\ K \subseteq Nat
  <2> DEFINE f == [i \in Q |-> logs[i].key]
  <2>1. K = {f[i] : i \in Q} /\ Q \subseteq DOMAIN f
    OBVIOUS
  <2>2. K \subseteq Nat
    BY <1>2
  <2> HIDE DEF K, f
  <2> QED
    BY <1>1, <2>1, <2>2, ImageFinite
<1>8. IsFiniteSet(O) /\ Cardinality(O) = Cardinality(K)
  <2> DEFINE f == [k \in K |-> CHOOSE l \in O : l.key = k]
  <2>1. ASSUME NEW k \in K
        PROVE  f[k] \in O /\ f[k].key = k
    <3>1. \E l \in O : l.key = k
      BY <1>3
    <3> HIDE DEF O
    <3> QED
      BY <3>1
  <2>2. f \in [K -> O]
    BY <2>1
  <2>3. \A a, b \in K : f[a] = f[b] => a = b
    <3> HIDE DEF f
    <3> QED
      BY <2>1
  <2>4. \A l \in O : l.key \in K /\ f[l.key] = l
    <3> SUFFICES ASSUME NEW i \in Q PROVE logs[i].key \in K /\ f[logs[i].key] = logs[i]
      BY <1>3
    <3>1. logs[i].key \in K
      OBVIOUS
    <3>2. f[logs[i].key] \in O /\ f[logs[i].key].key = logs[i].key
      BY <2>1, <3>1
    <3>3. PICK j \in Q : f[logs[i].key] = logs[j]
      BY <1>3, <3>2
    <3> HIDE DEF f, O, K
    <3> QED
      BY <1>5, <3>1, <3>2, <3>3
  <2>5. f \in Bijection(K, O)
    <3> HIDE DEF f, K, O
    <3> QED
      BY <2>2, <2>3, <2>4 DEF Bijection, Injection, Surjection, IsInjective
  <2> HIDE DEF f, K, O
  <2> QED
    BY <1>7, <2>5, FS_Bijection DEF ExistsBijection
<1>9. CASE K = {}
  <2>1. Q = {} /\ Cardinality(K) = 0
    BY <1>9, FS_EmptySet
  <2> QED
    BY <1>8, <2>1 DEF Q, O
<1>10. CASE K # {}
  <2>1. PICK m \in Nat : m \in K /\ \A k \in K : k <= m
    <3> HIDE DEF K
    <3> QED
      BY <1>7, <1>10, MaxOfFinite
  <2>2. K = 0 .. m
    <3>1. \A k \in K : k \in 0 .. m
      BY <1>7, <2>1
    <3>2. PICK i \in Q : logs[i].key = m
      BY <2>1
    <3>3. \A k \in 0 .. m : k \in K
      BY <1>6, <2>1, <3>2
    <3> QED
      BY <3>1, <3>3
  <2>3. Cardinality(K) = m + 1
    <3>1. Cardinality(0 .. m) = m + 1
      BY <2>1, FS_Interval
    <3> HIDE DEF K
    <3> QED
      BY <2>2, <3>1
  <2>4. \A i \in Q : logs[i].key <= m /\ logs[i].key \in Nat
    BY <1>2, <2>1
  <2>5. \A k \in 0 .. m : \E i \in Q : logs[i].key = k
    BY <2>2
  <2> HIDE DEF K, O
  <2> QED
    BY <1>8, <2>1, <2>3, <2>4, <2>5 DEF Q, O
<1> QED
  BY <1>9, <1>10

LEMMA ResolutionIs ==
  /\ DOMAIN Resolution = {"ShieldExecuted", "ShieldCancelled", "ShieldContested"}
  /\ \A e \in DOMAIN Resolution : Resolution[e] \in {"executed", "cancelled", "contested"}
  /\ Range(Resolution) = {"executed", "cancelled", "contested"}
  /\ \A e, f \in DOMAIN Resolution : Resolution[e] = Resolution[f] => e = f
BY DEF Resolution, Range

\* What the chain may do to a pass: no confirmed log moves, and none comes up
\* among them.
Moves ==
  /\ peak <= peak'
  /\ \A i \in DOMAIN logs : Confirmed(logs[i].block) =>
       i \in DOMAIN logs' /\ logs'[i] = logs[i]
  /\ \A i \in DOMAIN logs' : logs'[i].block + ConfirmationDepth <= peak =>
       i \in DOMAIN logs /\ logs'[i] = logs[i]

\* The logs of a block are appended to those that are there.
Appended(new) ==
  /\ new \in Seq(LogType)
  /\ logs' = logs \o new
  /\ head' = head + 1 /\ mined' = mined + 1
  /\ peak' = Max({peak, head + 1})
  /\ \A k \in DOMAIN new :
       /\ new[k].block = head + 1
       /\ IF new[k].event \in AssetEvents THEN new[k].key \in Assets ELSE new[k].key \in Nat
       /\ new[k].event \in SpendEvents => new[k].key = new[k].tx

LEMMA AppendedAre ==
  ASSUME ChainInv, NEW new, Appended(new)
  PROVE  /\ DOMAIN logs' = 1 .. Len(logs) + Len(new)
         /\ Len(new) \in Nat /\ Len(logs) \in Nat /\ DOMAIN logs = 1 .. Len(logs)
         /\ DOMAIN new = 1 .. Len(new)
         /\ \A i \in DOMAIN logs : i \in DOMAIN logs' /\ logs'[i] = logs[i]
         /\ \A k \in DOMAIN new : Len(logs) + k \in DOMAIN logs' /\ logs'[Len(logs) + k] = new[k]
         /\ \A i \in DOMAIN logs' \ DOMAIN logs :
              /\ i > Len(logs) /\ i - Len(logs) \in DOMAIN new
              /\ logs'[i] = new[i - Len(logs)]
<1>1. Len(logs) \in Nat /\ DOMAIN logs = 1 .. Len(logs) /\ logs \in Seq(LogType)
  BY LogsAreSequence DEF ChainInv
<1>2. Len(new) \in Nat /\ DOMAIN new = 1 .. Len(new) /\ new \in Seq(LogType)
  BY DEF Appended
<1>3. logs' = logs \o new
  BY DEF Appended
<1> QED
  BY <1>1, <1>2, <1>3

\* A new block keeps the chain's invariant when what its logs say fits.
LEMMA AppendMoves ==
  ASSUME ChainInv, IndexerAssumption, NEW new, Appended(new),
         KeysCount', ResolvedOnce', PayloadsPaid'
  PROVE  ChainInv' /\ Moves
<1> USE AppendedAre
<1>1. {head, peak} \subseteq Nat /\ mined \in Nat /\ ConfirmationDepth \in Nat
  BY DEF ChainInv, IndexerAssumption
<1>2. /\ peak' \in Nat /\ peak <= peak' /\ head + 1 <= peak'
      /\ peak' = peak \/ peak' = head + 1
  BY <1>1, MaxOfTwo DEF Appended
<1>3. head <= peak /\ peak <= head + ConfirmationDepth
  BY DEF ChainInv
<1>4. \A i \in DOMAIN logs : LogOK(logs[i], head) /\ logs[i].block \in 1 .. head
  BY DEF ChainInv, LogOK
<1>5. \A i \in DOMAIN logs : LogOK(logs[i], head')
  BY <1>1, <1>4 DEF LogOK, Appended
<1>6. \A k \in DOMAIN new : new[k] \in LogType /\ new[k].block = head + 1
  BY DEF Appended
<1>7. \A i \in DOMAIN logs' \ DOMAIN logs : logs'[i] \in LogType /\ logs'[i].block = head + 1
  BY <1>6
<1>8. \A i \in DOMAIN logs' \ DOMAIN logs : LogOK(logs'[i], head')
  BY <1>1, <1>7 DEF LogOK, Appended
<1>9. logs' \in Seq(LogType) /\ head' = head + 1
  BY DEF Appended, ChainInv
<1>10. \A i \in DOMAIN logs' : LogOK(logs'[i], head')
  BY <1>5, <1>8
<1>11. \A i, j \in DOMAIN logs' : i <= j => logs'[i].block <= logs'[j].block
  <2> SUFFICES ASSUME NEW i \in DOMAIN logs', NEW j \in DOMAIN logs', i <= j
               PROVE  logs'[i].block <= logs'[j].block
    OBVIOUS
  <2>1. CASE j \in DOMAIN logs
    <3>1. i \in DOMAIN logs
      BY <2>1
    <3> QED
      BY <2>1, <3>1 DEF ChainInv
  <2>2. CASE j \notin DOMAIN logs
    <3>1. logs'[j].block = head + 1
      BY <1>7, <2>2
    <3>2. CASE i \in DOMAIN logs
      <4>1. logs'[i].block \in 1 .. head
        BY <1>4, <3>2
      <4> QED
        BY <1>1, <3>1, <4>1
    <3>3. CASE i \notin DOMAIN logs
      BY <1>1, <1>7, <3>1, <3>3
    <3> QED
      BY <3>2, <3>3
  <2> QED
    BY <2>1, <2>2
<1>12. Moves
  <2>1. \A i \in DOMAIN logs' : logs'[i].block + ConfirmationDepth <= peak =>
          i \in DOMAIN logs /\ logs'[i] = logs[i]
    BY <1>1, <1>3, <1>7
  <2> QED
    BY <1>2, <2>1 DEF Moves
<1>13. {head, mined, peak}' \subseteq Nat
  BY <1>1, <1>2, <1>9 DEF Appended
<1>14. head' <= peak' /\ peak' <= head' + ConfirmationDepth
  BY <1>1, <1>2, <1>3, <1>9
<1> QED
  BY <1>9, <1>10, <1>11, <1>12, <1>13, <1>14 DEF ChainInv

\* What a new block leaves alone, by the events that are not in it.
LEMMA KeysStay ==
  ASSUME ChainInv, NEW new, Appended(new),
         \A k \in DOMAIN new : new[k].event # "ShieldQueued"
  PROVE  KeysCount'
<1>1. PositionsOf("ShieldQueued")' = PositionsOf("ShieldQueued")
  BY AppendedAre DEF PositionsOf
<1>2. \A i \in PositionsOf("ShieldQueued") : logs'[i] = logs[i]
  BY AppendedAre DEF PositionsOf
<1>3. KeysCount
  BY DEF ChainInv
<1> QED
  BY <1>1, <1>2, <1>3 DEF KeysCount

LEMMA ResolutionsStay ==
  ASSUME ChainInv, NEW new, Appended(new),
         \A k \in DOMAIN new : new[k].event \notin DOMAIN Resolution
  PROVE  ResolvedOnce'
<1>1. ResolutionPositions' = ResolutionPositions
  BY AppendedAre DEF ResolutionPositions
<1>2. \A i \in ResolutionPositions : logs'[i] = logs[i]
  BY AppendedAre DEF ResolutionPositions
<1>3. \A j \in PositionsOf("ShieldQueued") :
        j \in PositionsOf("ShieldQueued")' /\ logs'[j] = logs[j]
  BY AppendedAre DEF PositionsOf
<1>4. ResolvedOnce
  BY DEF ChainInv
<1> QED
  BY <1>1, <1>2, <1>3, <1>4 DEF ResolvedOnce

LEMMA PayloadsStay ==
  ASSUME ChainInv, NEW new, Appended(new),
         \A k \in DOMAIN new : new[k].event = "NotePayload" =>
           \E m \in DOMAIN new : new[m].event = "NullifierUsed" /\ new[m].tx = new[k].tx
  PROVE  PayloadsPaid'
<1>1. \A e : \A j \in PositionsOf(e) : j \in PositionsOf(e)' /\ logs'[j] = logs[j]
  BY AppendedAre DEF PositionsOf
<1>2. PayloadsPaid
  BY DEF ChainInv
<1> SUFFICES ASSUME NEW i \in PositionsOf("NotePayload")'
             PROVE  \E j \in PositionsOf("NullifierUsed")' :
                      logs'[j].tx = logs'[i].tx /\ logs'[j].block = logs'[i].block
  BY DEF PayloadsPaid
<1>3. i \in DOMAIN logs' /\ logs'[i].event = "NotePayload"
  BY DEF PositionsOf
<1>4. CASE i \in DOMAIN logs
  <2>1. logs'[i] = logs[i] /\ i \in PositionsOf("NotePayload")
    BY <1>3, <1>4, AppendedAre DEF PositionsOf
  <2> QED
    BY <1>1, <1>2, <2>1 DEF PayloadsPaid
<1>5. CASE i \notin DOMAIN logs
  <2> DEFINE k == i - Len(logs)
  <2>1. k \in DOMAIN new /\ logs'[i] = new[k]
    BY <1>3, <1>5, AppendedAre
  <2>2. PICK m \in DOMAIN new : new[m].event = "NullifierUsed" /\ new[m].tx = new[k].tx
    BY <1>3, <2>1
  <2>3. Len(logs) + m \in DOMAIN logs' /\ logs'[Len(logs) + m] = new[m]
    BY AppendedAre
  <2>4. new[m].block = new[k].block
    BY <2>1 DEF Appended
  <2>5. Len(logs) + m \in PositionsOf("NullifierUsed")'
    BY <2>2, <2>3 DEF PositionsOf
  <2> QED
    BY <2>1, <2>2, <2>3, <2>4, <2>5
<1> QED
  BY <1>4, <1>5

\* The logs that the chain's transactions emit.
LEMMA LogIs ==
  ASSUME ChainInv, IndexerAssumption,
         NEW event \in Events, NEW key \in Nat \cup Assets, NEW call \in Calls
  PROVE  /\ Log(event, key, call) \in LogType
         /\ Log(event, key, call).event = event /\ Log(event, key, call).key = key
         /\ Log(event, key, call).tx = mined + 1
         /\ Log(event, key, call).block = head + 1
BY DEF ChainInv, IndexerAssumption, LogType, Log

LEMMA MineShieldMoves ==
  ASSUME ChainInv, IndexerAssumption, MineShield
  PROVE  ChainInv' /\ Moves
<1> DEFINE N == Cardinality(Of("ShieldQueued"))
           log == Log("ShieldQueued", N, "shield")
           new == <<log>>
           last == Len(logs) + 1
<1>1. N \in Nat /\ "shield" \in Calls
  BY FreshKey DEF MineShield, Mine
<1>2. /\ log \in LogType /\ log.event = "ShieldQueued" /\ log.key = N
      /\ log.tx = mined + 1 /\ log.block = head + 1
  <2>1. "ShieldQueued" \in Events /\ N \in Nat \cup Assets
    BY <1>1 DEF Events
  <2> HIDE DEF N
  <2> QED
    BY <1>1, <2>1, LogIs
<1>3. logs' = logs \o new /\ head' = head + 1 /\ mined' = mined + 1 /\ peak' = Max({peak, head + 1})
  BY DEF MineShield, Mine
<1> HIDE DEF log
<1>4. Appended(new)
  <2>1. new \in Seq(LogType) /\ DOMAIN new = {1} /\ new[1] = log
    BY <1>2
  <2> QED
    BY <1>1, <1>2, <1>3, <2>1 DEF Appended, AssetEvents, SpendEvents
<1>5. \A k \in DOMAIN new : new[k] = log
  OBVIOUS
<1>6. ResolvedOnce' /\ PayloadsPaid'
  <2>1. \A k \in DOMAIN new : new[k].event \notin DOMAIN Resolution
    BY <1>2, <1>5, ResolutionIs
  <2>2. \A k \in DOMAIN new : new[k].event # "NotePayload"
    BY <1>2, <1>5
  <2> HIDE DEF new
  <2>3. ResolvedOnce'
    BY <1>4, <2>1, ResolutionsStay
  <2>4. PayloadsPaid'
    BY <1>4, <2>2, PayloadsStay
  <2> QED
    BY <2>3, <2>4
<1>7. KeysCount'
  <2> DEFINE Q == PositionsOf("ShieldQueued")
  <2>0. /\ last \in DOMAIN logs' /\ logs'[last] = log /\ Len(logs) \in Nat
        /\ DOMAIN logs = 1 .. Len(logs) /\ DOMAIN logs' = 1 .. last
        /\ \A i \in DOMAIN logs : i \in DOMAIN logs' /\ logs'[i] = logs[i]
    <3>1. Len(new) = 1 /\ 1 \in DOMAIN new /\ new[1] = log
      OBVIOUS
    <3> HIDE DEF new
    <3> QED
      BY <1>4, <3>1, AppendedAre
  <2>1. /\ PositionsOf("ShieldQueued")' = Q \cup {last}
        /\ \A i \in Q : i < last /\ logs'[i] = logs[i]
    BY <1>2, <2>0 DEF PositionsOf
  <2>2. \A i \in Q : logs[i].key < N
    BY FreshKey
  <2>3. \A k \in 0 .. N - 1 : \E i \in Q : logs[i].key = k
    BY FreshKey
  <2>4. \A i \in Q : \A j \in Q : i < j => logs[i].key < logs[j].key
    BY DEF ChainInv, KeysCount
  <2>5. \A i \in Q : \A k \in 0 .. logs[i].key - 1 : \E j \in Q : j < i /\ logs[j].key = k
    BY DEF ChainInv, KeysCount
  <2>6. logs'[last].key = N
    BY <1>2, <2>0
  <2>8. ASSUME NEW i \in Q \cup {last}
        PROVE  \A j \in Q \cup {last} : i < j => logs'[i].key < logs'[j].key
    <3> HIDE DEF Q, N, last, log
    <3> SUFFICES ASSUME NEW j \in Q \cup {last}, i < j PROVE logs'[i].key < logs'[j].key
      OBVIOUS
    <3>0. last \in Nat /\ Q \subseteq Nat
      BY <2>0 DEF last, Q, PositionsOf
    <3>1. i \in Q
      BY <2>1, <3>0
    <3>2. CASE j = last
      BY <2>1, <2>2, <2>6, <3>1, <3>2
    <3>3. CASE j \in Q
      BY <2>1, <2>4, <3>1, <3>3
    <3> QED
      BY <3>2, <3>3
  <2>9. ASSUME NEW i \in Q \cup {last}
        PROVE  \A k \in 0 .. logs'[i].key - 1 :
                 \E j \in Q \cup {last} : j < i /\ logs'[j].key = k
    <3> HIDE DEF Q, N, last, log
    <3>1. CASE i \in Q
      BY <2>1, <2>5, <3>1
    <3>2. CASE i = last
      <4> SUFFICES ASSUME NEW k \in 0 .. N - 1 PROVE \E j \in Q : j < i /\ logs'[j].key = k
        BY <2>6, <3>2
      <4>1. PICK j \in Q : logs[j].key = k
        BY <2>3
      <4> QED
        BY <2>1, <3>2, <4>1
    <3> QED
      BY <3>1, <3>2
  <2> HIDE DEF Q, last
  <2> QED
    BY <2>1, <2>8, <2>9 DEF KeysCount
<1> HIDE DEF new
<1> QED
  BY <1>4, <1>6, <1>7, AppendMoves

LEMMA LeafIsNat ==
  ASSUME ChainInv
  PROVE  \A event : Cardinality(Of(event)) \in Nat
<1> SUFFICES ASSUME NEW event PROVE Cardinality(Of(event)) \in Nat
  OBVIOUS
<1> DEFINE Q == {j \in DOMAIN logs : logs[j].event = event}
<1>1. DOMAIN logs = 1 .. Len(logs) /\ Len(logs) \in Nat
  BY LogsAreSequence
<1>2. IsFiniteSet(Q)
  <2>1. IsFiniteSet(1 .. Len(logs))
    BY <1>1, FS_Interval
  <2>2. Q \subseteq 1 .. Len(logs)
    BY <1>1
  <2> QED
    BY <2>1, <2>2, FS_Subset
<1>3. Of(event) = {logs[i] : i \in Q} /\ Q \subseteq DOMAIN logs
  BY DEF Of
<1> HIDE DEF Q
<1>4. IsFiniteSet(Of(event))
  BY <1>2, <1>3, ImageFinite
<1> QED
  BY <1>4, FS_CardinalityType

LEMMA MineOthersMove ==
  ASSUME ChainInv, IndexerAssumption, MineSpend \/ MineAsset
  PROVE  ChainInv' /\ Moves
<1>0. ASSUME NEW new, Appended(new),
             \A k \in DOMAIN new : /\ new[k].event \notin DOMAIN Resolution
                                   /\ new[k].event # "ShieldQueued",
             \A k \in DOMAIN new : new[k].event = "NotePayload" =>
               \E m \in DOMAIN new : new[m].event = "NullifierUsed" /\ new[m].tx = new[k].tx
      PROVE  ChainInv' /\ Moves
  <2>1. KeysCount'
    BY <1>0, KeysStay
  <2>2. ResolvedOnce'
    BY <1>0, ResolutionsStay
  <2>3. PayloadsPaid'
    BY <1>0, PayloadsStay
  <2> QED
    BY <1>0, <2>1, <2>2, <2>3, AppendMoves
<1>3. Leaf \in Nat /\ mined \in Nat
  BY LeafIsNat DEF ChainInv, Leaf
<1>1. CASE MineSpend
  <2>1. CASE Mine("unshield", <<Log("NullifierUsed", mined + 1, "unshield")>>)
    <3> DEFINE log == Log("NullifierUsed", mined + 1, "unshield")
               new == <<log>>
    <3>1. "unshield" \in Calls
      BY <2>1 DEF Mine
    <3>2. /\ log \in LogType /\ log.event = "NullifierUsed" /\ log.key = mined + 1
          /\ log.tx = mined + 1 /\ log.block = head + 1
      BY <1>3, <3>1, LogIs DEF Events
    <3>3. /\ logs' = logs \o new /\ head' = head + 1
          /\ mined' = mined + 1 /\ peak' = Max({peak, head + 1})
      BY <2>1 DEF Mine
    <3> HIDE DEF log
    <3>4. new \in Seq(LogType) /\ DOMAIN new = {1} /\ new[1] = log
      BY <3>2
    <3> HIDE DEF new
    <3>5. Appended(new)
      BY <1>3, <3>2, <3>3, <3>4 DEF Appended, AssetEvents, SpendEvents
    <3> QED
      BY <3>2, <3>4, <3>5, <1>0, ResolutionIs
  <2>2. ASSUME NEW call \in {"transfer", "privateSwap"},
               Mine(call, <<Log("NullifierUsed", mined + 1, call),
                            Log("LeafInserted", Leaf, call),
                            Log("NotePayload", mined + 1, call)>>)
        PROVE  ChainInv' /\ Moves
    <3> DEFINE a == Log("NullifierUsed", mined + 1, call)
               b == Log("LeafInserted", Leaf, call)
               c == Log("NotePayload", mined + 1, call)
               new == <<a, b, c>>
    <3>1. call \in Calls
      BY <2>2 DEF Mine
    <3>2. /\ a \in LogType /\ a.event = "NullifierUsed" /\ a.key = mined + 1
          /\ a.tx = mined + 1 /\ a.block = head + 1
      BY <1>3, <3>1, LogIs DEF Events
    <3>3. /\ b \in LogType /\ b.event = "LeafInserted" /\ b.key = Leaf
          /\ b.tx = mined + 1 /\ b.block = head + 1
      <4>1. "LeafInserted" \in Events /\ Leaf \in Nat \cup Assets
        BY <1>3 DEF Events
      <4> QED
        BY <3>1, <4>1, LogIs
    <3>4. /\ c \in LogType /\ c.event = "NotePayload" /\ c.key = mined + 1
          /\ c.tx = mined + 1 /\ c.block = head + 1
      BY <1>3, <3>1, LogIs DEF Events
    <3>5. /\ logs' = logs \o new /\ head' = head + 1
          /\ mined' = mined + 1 /\ peak' = Max({peak, head + 1})
      BY <2>2 DEF Mine
    <3> HIDE DEF a, b, c
    <3>6. /\ new \in Seq(LogType) /\ DOMAIN new = {1, 2, 3}
          /\ new[1] = a /\ new[2] = b /\ new[3] = c
      BY <3>2, <3>3, <3>4
    <3> HIDE DEF new
    <3>7. Appended(new)
      BY <1>3, <3>2, <3>3, <3>4, <3>5, <3>6 DEF Appended, AssetEvents, SpendEvents
    <3>8. \A k \in DOMAIN new : /\ new[k].event \notin DOMAIN Resolution
                                /\ new[k].event # "ShieldQueued"
      BY <3>2, <3>3, <3>4, <3>6, ResolutionIs
    <3>9. 1 \in DOMAIN new /\ new[1].event = "NullifierUsed" /\ new[1].tx = mined + 1
      BY <3>2, <3>6
    <3>10. \A k \in DOMAIN new : new[k].tx = mined + 1
      BY <3>2, <3>3, <3>4, <3>6
    <3> QED
      BY <3>7, <3>8, <3>9, <3>10, <1>0
  <2> QED
    BY <1>1, <2>1, <2>2 DEF MineSpend
<1>2. CASE MineAsset
  <2>1. PICK asset \in Assets, call \in {"addSupportedAsset", "disableSupportedAsset"} :
          Mine(call, <<Log(Emits[call], asset, call)>>)
    BY <1>2 DEF MineAsset
  <2> DEFINE log == Log(Emits[call], asset, call)
             new == <<log>>
  <2>2. call \in Calls
    BY <2>1 DEF Mine
  <2>3. Emits[call] \in AssetEvents
    BY DEF Emits, AssetEvents
  <2>4. /\ log \in LogType /\ log.event \in AssetEvents /\ log.key = asset
        /\ log.tx = mined + 1 /\ log.block = head + 1
    <3>1. Emits[call] \in Events /\ asset \in Nat \cup Assets
      BY <2>3 DEF Events, AssetEvents
    <3> QED
      BY <2>2, <2>3, <3>1, LogIs
  <2>5. /\ logs' = logs \o new /\ head' = head + 1
        /\ mined' = mined + 1 /\ peak' = Max({peak, head + 1})
    BY <2>1 DEF Mine
  <2> HIDE DEF log
  <2>6. new \in Seq(LogType) /\ DOMAIN new = {1} /\ new[1] = log
    BY <2>4
  <2> HIDE DEF new
  <2>7. Appended(new)
    BY <2>4, <2>5, <2>6 DEF Appended, AssetEvents, SpendEvents
  <2>8. \A k \in DOMAIN new : /\ new[k].event \notin DOMAIN Resolution
                              /\ new[k].event # "ShieldQueued" /\ new[k].event # "NotePayload"
    BY <2>4, <2>6, ResolutionIs DEF AssetEvents
  <2> QED
    BY <2>7, <2>8, <1>0
<1> QED
  BY <1>1, <1>2

\* A live shield was queued and not resolved.
LEMMA LiveIs ==
  ASSUME ChainInv, NEW id \in LiveIds
  PROVE  /\ id \in Nat
         /\ \E j \in PositionsOf("ShieldQueued") : logs[j].key = id
         /\ \A j \in ResolutionPositions : logs[j].key # id
<1>1. \E j \in PositionsOf("ShieldQueued") : logs[j].key = id
  BY DEF LiveIds, Of, PositionsOf
<1>2. \A j \in PositionsOf("ShieldQueued") : logs[j].key \in Nat
  BY LogsAreSequence DEF PositionsOf, LogOK, AssetEvents
<1>3. \A j \in ResolutionPositions : logs[j].key # id
  <2> SUFFICES ASSUME NEW j \in ResolutionPositions, logs[j].key = id PROVE FALSE
    OBVIOUS
  <2>1. j \in DOMAIN logs /\ logs[j].event \in DOMAIN Resolution
    BY DEF ResolutionPositions
  <2>2. logs[j] \in Of(logs[j].event)
    BY <2>1 DEF Of
  <2>3. logs[j] \in Resolutions
    BY <2>1, <2>2 DEF Resolutions
  <2> QED
    BY <2>3 DEF LiveIds
<1> QED
  BY <1>1, <1>2, <1>3

\* A block with one resolution, of a live shield, at its end.
LEMMA ResolveMoves ==
  ASSUME ChainInv, IndexerAssumption, NEW id \in LiveIds,
         NEW new, Appended(new), new # << >>,
         new[Len(new)].event \in DOMAIN Resolution, new[Len(new)].key = id,
         \A k \in DOMAIN new : k # Len(new) => new[k].event \notin DOMAIN Resolution,
         \A k \in DOMAIN new : new[k].event \notin {"ShieldQueued", "NotePayload"}
  PROVE  ChainInv' /\ Moves
<1> DEFINE last == Len(logs) + Len(new)
<1>1. KeysCount' /\ PayloadsPaid'
  <2>1. KeysCount'
    BY KeysStay
  <2>2. PayloadsPaid'
    BY PayloadsStay
  <2> QED
    BY <2>1, <2>2
<1>2. /\ DOMAIN logs' = 1 .. last /\ DOMAIN logs = 1 .. Len(logs)
      /\ Len(logs) \in Nat /\ Len(new) \in Nat \ {0}
      /\ \A i \in DOMAIN logs : i \in DOMAIN logs' /\ logs'[i] = logs[i]
      /\ logs'[last] = new[Len(new)]
      /\ \A i \in DOMAIN logs' \ DOMAIN logs :
           /\ i > Len(logs) /\ i - Len(logs) \in DOMAIN new
           /\ logs'[i] = new[i - Len(logs)]
  <2>1. Len(new) \in DOMAIN new /\ Len(new) # 0
    BY DEF Appended
  <2> QED
    BY <2>1, AppendedAre
<1>3. ResolutionPositions' = ResolutionPositions \cup {last}
  <2>1. last \in ResolutionPositions'
    BY <1>2 DEF ResolutionPositions
  <2>2. ResolutionPositions \subseteq ResolutionPositions'
    BY <1>2 DEF ResolutionPositions
  <2>3. ASSUME NEW i \in DOMAIN logs' \ DOMAIN logs, logs'[i].event \in DOMAIN Resolution
        PROVE  i = last
    <3>1. i - Len(logs) = Len(new)
      BY <1>2, <2>3
    <3> QED
      BY <1>2, <3>1
  <2>4. ResolutionPositions' \subseteq ResolutionPositions \cup {last}
    BY <1>2, <2>3 DEF ResolutionPositions
  <2> QED
    BY <2>1, <2>2, <2>4
<1>4. \A i \in ResolutionPositions : logs'[i] = logs[i] /\ i \in 1 .. Len(logs)
  BY <1>2 DEF ResolutionPositions
<1>5. \A j \in PositionsOf("ShieldQueued") :
        j \in PositionsOf("ShieldQueued")' /\ logs'[j] = logs[j] /\ j \in 1 .. Len(logs)
  BY <1>2 DEF PositionsOf
<1>6. ResolvedOnce
  BY DEF ChainInv
<1>7. logs'[last].key = id
  BY <1>2
<1>8. ASSUME NEW i \in ResolutionPositions \cup {last}
      PROVE  /\ \E j \in PositionsOf("ShieldQueued")' : j < i /\ logs'[j].key = logs'[i].key
             /\ \A j \in ResolutionPositions \cup {last} : logs'[j].key = logs'[i].key => j = i
  <2> HIDE DEF last
  <2>1. CASE i \in ResolutionPositions
    <3>1. logs'[i].key # id /\ logs'[i] = logs[i]
      BY <1>4, <2>1, LiveIs
    <3> QED
      BY <1>4, <1>5, <1>6, <1>7, <2>1, <3>1 DEF ResolvedOnce
  <2>2. CASE i = last
    <3>1. PICK j \in PositionsOf("ShieldQueued") : logs[j].key = id
      BY LiveIs
    <3>2. j < last
      BY <1>2, <1>5 DEF last
    <3>3. \A k \in ResolutionPositions : logs'[k].key # id
      BY <1>4, LiveIs
    <3> QED
      BY <1>5, <1>7, <2>2, <3>1, <3>2, <3>3
  <2> QED
    BY <2>1, <2>2
<1>9. ResolvedOnce'
  <2> HIDE DEF last
  <2> QED
    BY <1>3, <1>8 DEF ResolvedOnce
<1> QED
  BY <1>1, <1>9, AppendMoves

LEMMA MineResolutionMoves ==
  ASSUME ChainInv, IndexerAssumption, MineResolution
  PROVE  ChainInv' /\ Moves
<1> PICK id \in LiveIds :
      \/ Mine("executeShield", <<Log("LeafInserted", Leaf, "executeShield"),
                                 Log("ShieldExecuted", id, "executeShield")>>)
      \/ \E call \in {"cancelShield", "contestShield"} :
           Mine(call, <<Log(Emits[call], id, call)>>)
  BY DEF MineResolution
<1>1. id \in Nat /\ Leaf \in Nat
  BY LiveIs, LeafIsNat DEF Leaf
<1>2. CASE Mine("executeShield", <<Log("LeafInserted", Leaf, "executeShield"),
                                   Log("ShieldExecuted", id, "executeShield")>>)
  <2> DEFINE a == Log("LeafInserted", Leaf, "executeShield")
             b == Log("ShieldExecuted", id, "executeShield")
             new == <<a, b>>
  <2>1. "executeShield" \in Calls
    BY <1>2 DEF Mine
  <2>2. /\ a \in LogType /\ a.event = "LeafInserted" /\ a.key = Leaf
        /\ a.tx = mined + 1 /\ a.block = head + 1
    <3>1. "LeafInserted" \in Events /\ Leaf \in Nat \cup Assets
      BY <1>1 DEF Events
    <3> QED
      BY <2>1, <3>1, LogIs
  <2>3. /\ b \in LogType /\ b.event = "ShieldExecuted" /\ b.key = id
        /\ b.tx = mined + 1 /\ b.block = head + 1
    <3>1. "ShieldExecuted" \in Events /\ id \in Nat \cup Assets
      BY <1>1, ResolutionIs DEF Events
    <3> QED
      BY <2>1, <3>1, LogIs
  <2>4. /\ logs' = logs \o new /\ head' = head + 1
        /\ mined' = mined + 1 /\ peak' = Max({peak, head + 1})
    BY <1>2 DEF Mine
  <2> HIDE DEF a, b
  <2>5. /\ new \in Seq(LogType) /\ DOMAIN new = {1, 2} /\ Len(new) = 2 /\ new # << >>
        /\ new[1] = a /\ new[2] = b
    BY <2>2, <2>3
  <2> HIDE DEF new
  <2>6. Appended(new)
    BY <1>1, <2>2, <2>3, <2>4, <2>5 DEF Appended, AssetEvents, SpendEvents
  <2>7. new[Len(new)].event \in DOMAIN Resolution /\ new[Len(new)].key = id
    BY <2>3, <2>5, ResolutionIs
  <2>8. /\ \A k \in DOMAIN new : k # Len(new) => new[k].event \notin DOMAIN Resolution
        /\ \A k \in DOMAIN new : new[k].event \notin {"ShieldQueued", "NotePayload"}
    BY <2>2, <2>3, <2>5, ResolutionIs
  <2> QED
    BY <2>5, <2>6, <2>7, <2>8, ResolveMoves
<1>3. ASSUME NEW call \in {"cancelShield", "contestShield"},
             Mine(call, <<Log(Emits[call], id, call)>>)
      PROVE  ChainInv' /\ Moves
  <2> DEFINE log == Log(Emits[call], id, call)
             new == <<log>>
  <2>1. call \in Calls
    BY <1>3 DEF Mine
  <2>2. Emits[call] \in {"ShieldCancelled", "ShieldContested"}
    BY DEF Emits
  <2>3. /\ log \in LogType /\ log.event = Emits[call] /\ log.key = id
        /\ log.tx = mined + 1 /\ log.block = head + 1
    <3>1. Emits[call] \in Events /\ id \in Nat \cup Assets
      BY <1>1, <2>2, ResolutionIs DEF Events
    <3> QED
      BY <2>1, <3>1, LogIs
  <2>4. /\ logs' = logs \o new /\ head' = head + 1
        /\ mined' = mined + 1 /\ peak' = Max({peak, head + 1})
    BY <1>3 DEF Mine
  <2> HIDE DEF log
  <2>5. new \in Seq(LogType) /\ DOMAIN new = {1} /\ Len(new) = 1 /\ new # << >> /\ new[1] = log
    BY <2>3
  <2> HIDE DEF new
  <2>6. Appended(new)
    BY <1>1, <2>2, <2>3, <2>4, <2>5 DEF Appended, AssetEvents, SpendEvents
  <2>7. new[Len(new)].event \in DOMAIN Resolution /\ new[Len(new)].key = id
    BY <2>2, <2>3, <2>5, ResolutionIs
  <2>8. /\ \A k \in DOMAIN new : k # Len(new) => new[k].event \notin DOMAIN Resolution
        /\ \A k \in DOMAIN new : new[k].event \notin {"ShieldQueued", "NotePayload"}
    BY <2>2, <2>3, <2>5, ResolutionIs
  <2> QED
    BY <2>5, <2>6, <2>7, <2>8, ResolveMoves
<1> QED
  BY <1>2, <1>3

LEMMA ReorgMoves ==
  ASSUME ChainInv, IndexerAssumption, Reorg
  PROVE  ChainInv' /\ Moves
<1>1. /\ {head, peak, mined} \subseteq Nat /\ ConfirmationDepth \in Nat
      /\ head > 0 /\ head + ConfirmationDepth > peak
      /\ head' = head - 1 /\ mined' = mined /\ peak' = peak
  BY DEF ChainInv, IndexerAssumption, Reorg
<1>2. Len(logs) \in Nat /\ DOMAIN logs = 1 .. Len(logs) /\ logs \in Seq(LogType)
  BY LogsAreSequence DEF ChainInv
<1>3. PICK n \in 0 .. Len(logs) :
        /\ \A i \in DOMAIN logs : i <= n <=> logs[i].block < head
        /\ logs' = SubSeq(logs, 1, n)
  BY DEF Reorg
<1>4. logs' \in Seq(LogType) /\ DOMAIN logs' = 1 .. n /\ \A i \in 1 .. n : logs'[i] = logs[i]
  BY <1>2, <1>3
<1>5. \A i \in DOMAIN logs' : i \in DOMAIN logs /\ logs'[i] = logs[i] /\ logs[i].block < head
  BY <1>2, <1>3, <1>4
<1>6. \A i \in DOMAIN logs : logs[i].block < head => i \in DOMAIN logs' /\ logs'[i] = logs[i]
  BY <1>2, <1>3, <1>4
<1>7. \A i \in DOMAIN logs : LogOK(logs[i], head) /\ logs[i].block \in 1 .. head
  BY DEF ChainInv, LogOK
<1>8. Moves
  BY <1>1, <1>5, <1>6, <1>7 DEF Moves, Confirmed
<1>9. \A i \in DOMAIN logs' : LogOK(logs'[i], head')
  BY <1>1, <1>5, <1>7 DEF LogOK
<1>10. \A i, j \in DOMAIN logs' : i <= j => logs'[i].block <= logs'[j].block
  BY <1>5 DEF ChainInv
<1>11. \A e : \A i \in PositionsOf(e)' : i \in PositionsOf(e) /\ logs'[i] = logs[i] /\ i \in 1 .. n
  BY <1>4, <1>5 DEF PositionsOf
<1>12. \A e : \A i \in PositionsOf(e) : i <= n => i \in PositionsOf(e)' /\ logs'[i] = logs[i]
  BY <1>2, <1>4 DEF PositionsOf
<1>13. KeysCount'
  <2>1. \A i, j \in PositionsOf("ShieldQueued") : i < j => logs[i].key < logs[j].key
    BY DEF ChainInv, KeysCount
  <2>2. \A i \in PositionsOf("ShieldQueued") : \A k \in 0 .. logs[i].key - 1 :
          \E j \in PositionsOf("ShieldQueued") : j < i /\ logs[j].key = k
    BY DEF ChainInv, KeysCount
  <2>3. PositionsOf("ShieldQueued") \subseteq Nat
    BY <1>2 DEF PositionsOf
  <2> QED
    BY <1>11, <1>12, <2>1, <2>2, <2>3 DEF KeysCount
<1>14. ResolvedOnce'
  <2>1. \A i \in ResolutionPositions' : i \in ResolutionPositions /\ logs'[i] = logs[i] /\ i \in 1 .. n
    BY <1>4, <1>5 DEF ResolutionPositions
  <2>2. PositionsOf("ShieldQueued") \subseteq Nat
    BY <1>2 DEF PositionsOf
  <2>3. ResolvedOnce
    BY DEF ChainInv
  <2> QED
    BY <1>12, <2>1, <2>2, <2>3 DEF ResolvedOnce
<1>15. PayloadsPaid'
  <2>1. PayloadsPaid
    BY DEF ChainInv
  <2>2. \A j \in PositionsOf("NullifierUsed") : logs[j].block < head =>
          j \in PositionsOf("NullifierUsed")' /\ logs'[j] = logs[j]
    BY <1>6 DEF PositionsOf
  <2>3. \A i \in PositionsOf("NotePayload")' : i \in PositionsOf("NotePayload") /\ logs'[i] = logs[i]
                                               /\ logs[i].block < head
    BY <1>5 DEF PositionsOf
  <2> QED
    BY <2>1, <2>2, <2>3 DEF PayloadsPaid
<1>16. {head, mined, peak}' \subseteq Nat /\ head' <= peak' /\ peak' <= head' + ConfirmationDepth
  BY <1>1 DEF ChainInv
<1> QED
  BY <1>4, <1>8, <1>9, <1>10, <1>13, <1>14, <1>15, <1>16 DEF ChainInv

LEMMA ChainSteps ==
  ASSUME ChainInv, IndexerAssumption,
         MineShield \/ MineResolution \/ MineSpend \/ MineAsset \/ Reorg
  PROVE  /\ ChainInv' /\ Moves
         /\ UNCHANGED <<cursor, rows, pass, failed, floor>>
         /\ mishaps \in Nat => mishaps' \in Nat
<1>1. ChainInv' /\ Moves
  BY MineShieldMoves, MineResolutionMoves, MineOthersMove, ReorgMoves
<1>2. ASSUME NEW call, NEW new, Mine(call, new)
      PROVE  UNCHANGED <<cursor, rows, pass, failed, floor>> /\ mishaps' = mishaps
  BY <1>2 DEF Mine, history
<1>3. CASE Reorg
  BY <1>1, <1>3 DEF Reorg, Mishap
<1>4. CASE MineShield \/ MineResolution \/ MineSpend \/ MineAsset
  <2>1. UNCHANGED <<cursor, rows, pass, failed, floor>> /\ mishaps' = mishaps
    BY <1>2, <1>4 DEF MineShield, MineResolution, MineSpend, MineAsset
  <2> QED
    BY <1>1, <2>1
<1> QED
  BY <1>3, <1>4

-----------------------------------------------------------------------------
(* What the logs say of each other *)

LEMMA LogsAre ==
  ASSUME ChainInv, NEW l \in Logs
  PROVE  /\ l \in LogType /\ l.block \in Nat /\ l.block > 0 /\ l.event \in Events
         /\ l.event \in AssetEvents => l.key \in Assets
         /\ l.event \notin AssetEvents => l.key \in Nat
         /\ l.tx \in Nat
         /\ l.event \in SpendEvents => l.key = l.tx
<1>1. PICK i \in DOMAIN logs : l = logs[i]
  BY DEF Logs
<1>2. LogOK(l, head) /\ head \in Nat
  BY <1>1 DEF ChainInv
<1> QED
  BY <1>2 DEF LogOK, LogType

\* There is one queue log of a shield, and its resolution comes later.
LEMMA QueuedBefore ==
  ASSUME ChainInv, NEW i \in ResolutionPositions, NEW j \in PositionsOf("ShieldQueued"),
         logs[j].key = logs[i].key
  PROVE  j < i /\ logs[j].block <= logs[i].block
<1>1. DOMAIN logs = 1 .. Len(logs) /\ Len(logs) \in Nat
  BY LogsAreSequence
<1>2. PICK k \in PositionsOf("ShieldQueued") : k < i /\ logs[k].key = logs[i].key
  BY DEF ChainInv, ResolvedOnce
<1>3. \A m \in PositionsOf("ShieldQueued") : logs[m].key \in Nat /\ m \in Nat /\ m \in DOMAIN logs
  BY <1>1, LogsAreSequence DEF PositionsOf, LogOK, AssetEvents
<1>4. \A m, n \in PositionsOf("ShieldQueued") : m < n => logs[m].key < logs[n].key
  BY DEF ChainInv, KeysCount
<1>5. j = k
  BY <1>2, <1>3, <1>4
<1>6. \A m, n \in DOMAIN logs : m <= n => logs[m].block <= logs[n].block
  BY DEF ChainInv
<1>7. i \in DOMAIN logs
  BY DEF ResolutionPositions
<1> QED
  BY <1>1, <1>2, <1>3, <1>5, <1>6, <1>7

LEMMA ResolvedAfterQueued ==
  ASSUME ChainInv, NEW l \in Logs, l.event \in DOMAIN Resolution,
         NEW q \in Of("ShieldQueued"), q.key = l.key
  PROVE  q.block <= l.block /\ q \in Logs /\ q.event = "ShieldQueued"
<1>1. PICK i \in DOMAIN logs : l = logs[i]
  BY DEF Logs
<1>2. PICK j \in DOMAIN logs : q = logs[j] /\ logs[j].event = "ShieldQueued"
  BY DEF Of
<1>3. i \in ResolutionPositions /\ j \in PositionsOf("ShieldQueued")
  BY <1>1, <1>2 DEF ResolutionPositions, PositionsOf
<1>4. logs[j].block <= logs[i].block
  BY <1>1, <1>2, <1>3, QueuedBefore
<1> QED
  BY <1>1, <1>2, <1>4 DEF Logs

LEMMA OneResolution ==
  ASSUME ChainInv, NEW l \in Logs, NEW m \in Logs, l.key = m.key,
         l.event \in DOMAIN Resolution, m.event \in DOMAIN Resolution
  PROVE  l = m
<1>1. PICK i \in DOMAIN logs : l = logs[i]
  BY DEF Logs
<1>2. PICK j \in DOMAIN logs : m = logs[j]
  BY DEF Logs
<1>3. i \in ResolutionPositions /\ j \in ResolutionPositions
  BY <1>1, <1>2 DEF ResolutionPositions
<1> QED
  BY <1>1, <1>2, <1>3 DEF ChainInv, ResolvedOnce

LEMMA QueueLogIs ==
  ASSUME ChainInv, NEW q
  PROVE  q \in Of("ShieldQueued") <=> q \in Logs /\ q.event = "ShieldQueued"
BY DEF Of, Logs

-----------------------------------------------------------------------------
(* The chain moves under the tables *)

LEMMA FinalStays ==
  ASSUME ChainInv, ChainInv', Moves, IndexerAssumption
  PROVE  /\ \A b \in Nat : Confirmed(b) => Confirmed(b)'
         /\ \A l \in Logs : Confirmed(l.block) => l \in Logs'
         /\ \A l \in Logs' : l.block + ConfirmationDepth <= peak => l \in Logs
         /\ Final \subseteq Final'
<1>1. peak \in Nat /\ peak' \in Nat /\ peak <= peak' /\ ConfirmationDepth \in Nat
  BY DEF ChainInv, Moves, IndexerAssumption
<1>2. \A b \in Nat : Confirmed(b) => Confirmed(b)'
  BY <1>1 DEF Confirmed
<1>3. \A l \in Logs : Confirmed(l.block) => l \in Logs'
  BY DEF Moves, Logs
<1>4. \A l \in Logs' : l.block + ConfirmationDepth <= peak => l \in Logs
  BY DEF Moves, Logs
<1>5. ASSUME NEW l \in Final PROVE l \in Final'
  <2>1. l \in Logs /\ Confirmed(l.block) /\ l.block \in Nat
    BY LogsAre DEF Final
  <2> QED
    BY <1>2, <1>3, <2>1 DEF Final
<1> QED
  BY <1>2, <1>3, <1>4, <1>5

LEMMA SettledStays ==
  ASSUME ChainInv, ChainInv', Moves, IndexerAssumption,
         UNCHANGED <<cursor, rows, pass, failed, floor>>,
         NEW l \in Logs, Confirmed(l.block), Settled(l)
  PROVE  Settled(l)'
<1>1. Reflected(l)' = Reflected(l)
  BY DEF Reflected, rows, queueRows, spendRows
<1>2. CASE Orphaned(l)
  <2>1. PICK q \in Of("ShieldQueued") : q.key = l.key /\ (q \in failed \/ q.block <= floor)
    BY <1>2 DEF Orphaned
  <2>2. q.block <= l.block /\ q \in Logs /\ q.event = "ShieldQueued"
    BY <1>2, <2>1, ResolvedAfterQueued DEF Orphaned
  <2>3. q.block \in Nat /\ l.block \in Nat
    BY <2>2, LogsAre
  <2>4. Confirmed(q.block)
    <3>1. peak \in Nat /\ ConfirmationDepth \in Nat
      BY DEF IndexerAssumption, ChainInv
    <3> QED
      BY <2>2, <2>3, <3>1 DEF Confirmed
  <2>5. q \in Logs'
    BY <2>2, <2>4, FinalStays
  <2>6. q \in Of("ShieldQueued")'
    BY <2>2, <2>5 DEF Of, Logs
  <2> QED
    BY <1>2, <2>1, <2>6 DEF Settled, Orphaned
<1> QED
  BY <1>1, <1>2 DEF Settled

LEMMA RowsFromMore ==
  ASSUME NEW C, NEW D, C \subseteq D, RowsFrom(C)
  PROVE  RowsFrom(D)
BY DEF RowsFrom

\* The invariant of the tables and of the passes, where only the chain moves.
LEMMA RowsStay ==
  ASSUME ChainInv, ChainInv', Moves, IndexerAssumption, RowsInv,
         UNCHANGED <<cursor, rows, pass, failed, floor>>, mishaps' \in Nat
  PROVE  RowsInv'
<1>1. PICK C : C = Final
  OBVIOUS
<1>2. PICK D : D = Final'
  OBVIOUS
<1>3. RowsFrom(D)
  <2>1. C \subseteq D
    BY <1>1, <1>2, FinalStays
  <2>2. RowsFrom(C)
    BY <1>1 DEF RowsInv
  <2> QED
    BY <2>1, <2>2, RowsFromMore
<1>4. RowsFrom(D)'
  BY <1>3 DEF RowsFrom, rows, queueRows, spendRows
<1>5. RowsFrom(Final)'
  BY <1>2, <1>4 DEF RowsFrom
<1>6. /\ \A id \in DOMAIN entries' : id \in Nat /\ entries'[id] \in QueueRow
      /\ (leafRows \cup payloadRows \cup nullifierRows \cup DOMAIN activity)' \subseteq Nat
      /\ \A tx \in DOMAIN activity' : activity'[tx] \in BOOLEAN
      /\ DOMAIN assets' \subseteq Assets /\ \A a \in DOMAIN assets' : assets'[a] \in BOOLEAN
      /\ alerts' \in Seq(Nat) /\ Range(alerts') \subseteq DOMAIN entries' /\ IsInjective(alerts')
      /\ failed' \subseteq LogType /\ floor' \in Nat
  BY DEF RowsInv, rows, queueRows, spendRows
<1> QED
  BY <1>5, <1>6 DEF RowsInv

LEMMA PassStays ==
  ASSUME ChainInv, ChainInv', Moves, IndexerAssumption,
         UNCHANGED <<cursor, rows, pass, failed, floor>>, NEW r, PassOK(r)
  PROVE  PassOK(r)'
<1>0. ASSUME NEW b \in Nat, NEW c \in Nat, b <= c, Confirmed(c)
      PROVE  b + ConfirmationDepth <= peak
  BY <1>0 DEF Confirmed, ChainInv, IndexerAssumption
<1>1. ASSUME NEW top \in Nat, Confirmed(top), NEW l \in Logs', l.block <= top
      PROVE  l \in Logs /\ Confirmed(l.block)
  <2>1. l.block \in Nat
    <3>1. PICK i \in DOMAIN logs' : l = logs'[i]
      BY DEF Logs
    <3>2. LogOK(l, head') /\ head' \in Nat
      BY <3>1 DEF ChainInv
    <3> QED
      BY <3>2 DEF LogOK
  <2> QED
    BY <1>0, <1>1, <2>1, FinalStays DEF Confirmed
<1>2. CASE WalkingOK(r)
  <2>1. /\ r \in [pc : {"walking"}, from : Nat, top : Nat]
        /\ r.from <= r.top /\ Confirmed(r.top)
        /\ \A l \in Logs : l.block < r.from => Settled(l)
    BY <1>2 DEF WalkingOK
  <2>2. r.top \in Nat /\ r.from \in Nat /\ Confirmed(r.top)'
    BY <2>1, FinalStays
  <2>3. ASSUME NEW l \in Logs', l.block < r.from PROVE Settled(l)'
    <3>1. l.block \in Nat
      <4>1. PICK i \in DOMAIN logs' : l = logs'[i]
        BY DEF Logs
      <4>2. LogOK(l, head') /\ head' \in Nat
        BY <4>1 DEF ChainInv
      <4> QED
        BY <4>2 DEF LogOK
    <3>2. l.block <= r.top
      BY <2>1, <2>2, <2>3, <3>1
    <3>3. l \in Logs /\ Confirmed(l.block)
      BY <1>1, <2>1, <2>2, <3>2
    <3> QED
      BY <2>1, <2>3, <3>3, SettledStays
  <2> QED
    BY <2>1, <2>2, <2>3 DEF PassOK, WalkingOK
<1>3. CASE HandlingOK(r)
  <2>1. /\ r \in [pc : {"handling"}, to : Nat, top : Nat, todo : {r.todo}, written : 0 .. 1]
        /\ r.to <= r.top /\ Confirmed(r.top)
        /\ DOMAIN r.todo \subseteq DOMAIN logs
        /\ \A i \in DOMAIN r.todo : r.todo[i] = logs[i] /\ logs[i].block <= r.to
        /\ \A i \in DOMAIN logs : logs[i].block <= r.to => i \in DOMAIN r.todo \/ Settled(logs[i])
    BY <1>3 DEF HandlingOK
  <2>2. r.to \in Nat /\ r.top \in Nat /\ Confirmed(r.top)'
    BY <2>1, FinalStays
  <2>3. \A b \in Nat : b <= r.to => b + ConfirmationDepth <= peak
    BY <1>0, <2>1, <2>2
  <2>4. \A i \in DOMAIN logs : logs[i].block \in Nat
    BY LogsAreSequence DEF LogOK
  <2>5. \A i \in DOMAIN logs' : logs'[i].block \in Nat
    BY DEF ChainInv, LogOK
  <2>6. \A i \in DOMAIN r.todo : i \in DOMAIN logs' /\ r.todo[i] = logs'[i] /\ logs'[i].block <= r.to
    BY <2>1, <2>3, <2>4 DEF Moves, Confirmed
  <2>7. ASSUME NEW i, i \in DOMAIN logs', logs'[i].block <= r.to
        PROVE  i \in DOMAIN r.todo \/ Settled(logs[i])'
    <3>1. i \in DOMAIN logs /\ logs[i] = logs'[i]
      BY <2>3, <2>5, <2>7 DEF Moves
    <3>2. PICK l : l = logs[i]
      OBVIOUS
    <3>3. l \in Logs /\ Confirmed(l.block)
      BY <2>3, <2>4, <2>7, <3>1, <3>2 DEF Logs, Confirmed
    <3>4. Settled(l) => Settled(l)'
      BY <3>3, SettledStays
    <3>5. Settled(l)' => Settled(logs[i])'
      BY <3>1, <3>2 DEF Settled, Reflected, Orphaned
    <3> QED
      BY <2>1, <2>7, <3>1, <3>2, <3>4, <3>5
  <2>8. r.written = 1 =>
          \E i \in DOMAIN r.todo :
            /\ \A j \in DOMAIN r.todo : i <= j
            /\ Len(Writes(r.todo[i])) = 2 /\ Done(Writes(r.todo[i])[1], r.todo[i])'
    BY <1>3 DEF HandlingOK, Done, rows, queueRows, spendRows
  <2> QED
    BY <2>1, <2>2, <2>6, <2>7, <2>8 DEF PassOK, HandlingOK
<1>4. CASE r = Idle \/ (r \in [pc : {"begun"}, from : Nat] /\ r.from <= cursor)
  BY <1>4 DEF PassOK
<1> QED
  BY <1>2, <1>3, <1>4 DEF PassOK

LEMMA ChainStepsKeep ==
  ASSUME IndexInv, IndexerAssumption,
         MineShield \/ MineResolution \/ MineSpend \/ MineAsset \/ Reorg
  PROVE  IndexInv'
<1>1. ChainInv /\ RowsInv /\ mishaps \in Nat
  BY DEF IndexInv, RowsInv
<1>2. /\ ChainInv' /\ Moves /\ mishaps' \in Nat
      /\ UNCHANGED <<cursor, rows, pass, failed, floor>>
  BY <1>1, ChainSteps
<1>3. RowsInv'
  BY <1>1, <1>2, RowsStay
<1>4. cursor' = cursor /\ cursor \in Nat /\ pass' = pass /\ (cursor > 0 => Confirmed(cursor))
  BY <1>2 DEF IndexInv
<1>5. cursor > 0 => Confirmed(cursor)'
  BY <1>1, <1>2, <1>4, FinalStays
<1>6. LossIsContained'
  <2> SUFFICES ASSUME NEW l \in Logs', l.block <= cursor PROVE Settled(l)'
    BY <1>4 DEF LossIsContained
  <2>1. l.block \in Nat /\ l.block > 0
    <3>1. PICK i \in DOMAIN logs' : l = logs'[i]
      BY DEF Logs
    <3>2. LogOK(l, head') /\ head' \in Nat
      BY <1>2, <3>1 DEF ChainInv
    <3> QED
      BY <3>2 DEF LogOK
  <2>2. l.block + ConfirmationDepth <= peak
    BY <1>1, <1>4, <2>1 DEF Confirmed, ChainInv, IndexerAssumption
  <2>3. l \in Logs /\ Confirmed(l.block)
    BY <1>1, <1>2, <2>2, FinalStays DEF Confirmed
  <2>4. Settled(l)
    BY <2>3 DEF IndexInv, LossIsContained
  <2> QED
    BY <1>1, <1>2, <2>3, <2>4, SettledStays
<1>7. ASSUME NEW p \in Passes PROVE PassOK(pass[p])'
  <2>1. PICK r : r = pass[p]
    OBVIOUS
  <2>2. PassOK(r)
    BY <2>1 DEF IndexInv
  <2>3. PassOK(r)'
    BY <1>1, <1>2, <2>2, PassStays
  <2>4. pass'[p] = r
    BY <1>4, <2>1
  <2> QED
    BY <2>3, <2>4
<1>8. DOMAIN pass' = Passes
  BY <1>4 DEF IndexInv
<1> QED
  BY <1>2, <1>3, <1>4, <1>5, <1>6, <1>7, <1>8 DEF IndexInv

-----------------------------------------------------------------------------
(* The writes *)

\* What is in a table stays there, and what is settled stays settled.
Grows ==
  /\ UNCHANGED chain
  /\ failed \subseteq failed' /\ floor \in Nat /\ floor' \in Nat /\ floor <= floor'
  /\ cursor \in Nat /\ cursor' \in Nat /\ cursor <= cursor'
  /\ \A l \in Logs : Reflected(l) => Reflected(l)'
  /\ \A l \in Logs, w \in {"payload", "activity"} : Done(w, l) => Done(w, l)'

LEMMA ChainUnmoved ==
  ASSUME ChainInv, UNCHANGED chain
  PROVE  /\ ChainInv' /\ Final' = Final /\ Logs' = Logs
         /\ \A b : Confirmed(b)' <=> Confirmed(b)
BY DEF ChainInv, chain, Final, Logs, Confirmed, LogOK, KeysCount, ResolvedOnce,
       PayloadsPaid, PositionsOf, ResolutionPositions

LEMMA SettledGrows ==
  ASSUME ChainInv, Grows, NEW l \in Logs, Settled(l)
  PROVE  Settled(l)'
<1>1. Reflected(l) => Reflected(l)'
  BY DEF Grows
<1>2. l.block \in Nat
  BY LogsAre
<1>3. l \in failed => l \in failed'
  BY DEF Grows
<1>4. l.block <= floor => l.block <= floor'
  BY <1>2 DEF Grows
<1>5. Orphaned(l) => Orphaned(l)'
  <2> SUFFICES ASSUME Orphaned(l) PROVE Orphaned(l)'
    OBVIOUS
  <2>1. PICK q \in Of("ShieldQueued") : q.key = l.key /\ (q \in failed \/ q.block <= floor)
    BY DEF Orphaned
  <2>2. q.block \in Nat
    BY <2>1, QueueLogIs, LogsAre
  <2>3. q \in Of("ShieldQueued")'
    BY DEF Grows, chain, Of
  <2>4. q \in failed' \/ q.block <= floor'
    BY <2>1, <2>2 DEF Grows
  <2> QED
    BY <2>1, <2>3, <2>4 DEF Orphaned
<1> QED
  BY <1>1, <1>3, <1>4, <1>5 DEF Settled

LEMMA HandlingGrows ==
  ASSUME ChainInv, Grows, NEW r, HandlingOK(r)
  PROVE  HandlingOK(r)'
<1>0. /\ Logs' = Logs /\ logs' = logs
      /\ \A b : Confirmed(b)' <=> Confirmed(b)
  BY ChainUnmoved DEF Grows, chain
<1>1. \A i \in DOMAIN logs : logs[i] \in Logs
  BY DEF Logs
<1>2. \A i \in DOMAIN logs : Settled(logs[i]) => Settled(logs[i])'
  <2> SUFFICES ASSUME NEW i \in DOMAIN logs, Settled(logs[i]) PROVE Settled(logs[i])'
    OBVIOUS
  <2>1. PICK l \in Logs : l = logs[i]
    BY <1>1
  <2>2. Settled(l)
    BY <2>1
  <2>3. Settled(l)'
    BY <2>2, SettledGrows
  <2> QED
    BY <1>0, <2>1, <2>3 DEF Settled, Reflected, Orphaned
<1>3. ASSUME r.written = 1
      PROVE  \E i \in DOMAIN r.todo :
               /\ \A j \in DOMAIN r.todo : i <= j
               /\ Len(Writes(r.todo[i])) = 2 /\ Done(Writes(r.todo[i])[1], r.todo[i])'
  <2>1. PICK i \in DOMAIN r.todo :
          /\ \A j \in DOMAIN r.todo : i <= j
          /\ Len(Writes(r.todo[i])) = 2 /\ Done(Writes(r.todo[i])[1], r.todo[i])
    BY <1>3 DEF HandlingOK
  <2>2. r.todo[i] \in Logs
    BY <1>1 DEF HandlingOK
  <2>3. Writes(r.todo[i])[1] \in {"payload", "activity"}
    BY <2>1 DEF Writes
  <2> QED
    BY <2>1, <2>2, <2>3 DEF Grows
<1> QED
  BY <1>0, <1>2, <1>3 DEF HandlingOK

LEMMA PassGrows ==
  ASSUME ChainInv, Grows, NEW r, PassOK(r)
  PROVE  PassOK(r)'
<1>0. /\ Logs' = Logs /\ logs' = logs
      /\ \A b : Confirmed(b)' <=> Confirmed(b)
  BY ChainUnmoved DEF Grows, chain
<1>1. CASE WalkingOK(r)
  <2>1. \A l \in Logs : l.block < r.from => Settled(l)'
    BY <1>1, SettledGrows DEF WalkingOK
  <2> QED
    BY <1>0, <1>1, <2>1 DEF PassOK, WalkingOK
<1>2. CASE HandlingOK(r)
  BY <1>2, HandlingGrows DEF PassOK
<1>3. CASE r = Idle \/ (r \in [pc : {"begun"}, from : Nat] /\ r.from <= cursor)
  BY <1>3 DEF PassOK, Grows
<1> QED
  BY <1>1, <1>2, <1>3 DEF PassOK

\* The writes of a log, and what the first of two leaves for the second.
LEMMA WritesAre ==
  ASSUME ChainInv, NEW l \in Logs
  PROVE  /\ Len(Writes(l)) \in {1, 2}
         /\ \A k \in 1 .. Len(Writes(l)) :
              Writes(l)[k] \in {"queue", "resolve", "leaf", "payload", "nullifier",
                                "activity", "asset"}
         /\ \A k \in 1 .. Len(Writes(l)) :
              /\ Writes(l)[k] = "queue" => l.event = "ShieldQueued"
              /\ Writes(l)[k] = "resolve" => l.event \in DOMAIN Resolution
              /\ Writes(l)[k] = "leaf" => l.event = "LeafInserted"
              /\ Writes(l)[k] = "payload" => l.event = "NotePayload"
              /\ Writes(l)[k] = "nullifier" => l.event = "NullifierUsed"
              /\ Writes(l)[k] = "activity" => l.event \in SpendEvents
              /\ Writes(l)[k] = "asset" => l.event \in AssetEvents
<1>1. l.event \in Events
  BY LogsAre
<1> QED
  BY <1>1, ResolutionIs DEF Writes, Events, SpendEvents, AssetEvents

\* A log is in the tables once all its writes are, unless its shield has no row.
LEMMA WritesReflect ==
  ASSUME NEW l, l.event \in Events
  PROVE  /\ Len(Writes(l)) = 1 /\ l.event \notin DOMAIN Resolution
              => (Done(Writes(l)[1], l)' => Reflected(l)')
         /\ Len(Writes(l)) = 2
              => (Done(Writes(l)[1], l)' /\ Done(Writes(l)[2], l)' => Reflected(l)')
BY ResolutionIs DEF Writes, Events, Done, Reflected

LEMMA PutIs ==
  ASSUME NEW f, NEW k, NEW v
  PROVE  /\ \A m : m \in DOMAIN Put(f, k, v) <=> m \in DOMAIN f \/ m = k
         /\ Put(f, k, v)[k] = v
         /\ \A m \in DOMAIN f : m # k => Put(f, k, v)[m] = f[m]
BY DEF Put

\* Nothing but the tables moves.
OnlyRows == UNCHANGED <<chain, cursor, failed, floor, mishaps>>

LEMMA OnlyRowsIs ==
  ASSUME ChainInv, RowsInv, cursor \in Nat, OnlyRows
  PROVE  /\ UNCHANGED chain /\ Final' = Final
         /\ failed \subseteq failed' /\ floor \in Nat /\ floor' \in Nat /\ floor <= floor'
         /\ cursor' \in Nat /\ cursor <= cursor'
         /\ failed' \subseteq LogType /\ {floor, mishaps}' \subseteq Nat
<1>1. UNCHANGED chain
  BY DEF OnlyRows
<1>2. Final' = Final
  BY <1>1, ChainUnmoved
<1> QED
  BY <1>1, <1>2 DEF OnlyRows, RowsInv

LEMMA QueueWrite ==
  ASSUME ChainInv, RowsInv, cursor \in Nat, OnlyRows, NEW l \in Final,
         l.event = "ShieldQueued", UpsertShieldQueueEntry(l), UNCHANGED <<spendRows, assets>>
  PROVE  Grows /\ RowsInv' /\ Done("queue", l)'
<1> USE OnlyRowsIs
<1>1. l \in Logs /\ l.key \in Nat /\ l.tx \in Nat
  BY LogsAre DEF Final, AssetEvents
<1>2. CASE ~IsNew(l.key)
  <2>1. UNCHANGED <<queueRows, spendRows, assets>>
    BY <1>2 DEF UpsertShieldQueueEntry
  <2>2. Grows
    BY <2>1 DEF Grows, Reflected, Done, queueRows, spendRows
  <2>3. RowsFrom(Final)'
    BY <2>1 DEF RowsInv, RowsFrom, queueRows, spendRows
  <2>4. RowsInv'
    BY <2>1, <2>3 DEF RowsInv, queueRows, spendRows
  <2> QED
    BY <1>2, <2>1, <2>2, <2>4 DEF Done, IsNew, queueRows
<1>3. CASE IsNew(l.key)
  <2> DEFINE row == [queuedTx |-> l.tx, state |-> "queued"]
  <2>0. row \in QueueRow
    BY <1>1 DEF QueueRow
  <2>1. /\ \A m : m \in DOMAIN entries' <=> m \in DOMAIN entries \/ m = l.key
        /\ entries'[l.key] = row
        /\ \A m \in DOMAIN entries : entries'[m] = entries[m]
    BY <1>3, PutIs DEF UpsertShieldQueueEntry, IsNew
  <2>2. alerts' = alerts \/ alerts' = Append(alerts, l.key)
    BY <1>3 DEF UpsertShieldQueueEntry
  <2>3. row.queuedTx = l.tx /\ row.state = "queued"
    OBVIOUS
  <2> HIDE DEF row
  <2>4. Grows
    <3>1. \A m \in Logs : Reflected(m) => Reflected(m)'
      BY <2>1 DEF Reflected, spendRows
    <3>2. \A m \in Logs, w \in {"payload", "activity"} : Done(w, m) => Done(w, m)'
      BY DEF Done, spendRows
    <3> QED
      BY <3>1, <3>2 DEF Grows
  <2>5. RowsFrom(Final)'
    <3>1. RowsFrom(Final)
      BY DEF RowsInv
    <3>2. \A id \in DOMAIN entries' :
            /\ \E q \in Final : /\ q.event = "ShieldQueued"
                                /\ q.key = id /\ q.tx = entries'[id].queuedTx
            /\ entries'[id].state # "queued" =>
                 \E q \in Final : /\ q.event \in DOMAIN Resolution
                                  /\ q.key = id /\ Resolution[q.event] = entries'[id].state
      BY <2>1, <2>3, <3>1 DEF RowsFrom
    <3> QED
      BY <3>1, <3>2 DEF RowsFrom, spendRows
  <2>6. /\ alerts' \in Seq(Nat) /\ Range(alerts') \subseteq DOMAIN entries'
        /\ IsInjective(alerts')
    <3>1. alerts \in Seq(Nat) /\ Range(alerts) \subseteq DOMAIN entries /\ IsInjective(alerts)
      BY DEF RowsInv
    <3>2. CASE alerts' = alerts
      BY <2>1, <3>1, <3>2
    <3>3. CASE alerts' = Append(alerts, l.key)
      <4>1. Len(alerts) \in Nat /\ DOMAIN alerts = 1 .. Len(alerts)
        BY <3>1
      <4>2. /\ alerts' \in Seq(Nat) /\ DOMAIN alerts' = 1 .. Len(alerts) + 1
            /\ alerts'[Len(alerts) + 1] = l.key
            /\ \A i \in 1 .. Len(alerts) : alerts'[i] = alerts[i]
        BY <1>1, <3>1, <3>3, <4>1
      <4>3. \A i \in 1 .. Len(alerts) : alerts[i] \in DOMAIN entries /\ alerts[i] # l.key
        BY <1>3, <3>1, <4>1 DEF Range, IsNew
      <4>4. \A i \in DOMAIN alerts' : alerts'[i] \in DOMAIN entries'
        BY <2>1, <4>1, <4>2, <4>3
      <4>5. \A i, j \in 1 .. Len(alerts) : alerts[i] = alerts[j] => i = j
        BY <3>1, <4>1 DEF IsInjective
      <4>6. \A i, j \in DOMAIN alerts' : alerts'[i] = alerts'[j] => i = j
        BY <4>1, <4>2, <4>3, <4>5
      <4> QED
        BY <4>2, <4>4, <4>6 DEF Range, IsInjective
    <3> QED
      BY <2>2, <3>2, <3>3
  <2>7. \A id \in DOMAIN entries' : id \in Nat /\ entries'[id] \in QueueRow
    BY <1>1, <2>0, <2>1 DEF RowsInv
  <2>8. RowsInv'
    BY <2>5, <2>6, <2>7 DEF RowsInv, spendRows
  <2> QED
    BY <2>1, <2>4, <2>8 DEF Done
<1> QED
  BY <1>2, <1>3

LEMMA ResolveWrite ==
  ASSUME ChainInv, RowsInv, cursor \in Nat, OnlyRows, NEW l \in Final,
         l.event \in DOMAIN Resolution, ResolveShieldQueueEntry(l), UNCHANGED <<spendRows, assets>>
  PROVE  Grows /\ RowsInv' /\ Done("resolve", l)' /\ DOMAIN entries' = DOMAIN entries
<1> USE OnlyRowsIs
<1>1. l \in Logs /\ Resolution[l.event] \in {"executed", "cancelled", "contested"}
  BY ResolutionIs DEF Final
<1>2. /\ DOMAIN entries' = DOMAIN entries /\ alerts' = alerts
      /\ \A id \in DOMAIN entries :
           entries'[id] = IF id = l.key /\ entries[id].state = "queued"
                          THEN [entries[id] EXCEPT !.state = Resolution[l.event]]
                          ELSE entries[id]
  BY DEF ResolveShieldQueueEntry
<1>3. \A id \in DOMAIN entries : id \in Nat /\ entries[id] \in QueueRow
  BY DEF RowsInv
<1>4. \A id \in DOMAIN entries :
        /\ entries'[id] \in QueueRow /\ entries'[id].queuedTx = entries[id].queuedTx
        /\ \/ entries'[id].state = entries[id].state
           \/ /\ id = l.key /\ entries[id].state = "queued"
              /\ entries'[id].state = Resolution[l.event]
        /\ id = l.key /\ entries[id].state = "queued" =>
             entries'[id].state = Resolution[l.event]
  BY <1>1, <1>2, <1>3, ResolutionIs DEF QueueRow
<1>5. Grows
  <2>1. \A m \in Logs : Reflected(m) => Reflected(m)'
    BY <1>2, <1>4, ResolutionIs DEF Reflected, spendRows
  <2>2. \A m \in Logs, w \in {"payload", "activity"} : Done(w, m) => Done(w, m)'
    BY DEF Done, spendRows
  <2> QED
    BY <2>1, <2>2 DEF Grows
<1>6. RowsFrom(Final)
  BY DEF RowsInv
<1>7. RowsFrom(Final)'
  <2>1. \A id \in DOMAIN entries' :
          /\ \E q \in Final : /\ q.event = "ShieldQueued"
                              /\ q.key = id /\ q.tx = entries'[id].queuedTx
          /\ entries'[id].state # "queued" =>
               \E q \in Final : /\ q.event \in DOMAIN Resolution
                                /\ q.key = id /\ Resolution[q.event] = entries'[id].state
    BY <1>2, <1>4, <1>6 DEF RowsFrom
  <2> QED
    BY <1>6, <2>1 DEF RowsFrom, spendRows
<1>8. RowsInv'
  BY <1>2, <1>3, <1>4, <1>7 DEF RowsInv, spendRows
<1>9. ASSUME l.key \in DOMAIN entries PROVE entries'[l.key].state = Resolution[l.event]
  <2>1. CASE entries[l.key].state = "queued"
    BY <1>4, <1>9, <2>1
  <2>2. CASE entries[l.key].state # "queued"
    <3>1. PICK m \in Final : /\ m.event \in DOMAIN Resolution /\ m.key = l.key
                             /\ Resolution[m.event] = entries[l.key].state
      BY <1>6, <1>9, <2>2 DEF RowsFrom
    <3>2. m \in Logs
      BY DEF Final
    <3>3. m = l
      BY <1>1, <3>1, <3>2, OneResolution
    <3> QED
      BY <1>4, <1>9, <2>2, <3>1, <3>3
  <2> QED
    BY <2>1, <2>2
<1>10. Done("resolve", l)'
  BY <1>2, <1>9 DEF Done
<1> QED
  BY <1>2, <1>5, <1>8, <1>10

LEMMA KeyWrite ==
  ASSUME ChainInv, RowsInv, cursor \in Nat, OnlyRows, NEW l \in Final,
         UNCHANGED <<queueRows, activity, assets>>,
         \/ /\ l.event = "LeafInserted" /\ leafRows' = leafRows \cup {l.key}
            /\ UNCHANGED <<payloadRows, nullifierRows>>
         \/ /\ l.event = "NotePayload" /\ payloadRows' = payloadRows \cup {l.key}
            /\ UNCHANGED <<leafRows, nullifierRows>>
         \/ /\ l.event = "NullifierUsed" /\ nullifierRows' = nullifierRows \cup {l.key}
            /\ UNCHANGED <<leafRows, payloadRows>>
  PROVE  Grows /\ RowsInv'
<1> USE OnlyRowsIs
<1>1. l \in Logs /\ (l.event \notin AssetEvents => l.key \in Nat)
      /\ (l.event \in SpendEvents => l.key = l.tx)
  BY LogsAre DEF Final
<1>2. leafRows \subseteq leafRows' /\ payloadRows \subseteq payloadRows'
      /\ nullifierRows \subseteq nullifierRows'
  OBVIOUS
<1>3. Grows
  <2>1. \A m \in Logs : Reflected(m) => Reflected(m)'
    BY <1>2 DEF Reflected, queueRows
  <2>2. \A m \in Logs, w \in {"payload", "activity"} : Done(w, m) => Done(w, m)'
    BY <1>2 DEF Done, queueRows
  <2> QED
    BY <2>1, <2>2 DEF Grows
<1>4. RowsFrom(Final)
  BY DEF RowsInv
<1>5. RowsFrom(Final)'
  <2>1. \A k \in leafRows' : \E q \in Final : q.event = "LeafInserted" /\ q.key = k
    BY <1>4 DEF RowsFrom
  <2>2. \A k \in payloadRows' : \E q \in Final : q.event = "NotePayload" /\ q.key = k
    BY <1>4 DEF RowsFrom
  <2>3. \A k \in nullifierRows' \cup DOMAIN activity' :
          \E q \in Final : q.event = "NullifierUsed" /\ q.tx = k
    BY <1>1, <1>4 DEF RowsFrom, SpendEvents
  <2> QED
    BY <1>4, <2>1, <2>2, <2>3 DEF RowsFrom, queueRows
<1>6. (leafRows \cup payloadRows \cup nullifierRows \cup DOMAIN activity)' \subseteq Nat
  BY <1>1 DEF RowsInv, AssetEvents
<1>7. RowsInv'
  BY <1>5, <1>6 DEF RowsInv, queueRows
<1> QED
  BY <1>3, <1>7

LEMMA ActivityWrite ==
  ASSUME ChainInv, RowsInv, cursor \in Nat, OnlyRows, NEW l \in Final,
         l.event \in SpendEvents, UpsertActivity(l),
         UNCHANGED <<queueRows, leafRows, payloadRows, nullifierRows, assets>>
  PROVE  Grows /\ RowsInv' /\ Done("activity", l)'
<1> USE OnlyRowsIs
<1>1. l \in Logs /\ l.tx \in Nat
  BY LogsAre DEF Final
<1> DEFINE had == l.tx \in DOMAIN activity /\ activity[l.tx]
           v == had \/ l.event = "NotePayload"
<1>2. /\ \A m : m \in DOMAIN activity' <=> m \in DOMAIN activity \/ m = l.tx
      /\ activity'[l.tx] = v
      /\ \A m \in DOMAIN activity : m # l.tx => activity'[m] = activity[m]
  BY PutIs DEF UpsertActivity
<1>3. v \in BOOLEAN
  OBVIOUS
<1>4. \A m \in DOMAIN activity : m \in DOMAIN activity' /\ (activity[m] => activity'[m])
  BY <1>2
<1>5. Grows
  <2>1. \A m \in Logs : Reflected(m) => Reflected(m)'
    BY <1>4 DEF Reflected, queueRows, InFeed
  <2>2. \A m \in Logs, w \in {"payload", "activity"} : Done(w, m) => Done(w, m)'
    BY <1>4 DEF Done, queueRows
  <2> QED
    BY <2>1, <2>2 DEF Grows
<1>6. RowsFrom(Final)
  BY DEF RowsInv
<1>7. \E q \in Final : q.event = "NullifierUsed" /\ q.tx = l.tx
  <2>1. CASE l.event = "NullifierUsed"
    BY <2>1
  <2>2. CASE l.event = "NotePayload"
    <3>1. PICK i \in DOMAIN logs : l = logs[i]
      BY <1>1 DEF Logs
    <3>2. i \in PositionsOf("NotePayload")
      BY <2>2, <3>1 DEF PositionsOf
    <3>3. PICK j \in PositionsOf("NullifierUsed") :
            logs[j].tx = logs[i].tx /\ logs[j].block = logs[i].block
      BY <3>2 DEF ChainInv, PayloadsPaid
    <3>4. j \in DOMAIN logs /\ logs[j].event = "NullifierUsed"
      BY DEF PositionsOf
    <3>5. logs[j] \in Final
      BY <3>1, <3>3, <3>4 DEF Final, Logs
    <3> QED
      BY <3>1, <3>3, <3>4, <3>5
  <2> QED
    BY <2>1, <2>2 DEF SpendEvents
<1>8. RowsFrom(Final)'
  <2>1. \A k \in nullifierRows' \cup DOMAIN activity' :
          \E q \in Final : q.event = "NullifierUsed" /\ q.tx = k
    BY <1>2, <1>6, <1>7 DEF RowsFrom
  <2> QED
    BY <1>6, <2>1 DEF RowsFrom, queueRows
<1>9. /\ (leafRows \cup payloadRows \cup nullifierRows \cup DOMAIN activity)' \subseteq Nat
      /\ \A tx \in DOMAIN activity' : activity'[tx] \in BOOLEAN
  BY <1>1, <1>2, <1>3 DEF RowsInv
<1>10. RowsInv'
  BY <1>8, <1>9 DEF RowsInv, queueRows
<1>11. Done("activity", l)'
  BY <1>2 DEF Done
<1> QED
  BY <1>5, <1>10, <1>11

LEMMA AssetWrite ==
  ASSUME ChainInv, RowsInv, cursor \in Nat, OnlyRows, NEW l \in Final,
         l.event \in AssetEvents, UpsertAsset(l), UNCHANGED <<queueRows, spendRows>>
  PROVE  Grows /\ RowsInv' /\ Done("asset", l)'
<1> USE OnlyRowsIs
<1>1. l \in Logs /\ l.key \in Assets
  BY LogsAre DEF Final
<1>2. /\ \A m : m \in DOMAIN assets' <=> m \in DOMAIN assets \/ m = l.key
      /\ assets'[l.key] = (l.event = "AssetSupported")
      /\ \A m \in DOMAIN assets : m # l.key => assets'[m] = assets[m]
  BY PutIs DEF UpsertAsset
<1>3. Grows
  <2>1. \A m \in Logs : Reflected(m) => Reflected(m)'
    BY <1>2 DEF Reflected, queueRows, spendRows
  <2>2. \A m \in Logs, w \in {"payload", "activity"} : Done(w, m) => Done(w, m)'
    BY DEF Done, queueRows, spendRows
  <2> QED
    BY <2>1, <2>2 DEF Grows
<1>4. RowsFrom(Final)'
  BY DEF RowsInv, RowsFrom, queueRows, spendRows
<1>5. DOMAIN assets' \subseteq Assets /\ \A a \in DOMAIN assets' : assets'[a] \in BOOLEAN
  BY <1>1, <1>2 DEF RowsInv
<1>6. RowsInv'
  BY <1>4, <1>5 DEF RowsInv, queueRows, spendRows
<1> QED
  BY <1>2, <1>3, <1>6 DEF Done

LEMMA PerformIs ==
  ASSUME ChainInv, RowsInv, cursor \in Nat, OnlyRows, NEW l \in Final,
         NEW k \in 1 .. Len(Writes(l)), Perform(Writes(l)[k], l)
  PROVE  Grows /\ RowsInv' /\ Done(Writes(l)[k], l)'
<1>1. PICK w : w = Writes(l)[k]
  OBVIOUS
<1>2. /\ w \in {"queue", "resolve", "leaf", "payload", "nullifier", "activity", "asset"}
      /\ w = "queue" => l.event = "ShieldQueued"
      /\ w = "resolve" => l.event \in DOMAIN Resolution
      /\ w = "leaf" => l.event = "LeafInserted"
      /\ w = "payload" => l.event = "NotePayload"
      /\ w = "nullifier" => l.event = "NullifierUsed"
      /\ w = "activity" => l.event \in SpendEvents
      /\ w = "asset" => l.event \in AssetEvents
  BY <1>1, WritesAre DEF Final
<1>3. Perform(w, l)
  BY <1>1
<1>4. CASE w = "queue"
  BY <1>1, <1>2, <1>3, <1>4, QueueWrite DEF Perform
<1>5. CASE w = "resolve"
  BY <1>1, <1>2, <1>3, <1>5, ResolveWrite DEF Perform
<1>6. CASE w \in {"leaf", "payload", "nullifier"}
  <2>1. Grows /\ RowsInv'
    BY <1>2, <1>3, <1>6, KeyWrite DEF Perform
  <2>2. Done(w, l)'
    BY <1>3, <1>6 DEF Perform, Done
  <2> QED
    BY <1>1, <2>1, <2>2
<1>7. CASE w = "activity"
  BY <1>1, <1>2, <1>3, <1>7, ActivityWrite DEF Perform
<1>8. CASE w = "asset"
  BY <1>1, <1>2, <1>3, <1>8, AssetWrite DEF Perform
<1> QED
  BY <1>2, <1>4, <1>5, <1>6, <1>7, <1>8

-----------------------------------------------------------------------------
(* The steps of a pass *)

\* A step that only writes rows, moves the cursor on or counts, and gives one
\* pass its next state.
LEMMA PassStep ==
  ASSUME IndexInv, Grows, RowsInv', NEW p \in Passes, NEW r, Goto(p, r), PassOK(r)',
         cursor' > 0 => Confirmed(cursor'),
         \A l \in Logs : l.block > cursor /\ l.block <= cursor' => Settled(l)
  PROVE  IndexInv'
<1>1. ChainInv /\ UNCHANGED chain /\ cursor' \in Nat /\ cursor \in Nat
  BY DEF IndexInv, Grows
<1>2. ChainInv' /\ Logs' = Logs /\ \A b : Confirmed(b)' <=> Confirmed(b)
  BY <1>1, ChainUnmoved
<1>3. \A l \in Logs : l.block <= cursor' => Settled(l)
  <2> SUFFICES ASSUME NEW l \in Logs, l.block <= cursor' PROVE Settled(l)
    OBVIOUS
  <2>1. l.block \in Nat
    BY <1>1, LogsAre
  <2>2. CASE l.block <= cursor
    BY <2>2 DEF IndexInv, LossIsContained
  <2> QED
    BY <1>1, <2>1, <2>2
<1>4. LossIsContained'
  <2>1. \A l \in Logs : l.block <= cursor' => Settled(l)'
    BY <1>1, <1>3, SettledGrows
  <2> QED
    BY <1>2, <2>1 DEF LossIsContained
<1>5. pass' = [pass EXCEPT ![p] = r] /\ DOMAIN pass = Passes
  BY DEF Goto, IndexInv
<1>6. ASSUME NEW q \in Passes PROVE PassOK(pass[q])'
  <2>1. CASE q = p
    <3>1. pass'[q] = r
      BY <1>5, <2>1
    <3> QED
      BY <3>1
  <2>2. CASE q # p
    <3>1. PICK s : s = pass[q]
      OBVIOUS
    <3>2. PassOK(s)
      BY <3>1 DEF IndexInv
    <3>3. PassOK(s)'
      BY <1>1, <3>2, PassGrows
    <3>4. pass'[q] = s
      BY <1>5, <2>2, <3>1
    <3> QED
      BY <3>3, <3>4
  <2> QED
    BY <2>1, <2>2
<1>7. DOMAIN pass' = Passes
  BY <1>5
<1>8. cursor' > 0 => Confirmed(cursor)'
  BY <1>1, <1>2 DEF Confirmed, chain
<1> QED
  BY <1>1, <1>2, <1>4, <1>6, <1>7, <1>8 DEF IndexInv

LEMMA PassStepStill ==
  ASSUME IndexInv, Grows, RowsInv', NEW p \in Passes, NEW r, Goto(p, r), PassOK(r)',
         cursor' = cursor
  PROVE  IndexInv'
<1>1. cursor' > 0 => Confirmed(cursor')
  BY DEF IndexInv
<1>2. \A l \in Logs : l.block > cursor /\ l.block <= cursor' => Settled(l)
  <2> SUFFICES ASSUME NEW l \in Logs, l.block > cursor, l.block <= cursor PROVE FALSE
    OBVIOUS
  <2>1. l.block \in Nat /\ cursor \in Nat
    BY LogsAre DEF IndexInv
  <2> QED
    BY <2>1
<1> QED
  BY <1>1, <1>2, PassStep

\* A step that writes no row.
LEMMA NoWrite ==
  ASSUME IndexInv, UNCHANGED <<chain, rows>>, cursor' \in Nat, cursor <= cursor',
         failed' \subseteq LogType, failed \subseteq failed',
         floor' \in Nat, floor <= floor', mishaps' \in Nat
  PROVE  Grows /\ RowsInv'
<1>1. ChainInv /\ RowsInv /\ cursor \in Nat /\ floor \in Nat
  BY DEF IndexInv, RowsInv
<1>2. Final' = Final
  BY <1>1, ChainUnmoved
<1>3. RowsFrom(Final)'
  BY <1>1, <1>2 DEF RowsInv, RowsFrom, rows, queueRows, spendRows
<1>4. RowsInv'
  BY <1>1, <1>3 DEF RowsInv, rows, queueRows, spendRows
<1>5. Grows
  BY <1>1 DEF Grows, Reflected, Done, rows, queueRows, spendRows
<1> QED
  BY <1>4, <1>5

LEMMA IndexTypes ==
  ASSUME IndexInv
  PROVE  /\ ChainInv /\ RowsInv /\ cursor \in Nat /\ floor \in Nat /\ mishaps \in Nat
         /\ failed \subseteq LogType /\ (cursor > 0 => Confirmed(cursor))
         /\ \A p \in Passes : PassOK(pass[p])
BY DEF IndexInv, RowsInv

\* What a pass is in, by where it is.
LEMMA PassIs ==
  ASSUME NEW r, PassOK(r)
  PROVE  /\ r.pc = "idle" => r = Idle
         /\ r.pc = "begun" => r \in [pc : {"begun"}, from : Nat] /\ r.from <= cursor
         /\ r.pc = "walking" => WalkingOK(r)
         /\ r.pc = "handling" => HandlingOK(r)
<1>1. r = Idle => r.pc = "idle"
  BY DEF Idle
<1>2. WalkingOK(r) => r.pc = "walking"
  BY DEF WalkingOK
<1>3. HandlingOK(r) => r.pc = "handling"
  BY DEF HandlingOK
<1>4. r \in [pc : {"begun"}, from : Nat] => r.pc = "begun"
  OBVIOUS
<1> QED
  BY <1>1, <1>2, <1>3, <1>4 DEF PassOK

LEMMA BeginKeeps ==
  ASSUME IndexInv, NEW p \in Passes, Begin(p)
  PROVE  IndexInv'
<1>1. cursor' = cursor /\ UNCHANGED <<chain, rows, mishaps, failed, floor>>
  BY DEF Begin, history
<1>2. Grows /\ RowsInv'
  BY <1>1, IndexTypes, NoWrite
<1>3. PICK r : r = [pc |-> "begun", from |-> cursor]
  OBVIOUS
<1>4. Goto(p, r)
  BY <1>3 DEF Begin
<1>5. PassOK(r)'
  <2>1. r \in [pc : {"begun"}, from : Nat] /\ r.from <= cursor'
    BY <1>1, <1>3, IndexTypes
  <2> QED
    BY <2>1 DEF PassOK
<1> QED
  BY <1>1, <1>2, <1>4, <1>5, IndexTypes, PassStepStill

LEMMA AbortKeeps ==
  ASSUME IndexInv, NEW p \in Passes, Abort(p)
  PROVE  IndexInv'
<1>1. cursor' = cursor /\ UNCHANGED <<chain, rows, failed, floor>> /\ mishaps' = mishaps + 1
  BY DEF Abort, Mishap
<1>2. Grows /\ RowsInv'
  BY <1>1, IndexTypes, NoWrite
<1>3. Goto(p, Idle) /\ PassOK(Idle)'
  BY DEF Abort, PassOK
<1> QED
  BY <1>1, <1>2, <1>3, IndexTypes, PassStepStill

LEMMA ReadHeadKeeps ==
  ASSUME IndexInv, IndexerAssumption, NEW p \in Passes, ReadHead(p)
  PROVE  IndexInv'
<1> DEFINE top == TrailingHead(head)
           from == FirstBlock(pass[p].from, top)
<1>1. PICK r : r = pass[p]
  OBVIOUS
<1>2. r \in [pc : {"begun"}, from : Nat] /\ r.from <= cursor /\ r.from \in Nat
  <2>1. PassOK(r) /\ r.pc = "begun"
    BY <1>1, IndexTypes DEF ReadHead, At
  <2> QED
    BY <2>1, PassIs
<1>3. /\ ConfirmationDepth \in Nat /\ ColdStartTrail \in Nat
      /\ head \in Nat /\ peak \in Nat /\ head <= peak
  BY IndexTypes DEF IndexerAssumption, ChainInv
<1>4. top \in Nat /\ (top > 0 => top + ConfirmationDepth = head)
  BY <1>3 DEF TrailingHead
<1>5. PICK t : t = top
  OBVIOUS
<1>6. PICK f : f = from
  OBVIOUS
<1>7. f = IF r.from = 0 /\ t > ColdStartTrail THEN t - ColdStartTrail ELSE r.from + 1
  BY <1>1, <1>5, <1>6 DEF FirstBlock
<1>8. t \in Nat /\ f \in Nat /\ f > 0 /\ f - 1 \in Nat /\ (t > 0 => t + ConfirmationDepth <= peak)
  BY <1>2, <1>3, <1>4, <1>5, <1>7
<1>9. /\ Goto(p, IF f > t THEN Idle ELSE [pc |-> "walking", from |-> f, top |-> t])
      /\ floor' = IF r.from = 0 THEN Max({floor, f - 1}) ELSE floor
      /\ UNCHANGED <<chain, cursor, rows, mishaps, failed>>
  BY <1>1, <1>5, <1>6 DEF ReadHead
<1> HIDE DEF top, from
<1>10. floor' \in Nat /\ floor <= floor' /\ (r.from = 0 => f - 1 <= floor')
  BY <1>8, <1>9, IndexTypes, MaxOfTwo
<1>11. Grows /\ RowsInv'
  BY <1>9, <1>10, IndexTypes, NoWrite
<1>12. PICK s : s = IF f > t THEN Idle ELSE [pc |-> "walking", from |-> f, top |-> t]
  OBVIOUS
<1>13. PassOK(s)'
  <2>1. CASE f > t
    BY <1>12, <2>1 DEF PassOK
  <2>2. CASE ~(f > t)
    <3>1. /\ s \in [pc : {"walking"}, from : Nat, top : Nat]
          /\ s.from = f /\ s.top = t /\ s.from <= s.top
      BY <1>8, <1>12, <2>2
    <3>2. Confirmed(s.top)
      BY <1>8, <2>2, <3>1 DEF Confirmed
    <3>3. ASSUME NEW l \in Logs, l.block < f PROVE Settled(l)'
      <4>1. l.block \in Nat
        BY IndexTypes, LogsAre
      <4>2. CASE r.from = 0 /\ t > ColdStartTrail
        <5>1. l.block <= floor'
          BY <1>8, <1>10, <3>3, <4>1, <4>2
        <5> QED
          BY <5>1 DEF Settled
      <4>3. CASE ~(r.from = 0 /\ t > ColdStartTrail)
        <5>1. l.block <= cursor
          BY <1>2, <1>7, <3>3, <4>1, <4>3, IndexTypes
        <5>2. Settled(l)
          BY <5>1 DEF IndexInv, LossIsContained
        <5> QED
          BY <1>11, <5>2, IndexTypes, SettledGrows
      <4> QED
        BY <4>2, <4>3
    <3>4. Logs' = Logs /\ (Confirmed(s.top)' <=> Confirmed(s.top))
      BY <1>9, IndexTypes, ChainUnmoved
    <3>5. WalkingOK(s)'
      BY <3>1, <3>2, <3>3, <3>4 DEF WalkingOK
    <3> QED
      BY <3>5 DEF PassOK
  <2> QED
    BY <2>1, <2>2
<1>14. Goto(p, s) /\ cursor' = cursor
  BY <1>9, <1>12
<1> QED
  BY <1>11, <1>13, <1>14, IndexTypes, PassStepStill

LEMMA LastBlockIs ==
  ASSUME IndexerAssumption, NEW f \in Nat, NEW t \in Nat, f <= t
  PROVE  LastBlock(f, t) \in Nat /\ f <= LastBlock(f, t) /\ LastBlock(f, t) <= t
<1>1. MaxBlocksPerCall \in Nat \ {0}
  BY DEF IndexerAssumption
<1>2. f + MaxBlocksPerCall - 1 \in Nat /\ f <= f + MaxBlocksPerCall - 1
  BY <1>1
<1>3. PICK n \in Nat : n = f + MaxBlocksPerCall - 1
  BY <1>2
<1>4. Min({t, n}) \in {t, n} /\ Min({t, n}) <= t
  BY MinOfTwo
<1> QED
  BY <1>2, <1>3, <1>4 DEF LastBlock

LEMMA GetLogsKeeps ==
  ASSUME IndexInv, IndexerAssumption, NEW p \in Passes, GetLogs(p)
  PROVE  IndexInv'
<1>1. PICK r : r = pass[p]
  OBVIOUS
<1>2. /\ r \in [pc : {"walking"}, from : Nat, top : Nat]
      /\ r.from <= r.top /\ Confirmed(r.top)
      /\ \A l \in Logs : l.block < r.from => Settled(l)
  <2>1. PassOK(r) /\ r.pc = "walking"
    BY <1>1, IndexTypes DEF GetLogs, At
  <2>2. WalkingOK(r)
    BY <2>1, PassIs
  <2> QED
    BY <2>2 DEF WalkingOK
<1>3. PICK to : to = LastBlock(r.from, r.top)
  OBVIOUS
<1>4. PICK found : found = {i \in DOMAIN logs : logs[i].block \in r.from .. to}
  OBVIOUS
<1>5. PICK todo : todo = [i \in found |-> logs[i]]
  OBVIOUS
<1>6. PICK s : s = [pc |-> "handling", to |-> to, top |-> r.top, todo |-> todo, written |-> 0]
  OBVIOUS
<1>7. Goto(p, s) /\ cursor' = cursor /\ UNCHANGED <<chain, rows, mishaps, failed, floor>>
  BY <1>1, <1>3, <1>4, <1>5, <1>6 DEF GetLogs, history
<1>8. Grows /\ RowsInv'
  BY <1>7, IndexTypes, NoWrite
<1>9. to \in Nat /\ to <= r.top /\ r.from \in Nat /\ r.top \in Nat
  BY <1>2, <1>3, LastBlockIs
<1>10. /\ s \in [pc : {"handling"}, to : Nat, top : Nat, todo : {s.todo}, written : 0 .. 1]
       /\ s.to = to /\ s.top = r.top /\ s.todo = todo /\ s.written = 0
  BY <1>6, <1>9
<1>11. \A i \in DOMAIN todo : i \in DOMAIN logs /\ todo[i] = logs[i] /\ logs[i].block <= to
  <2>1. \A i \in DOMAIN logs : logs[i].block \in Nat
    BY IndexTypes, LogsAreSequence DEF LogOK
  <2> QED
    BY <1>4, <1>5, <1>9, <2>1
<1>12. \A i \in DOMAIN logs : logs[i].block <= to => i \in DOMAIN todo \/ Settled(logs[i])
  <2> SUFFICES ASSUME NEW i \in DOMAIN logs, logs[i].block <= to, i \notin DOMAIN todo
               PROVE  Settled(logs[i])
    OBVIOUS
  <2>1. logs[i] \in Logs /\ logs[i].block \in Nat
    BY IndexTypes, LogsAre DEF Logs
  <2>2. i \notin found
    BY <1>5
  <2>3. logs[i].block < r.from
    BY <1>4, <1>9, <2>1, <2>2
  <2> QED
    BY <1>2, <2>1, <2>3
<1>13. HandlingOK(s)
  BY <1>2, <1>9, <1>10, <1>11, <1>12 DEF HandlingOK
<1>14. PassOK(s)'
  BY <1>8, <1>13, IndexTypes, PassGrows DEF PassOK
<1> QED
  BY <1>7, <1>8, <1>14, IndexTypes, PassStepStill

\* The log at hand is the first of those that are left.
LEMMA NextLogIs ==
  ASSUME ChainInv, NEW r, HandlingOK(r), DOMAIN r.todo # {}
  PROVE  /\ Min(DOMAIN r.todo) \in DOMAIN r.todo
         /\ \A j \in DOMAIN r.todo : Min(DOMAIN r.todo) <= j
         /\ DOMAIN r.todo \subseteq Nat
         /\ r.todo[Min(DOMAIN r.todo)] \in Final
<1>1. DOMAIN logs = 1 .. Len(logs) /\ Len(logs) \in Nat
  BY LogsAreSequence
<1>2. DOMAIN r.todo \subseteq DOMAIN logs
  BY DEF HandlingOK
<1>3. IsFiniteSet(DOMAIN r.todo) /\ DOMAIN r.todo \in SUBSET Nat
  <2>1. IsFiniteSet(1 .. Len(logs))
    BY <1>1, FS_Interval
  <2>2. IsFiniteSet(DOMAIN r.todo)
    BY <1>1, <1>2, <2>1, FS_Subset
  <2> QED
    BY <1>1, <1>2, <2>2
<1>4. PICK i : i = Min(DOMAIN r.todo)
  OBVIOUS
<1>5. i \in DOMAIN r.todo /\ \A j \in DOMAIN r.todo : i <= j
  BY <1>3, <1>4, MinOfFinite
<1>6. r.todo[i] = logs[i] /\ logs[i].block <= r.to /\ i \in DOMAIN logs /\ logs[i] \in Logs
  BY <1>2, <1>5 DEF HandlingOK, Logs
<1>7. Confirmed(logs[i].block)
  <2>1. r.to \in Nat /\ r.top \in Nat /\ r.to <= r.top /\ Confirmed(r.top)
    BY DEF HandlingOK
  <2>2. logs[i].block \in Nat
    BY <1>6, LogsAre
  <2>3. peak \in Nat /\ ConfirmationDepth \in Nat
    BY IndexerAssumption DEF ChainInv, IndexerAssumption
  <2> QED
    BY <1>6, <2>1, <2>2, <2>3 DEF Confirmed
<1> QED
  BY <1>3, <1>4, <1>5, <1>6, <1>7 DEF Final

\* A pass that is done with the log at hand.
LEMMA LogIsDone ==
  ASSUME ChainInv, Grows, NEW r, HandlingOK(r), DOMAIN r.todo # {},
         Settled(r.todo[Min(DOMAIN r.todo)])',
         NEW s, s = [r EXCEPT !.written = 0, !.todo = Without(@, Min(DOMAIN r.todo))]
  PROVE  PassOK(s)'
<1>1. PICK i : i = Min(DOMAIN r.todo)
  OBVIOUS
<1>2. PICK todo : todo = Without(r.todo, i)
  OBVIOUS
<1>3. /\ r \in [pc : {"handling"}, to : Nat, top : Nat, todo : {r.todo}, written : 0 .. 1]
      /\ r.to <= r.top /\ Confirmed(r.top)
      /\ DOMAIN r.todo \subseteq DOMAIN logs
      /\ \A j \in DOMAIN r.todo : r.todo[j] = logs[j] /\ logs[j].block <= r.to
      /\ \A j \in DOMAIN logs : logs[j].block <= r.to => j \in DOMAIN r.todo \/ Settled(logs[j])
  BY DEF HandlingOK
<1>4. /\ s \in [pc : {"handling"}, to : Nat, top : Nat, todo : {s.todo}, written : 0 .. 1]
      /\ s.to = r.to /\ s.top = r.top /\ s.todo = todo /\ s.written = 0
  <2>1. /\ DOMAIN r = {"pc", "to", "top", "todo", "written"}
        /\ r.pc = "handling" /\ r.to \in Nat /\ r.top \in Nat
    BY <1>3
  <2>2. s = [r EXCEPT !.written = 0, !.todo = todo]
    BY <1>1, <1>2
  <2>3. /\ s.pc = "handling" /\ s.to = r.to /\ s.top = r.top /\ s.todo = todo /\ s.written = 0
        /\ DOMAIN s = {"pc", "to", "top", "todo", "written"}
    BY <2>1, <2>2
  <2>4. s = [pc |-> "handling", to |-> r.to, top |-> r.top, todo |-> todo, written |-> 0]
    BY <2>1, <2>2, <1>3
  <2> QED
    BY <2>1, <2>3, <2>4
<1>5. /\ \A j : j \in DOMAIN todo <=> j \in DOMAIN r.todo /\ j # i
      /\ \A j \in DOMAIN todo : todo[j] = r.todo[j]
  BY <1>2 DEF Without, Restrict
<1>6. i \in DOMAIN r.todo
  BY <1>1, NextLogIs
<1>7. Logs' = Logs /\ logs' = logs /\ \A b : Confirmed(b)' <=> Confirmed(b)
  BY ChainUnmoved DEF Grows, chain
<1>8. \A j \in DOMAIN logs : logs[j].block <= s.to => j \in DOMAIN todo \/ Settled(logs[j])'
  <2> SUFFICES ASSUME NEW j \in DOMAIN logs, logs[j].block <= s.to, j \notin DOMAIN todo
               PROVE  Settled(logs[j])'
    OBVIOUS
  <2>1. CASE j = i
    <3>1. PICK l : l = r.todo[i]
      OBVIOUS
    <3>2. l = logs[j] /\ Settled(l)'
      BY <1>1, <1>3, <1>6, <2>1, <3>1
    <3> QED
      BY <1>7, <3>2 DEF Settled, Reflected, Orphaned
  <2>2. CASE j # i
    <3>1. Settled(logs[j])
      BY <1>3, <1>4, <1>5, <2>2
    <3>2. PICK l \in Logs : l = logs[j]
      BY DEF Logs
    <3>3. Settled(l)'
      BY <3>1, <3>2, SettledGrows
    <3> QED
      BY <1>7, <3>2, <3>3 DEF Settled, Reflected, Orphaned
  <2> QED
    BY <2>1, <2>2
<1>9. HandlingOK(s)'
  BY <1>3, <1>4, <1>5, <1>7, <1>8 DEF HandlingOK
<1> QED
  BY <1>9 DEF PassOK

LEMMA FailLogKeeps ==
  ASSUME IndexInv, NEW p \in Passes, FailLog(p)
  PROVE  IndexInv'
<1>1. PICK r : r = pass[p]
  OBVIOUS
<1>2. HandlingOK(r) /\ DOMAIN r.todo # {}
  BY <1>1, IndexTypes, PassIs DEF FailLog, At
<1>3. PICK log : log = r.todo[Min(DOMAIN r.todo)]
  OBVIOUS
<1>4. log \in Logs /\ log \in LogType
  BY <1>2, <1>3, IndexTypes, NextLogIs, LogsAre DEF Final
<1>5. /\ cursor' = cursor /\ UNCHANGED <<chain, rows, floor>> /\ mishaps' = mishaps + 1
      /\ failed' = failed \cup {log}
  BY <1>1, <1>3 DEF FailLog, Mishap, NextLog
<1>6. Grows /\ RowsInv'
  BY <1>4, <1>5, IndexTypes, NoWrite
<1>7. Settled(log)'
  BY <1>5 DEF Settled
<1>8. PICK s : s = [r EXCEPT !.written = 0, !.todo = Without(@, Min(DOMAIN r.todo))]
  OBVIOUS
<1>9. PassOK(s)'
  BY <1>2, <1>3, <1>6, <1>7, <1>8, IndexTypes, LogIsDone
<1>10. Goto(p, s)
  BY <1>1, <1>8 DEF FailLog, NextLog
<1> QED
  BY <1>5, <1>6, <1>9, <1>10, IndexTypes, PassStepStill

\* Between the two writes of a log the first one stands.
LEMMA WrittenIs ==
  ASSUME ChainInv, NEW r, HandlingOK(r), DOMAIN r.todo # {},
         NEW l, l = r.todo[Min(DOMAIN r.todo)]
  PROVE  /\ r.written \in {0, 1} /\ Len(Writes(l)) \in {1, 2}
         /\ r.written = 1 => Len(Writes(l)) = 2 /\ Done(Writes(l)[1], l)
         /\ r.written + 1 \in 1 .. Len(Writes(l))
<1>1. PICK i : i = Min(DOMAIN r.todo)
  OBVIOUS
<1>2. /\ i \in DOMAIN r.todo /\ \A j \in DOMAIN r.todo : i <= j
      /\ DOMAIN r.todo \subseteq Nat /\ l \in Logs
  BY <1>1, NextLogIs DEF Final
<1>3. r.written \in {0, 1}
  BY DEF HandlingOK
<1>4. Len(Writes(l)) \in {1, 2}
  BY <1>2, WritesAre
<1>5. ASSUME r.written = 1
      PROVE  Len(Writes(l)) = 2 /\ Done(Writes(l)[1], l)
  <2>1. PICK j \in DOMAIN r.todo :
          /\ \A k \in DOMAIN r.todo : j <= k
          /\ Len(Writes(r.todo[j])) = 2 /\ Done(Writes(r.todo[j])[1], r.todo[j])
    BY <1>5 DEF HandlingOK
  <2>2. j = i
    BY <1>2, <2>1
  <2> QED
    BY <1>1, <2>1, <2>2
<1>6. r.written + 1 \in 1 .. Len(Writes(l))
  <2>1. PICK n : n = Len(Writes(l))
    OBVIOUS
  <2>2. n \in {1, 2} /\ (r.written = 1 => n = 2)
    BY <1>4, <1>5, <2>1
  <2>3. r.written + 1 \in 1 .. n
    BY <1>3, <2>2
  <2> QED
    BY <2>1, <2>3
<1> QED
  BY <1>3, <1>4, <1>5, <1>6

\* The last write of a log settles it: its rows are there, or the row of its
\* shield was lost before.
LEMMA LastWriteSettles ==
  ASSUME ChainInv, Grows, NEW r, HandlingOK(r), DOMAIN r.todo # {},
         NEW l, l = r.todo[Min(DOMAIN r.todo)],
         ~(r.written + 1 < Len(Writes(l))), Done(Writes(l)[r.written + 1], l)',
         Writes(l)[r.written + 1] = "resolve" => DOMAIN entries' = DOMAIN entries
  PROVE  Settled(l)'
<1>1. PICK i : i = Min(DOMAIN r.todo)
  OBVIOUS
<1>2. /\ i \in DOMAIN r.todo /\ \A j \in DOMAIN r.todo : i <= j
      /\ DOMAIN r.todo \subseteq Nat /\ l \in Final /\ l \in Logs
      /\ l.event \in Events
  BY <1>1, NextLogIs, LogsAre DEF Final
<1>4. r.written \in {0, 1} /\ Len(Writes(l)) \in {1, 2}
  BY WrittenIs
<1>5. CASE Len(Writes(l)) = 2
  <2>1. r.written = 1
    BY <1>4, <1>5
  <2>4. Done(Writes(l)[1], l)
    BY <2>1, WrittenIs
  <2>5. Writes(l)[1] \in {"payload", "activity"}
    BY <1>5 DEF Writes
  <2>6. Done(Writes(l)[1], l)'
    BY <1>2, <2>4, <2>5 DEF Grows
  <2>7. Done(Writes(l)[2], l)'
    BY <2>1
  <2>8. Reflected(l)'
    BY <1>2, <1>5, <2>6, <2>7, WritesReflect
  <2> QED
    BY <2>8 DEF Settled
<1>6. CASE Len(Writes(l)) = 1 /\ l.event \notin DOMAIN Resolution
  <2>1. r.written = 0
    BY <1>4, <1>6, WrittenIs
  <2>2. Done(Writes(l)[1], l)'
    BY <2>1
  <2>3. Reflected(l)'
    BY <1>2, <1>6, <2>2, WritesReflect
  <2> QED
    BY <2>3 DEF Settled
<1>7. CASE Len(Writes(l)) = 1 /\ l.event \in DOMAIN Resolution
  <2>1. r.written = 0 /\ Writes(l)[1] = "resolve"
    <3>1. r.written = 0
      BY <1>4, <1>7, WrittenIs
    <3>2. Writes(l)[1] = "resolve"
      BY <1>7, ResolutionIs DEF Writes
    <3> QED
      BY <3>1, <3>2
  <2>2. Done("resolve", l)' /\ DOMAIN entries' = DOMAIN entries
    BY <2>1
  <2>3. CASE l.key \in DOMAIN entries
    <3>1. Reflected(l)'
      BY <1>7, <2>2, <2>3, ResolutionIs DEF Done, Reflected
    <3> QED
      BY <3>1 DEF Settled
  <2>4. CASE l.key \notin DOMAIN entries
    <3>1. i \in ResolutionPositions /\ logs[i] = l /\ logs[i].block <= r.to
      BY <1>1, <1>2, <1>7 DEF HandlingOK, ResolutionPositions
    <3>2. PICK j \in PositionsOf("ShieldQueued") : logs[j].key = l.key
      BY <3>1 DEF ChainInv, ResolvedOnce
    <3>3. j < i /\ logs[j].block <= logs[i].block /\ j \in DOMAIN logs
      BY <3>1, <3>2, QueuedBefore DEF PositionsOf
    <3>4. j \notin DOMAIN r.todo /\ logs[j].block <= r.to
      <4>1. logs[j].block \in Nat /\ logs[i].block \in Nat /\ i \in Nat /\ j \in Nat
        BY <1>2, <3>1, <3>3, LogsAreSequence DEF LogOK, ResolutionPositions
      <4>2. r.to \in Nat
        BY DEF HandlingOK
      <4> QED
        BY <1>2, <3>1, <3>3, <4>1, <4>2
    <3>5. Settled(logs[j])
      BY <3>3, <3>4 DEF HandlingOK
    <3>6. logs[j].event = "ShieldQueued" /\ logs[j] \in Of("ShieldQueued")
      BY <3>3 DEF PositionsOf, Of
    <3>7. ~Reflected(logs[j]) /\ ~Orphaned(logs[j])
      BY <2>4, <3>2, <3>6, ResolutionIs DEF Reflected, Orphaned
    <3>8. logs[j] \in failed \/ logs[j].block <= floor
      BY <3>5, <3>7 DEF Settled
    <3>9. Orphaned(l)
      BY <1>7, <3>2, <3>6, <3>8 DEF Orphaned
    <3>10. Settled(l)
      BY <3>9 DEF Settled
    <3> QED
      BY <1>2, <3>10, SettledGrows
  <2> QED
    BY <2>3, <2>4
<1> QED
  BY <1>4, <1>5, <1>6, <1>7

LEMMA IngestKeeps ==
  ASSUME IndexInv, NEW p \in Passes, Ingest(p)
  PROVE  IndexInv'
<1>1. PICK r : r = pass[p]
  OBVIOUS
<1>2. HandlingOK(r) /\ DOMAIN r.todo # {}
  BY <1>1, IndexTypes, PassIs DEF Ingest, At
<1>3. PICK i : i = Min(DOMAIN r.todo)
  OBVIOUS
<1>4. PICK l : l = r.todo[i]
  OBVIOUS
<1>5. PICK step : step = r.written + 1
  OBVIOUS
<1>6. /\ l \in Final /\ l \in Logs /\ i \in DOMAIN r.todo
      /\ \A j \in DOMAIN r.todo : i <= j
  BY <1>2, <1>3, <1>4, IndexTypes, NextLogIs DEF Final
<1>7. /\ Perform(Writes(l)[step], l)
      /\ Goto(p, IF step < Len(Writes(l)) THEN [r EXCEPT !.written = step]
                 ELSE [r EXCEPT !.written = 0, !.todo = Without(@, i)])
      /\ cursor' = cursor /\ OnlyRows
  BY <1>1, <1>3, <1>4, <1>5 DEF Ingest, NextLog, OnlyRows, history
<1>8. /\ r.written \in {0, 1} /\ Len(Writes(l)) \in {1, 2}
      /\ r.written + 1 \in 1 .. Len(Writes(l))
  BY <1>2, <1>3, <1>4, IndexTypes, WrittenIs
<1>9. step \in 1 .. Len(Writes(l))
  BY <1>5, <1>8
<1>10. Grows /\ RowsInv' /\ Done(Writes(l)[step], l)'
  BY <1>6, <1>7, <1>9, IndexTypes, PerformIs
<1>11. CASE step < Len(Writes(l))
  <2>1. PICK s : s = [r EXCEPT !.written = step]
    OBVIOUS
  <2>2. step = 1 /\ Len(Writes(l)) = 2
    <3>1. PICK n : n = Len(Writes(l))
      OBVIOUS
    <3>2. n \in {1, 2} /\ step < n
      BY <1>8, <1>11, <3>1
    <3>3. step = 1 /\ n = 2
      BY <1>5, <1>8, <3>2
    <3> QED
      BY <3>1, <3>3
  <2>4. HandlingOK(r)'
    BY <1>2, <1>10, IndexTypes, HandlingGrows
  <2>5. /\ r \in [pc : {"handling"}, to : Nat, top : Nat, todo : {r.todo}, written : 0 .. 1]
        /\ s.to = r.to /\ s.top = r.top /\ s.todo = r.todo /\ s.written = 1
    BY <1>2, <2>1, <2>2 DEF HandlingOK
  <2>6. s \in [pc : {"handling"}, to : Nat, top : Nat, todo : {s.todo}, written : 0 .. 1]
    <3>1. s = [pc |-> "handling", to |-> r.to, top |-> r.top, todo |-> r.todo, written |-> 1]
      BY <2>1, <2>2, <2>5
    <3> QED
      BY <2>5, <3>1
  <2>7. \E k \in DOMAIN s.todo :
          /\ \A j \in DOMAIN s.todo : k <= j
          /\ Len(Writes(s.todo[k])) = 2 /\ Done(Writes(s.todo[k])[1], s.todo[k])'
    BY <1>4, <1>6, <1>10, <2>2, <2>5
  <2>8. HandlingOK(s)'
    BY <2>4, <2>5, <2>6, <2>7 DEF HandlingOK
  <2>9. PassOK(s)' /\ Goto(p, s)
    BY <1>7, <1>11, <2>1, <2>8 DEF PassOK
  <2> QED
    BY <1>7, <1>10, <2>9, PassStepStill
<1>12. CASE ~(step < Len(Writes(l)))
  <2>1. PICK s : s = [r EXCEPT !.written = 0, !.todo = Without(@, i)]
    OBVIOUS
  <2>2. ASSUME Writes(l)[step] = "resolve" PROVE DOMAIN entries' = DOMAIN entries
    BY <1>7, <2>2 DEF Perform, ResolveShieldQueueEntry
  <2>3. Settled(l)'
    BY <1>2, <1>3, <1>4, <1>5, <1>10, <1>12, <2>2, IndexTypes, LastWriteSettles
  <2>4. PassOK(s)'
    BY <1>2, <1>3, <1>4, <1>10, <2>1, <2>3, IndexTypes, LogIsDone
  <2>5. Goto(p, s)
    BY <1>7, <1>12, <2>1
  <2> QED
    BY <1>7, <1>10, <2>4, <2>5, PassStepStill
<1> QED
  BY <1>11, <1>12

LEMMA AdvanceCursorKeeps ==
  ASSUME IndexInv, NEW p \in Passes, AdvanceCursor(p)
  PROVE  IndexInv'
<1>1. PICK r : r = pass[p]
  OBVIOUS
<1>2. HandlingOK(r) /\ DOMAIN r.todo = {}
  BY <1>1, IndexTypes, PassIs DEF AdvanceCursor, At
<1>3. /\ r.to \in Nat /\ r.top \in Nat /\ r.to <= r.top /\ Confirmed(r.top)
      /\ \A i \in DOMAIN logs : logs[i].block <= r.to => Settled(logs[i])
  BY <1>2 DEF HandlingOK
<1>4. \A l \in Logs : l.block <= r.to => Settled(l)
  BY <1>3 DEF Logs
<1>5. PICK s : s = IF r.to + 1 > r.top THEN Idle
                   ELSE [pc |-> "walking", from |-> r.to + 1, top |-> r.top]
  OBVIOUS
<1>6. /\ cursor' = Max({cursor, r.to}) /\ Goto(p, s)
      /\ UNCHANGED <<chain, rows, mishaps, floor, failed>>
  BY <1>1, <1>5 DEF AdvanceCursor, Covered, history
<1>7. cursor' \in Nat /\ cursor <= cursor' /\ (cursor' = cursor \/ cursor' = r.to)
  BY <1>3, <1>6, IndexTypes, MaxOfTwo
<1>8. Grows /\ RowsInv'
  BY <1>6, <1>7, IndexTypes, NoWrite
<1>9. Confirmed(r.to)
  <2>1. peak \in Nat /\ ConfirmationDepth \in Nat
    BY IndexTypes, IndexerAssumption DEF ChainInv, IndexerAssumption
  <2> QED
    BY <1>3, <2>1 DEF Confirmed
<1>10. cursor' > 0 => Confirmed(cursor')
  BY <1>7, <1>9, IndexTypes
<1>11. \A l \in Logs : l.block > cursor /\ l.block <= cursor' => Settled(l)
  <2> SUFFICES ASSUME NEW l \in Logs, l.block > cursor, l.block <= cursor' PROVE Settled(l)
    OBVIOUS
  <2>1. l.block \in Nat /\ cursor \in Nat
    BY LogsAre, IndexTypes
  <2> QED
    BY <1>4, <1>7, <2>1
<1>12. PassOK(s)'
  <2>1. CASE r.to + 1 > r.top
    BY <1>5, <2>1 DEF PassOK
  <2>2. CASE ~(r.to + 1 > r.top)
    <3>1. /\ s \in [pc : {"walking"}, from : Nat, top : Nat]
          /\ s.from = r.to + 1 /\ s.top = r.top /\ s.from <= s.top
      BY <1>3, <1>5, <2>2
    <3>2. \A l \in Logs : l.block < s.from => Settled(l)
      <4> SUFFICES ASSUME NEW l \in Logs, l.block < s.from PROVE Settled(l)
        OBVIOUS
      <4>1. l.block \in Nat
        BY LogsAre, IndexTypes
      <4> QED
        BY <1>3, <1>4, <3>1, <4>1
    <3>3. PassOK(s)
      BY <1>3, <3>1, <3>2 DEF PassOK, WalkingOK
    <3> QED
      BY <1>8, <3>3, IndexTypes, PassGrows
  <2> QED
    BY <2>1, <2>2
<1> QED
  BY <1>6, <1>8, <1>10, <1>11, <1>12, PassStep

-----------------------------------------------------------------------------
(* The invariant, and what it gives *)

LEMMA IndexInit ==
  ASSUME Init
  PROVE  IndexInv
<1>1. logs = << >> /\ DOMAIN logs = {} /\ Logs = {}
  BY DEF Init, Logs
<1>2. ChainInv
  BY <1>1, IndexerAssumption
     DEF Init, ChainInv, KeysCount, ResolvedOnce, PayloadsPaid, PositionsOf,
         ResolutionPositions, IndexerAssumption
<1>3. RowsInv
  <2>1. DOMAIN entries = {} /\ DOMAIN activity = {} /\ DOMAIN assets = {}
        /\ alerts = << >> /\ DOMAIN alerts = {}
    BY DEF Init
  <2> QED
    BY <2>1 DEF Init, RowsInv, RowsFrom, Range, IsInjective
<1>4. LossIsContained
  BY <1>1 DEF LossIsContained
<1> QED
  BY <1>2, <1>3, <1>4 DEF Init, IndexInv, PassOK

LEMMA IndexNext ==
  ASSUME IndexInv, [Next]_vars
  PROVE  IndexInv'
<1> USE IndexerAssumption
<1>1. CASE MineShield \/ MineResolution \/ MineSpend \/ MineAsset \/ Reorg
  BY <1>1, ChainStepsKeep
<1>2. ASSUME NEW p \in Passes, Begin(p) \/ Step(p) \/ FailLog(p) \/ Abort(p)
      PROVE  IndexInv'
  BY <1>2, BeginKeeps, ReadHeadKeeps, GetLogsKeeps, IngestKeeps, AdvanceCursorKeeps,
     FailLogKeeps, AbortKeeps DEF Step
<1>3. CASE UNCHANGED vars
  <2>1. UNCHANGED <<chain, rows, cursor, failed, floor, mishaps>> /\ pass' = pass
    BY <1>3 DEF vars, history
  <2>2. Grows /\ RowsInv'
    BY <2>1, IndexTypes, NoWrite
  <2>3. ChainInv' /\ Logs' = Logs /\ \A b : Confirmed(b)' <=> Confirmed(b)
    BY <2>1, ChainUnmoved, IndexTypes
  <2>4. LossIsContained'
    <3>1. \A l \in Logs : l.block <= cursor => Settled(l)'
      BY <2>2, IndexTypes, SettledGrows DEF IndexInv, LossIsContained
    <3> QED
      BY <2>1, <2>3, <3>1 DEF LossIsContained
  <2>5. ASSUME NEW p \in Passes PROVE PassOK(pass[p])'
    <3>1. PICK r : r = pass[p]
      OBVIOUS
    <3>2. PassOK(r)'
      BY <2>2, <3>1, IndexTypes, PassGrows
    <3> QED
      BY <2>1, <3>1, <3>2
  <2>6. /\ cursor' = cursor /\ cursor \in Nat /\ DOMAIN pass' = Passes
        /\ cursor > 0 => Confirmed(cursor)
    BY <2>1 DEF IndexInv
  <2>7. cursor > 0 => Confirmed(cursor)'
    BY <2>1, <2>6 DEF Confirmed, chain
  <2> QED
    BY <2>2, <2>3, <2>4, <2>5, <2>6, <2>7 DEF IndexInv
<1> QED
  BY <1>1, <1>2, <1>3 DEF Next

LEMMA IndexHolds == Spec => []IndexInv
<1>1. Init => IndexInv
  BY IndexInit
<1>2. IndexInv /\ [Next]_vars => IndexInv'
  BY IndexNext
<1> QED
  BY <1>1, <1>2, PTL DEF Spec

LEMMA IndexGivesTypes ==
  ASSUME IndexInv
  PROVE  TypeOK
<1> USE IndexTypes
<1>1. logs \in Seq(LogType) /\ {head, mined, peak, cursor, mishaps, floor} \subseteq Nat
  BY DEF ChainInv
<1>2. /\ Range(entries) \subseteq QueueRow /\ DOMAIN entries \subseteq Nat
      /\ alerts \in Seq(Nat)
      /\ leafRows \cup payloadRows \cup nullifierRows \cup DOMAIN activity \subseteq Nat
      /\ Range(activity) \subseteq BOOLEAN
      /\ DOMAIN assets \subseteq Assets /\ Range(assets) \subseteq BOOLEAN
      /\ failed \subseteq LogType
  BY DEF RowsInv, Range
<1>3. ASSUME NEW p \in Passes PROVE PassType(pass[p])
  <2>1. PICK r : r = pass[p]
    OBVIOUS
  <2>2. PassOK(r)
    BY <2>1
  <2>3. CASE WalkingOK(r)
    BY <2>1, <2>3 DEF WalkingOK, PassType
  <2>4. CASE HandlingOK(r)
    <3>1. r \in [pc : {"handling"}, to : Nat, top : Nat, todo : {r.todo}, written : 0 .. 1]
      BY <2>4 DEF HandlingOK
    <3>2. DOMAIN r.todo \subseteq Nat
      <4>1. DOMAIN r.todo \subseteq DOMAIN logs
        BY <2>4 DEF HandlingOK
      <4>2. DOMAIN logs = 1 .. Len(logs)
        BY LogsAreSequence
      <4> QED
        BY <4>1, <4>2
    <3>3. Range(r.todo) \subseteq LogType
      BY <2>4, LogsAreSequence DEF HandlingOK, Range
    <3> QED
      BY <2>1, <3>1, <3>2, <3>3 DEF PassType
  <2>5. CASE r = Idle \/ (r \in [pc : {"begun"}, from : Nat] /\ r.from <= cursor)
    BY <2>1, <2>5 DEF PassType
  <2> QED
    BY <2>2, <2>3, <2>4, <2>5 DEF PassOK
<1> QED
  BY <1>1, <1>2, <1>3 DEF TypeOK

LEMMA IndexGivesRows ==
  ASSUME IndexInv
  PROVE  RowsOnChain
<1>1. RowsFrom(Final) /\ Final \subseteq Logs
  BY DEF IndexInv, RowsInv, Final
<1>2. RowsFrom(Logs)
  BY <1>1, RowsFromMore
<1>3. \A e : \A l : l \in Of(e) <=> l \in Logs /\ l.event = e
  BY DEF Of, Logs
<1>4. \A l \in Logs : l.event \in DOMAIN Resolution => l \in Resolutions
  BY <1>3 DEF Resolutions
<1> QED
  BY <1>2, <1>3, <1>4 DEF RowsFrom, RowsOnChain

\* The tables, the cursor and the passes hold what they are declared to hold.
THEOREM IndexerTyped == Spec => []TypeOK
<1>1. IndexInv => TypeOK
  BY IndexGivesTypes
<1> QED
  BY <1>1, IndexHolds, PTL

\* However many passes overlap, die, replay each other or lose a log: behind the
\* cursor (_advanceCursor) every log is in the tables, but those whose handling
\* threw, those before a cold start, and resolutions of shields lost that way.
THEOREM LossContained == Spec => []LossIsContained
<1>1. IndexInv => LossIsContained
  BY DEF IndexInv
<1> QED
  BY <1>1, IndexHolds, PTL

\* The tables hold nothing that a reorganisation took away: every row was read
\* at a depth that the chain does not give up (TrailingHead).
THEOREM RowsStemFromChain == Spec => []RowsOnChain
<1>1. IndexInv => RowsOnChain
  BY IndexGivesRows
<1> QED
  BY <1>1, IndexHolds, PTL

\* upsertShieldQueueEntry alerts an operator at most once of a deposit.
THEOREM AlertOnce == Spec => []AlertedOnce
<1>1. IndexInv => AlertedOnce
  BY DEF IndexInv, RowsInv, AlertedOnce
<1> QED
  BY <1>1, IndexHolds, PTL
=============================================================================
