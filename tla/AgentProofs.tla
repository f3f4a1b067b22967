----------------------------- MODULE AgentProofs -----------------------------
(***************************************************************************)
(* What the agent's store guarantees for any calls and any mishaps.        *)
(*                                                                         *)
(* For any number of overlapping scans: the leaves it holds are a prefix   *)
(* of the contract's tree, and the note a proof is built for lies at its   *)
(* leaf.  If scans do not overlap: at rest, the balance it shows is that   *)
(* of the chain.                                                           *)
(***************************************************************************)
EXTENDS AgentAccount, FiniteSetTheorems, TLAPS

-----------------------------------------------------------------------------
(* Finite sets *)

LEMMA ImageFinite ==
  ASSUME NEW S, IsFiniteSet(S), NEW f, S \subseteq DOMAIN f
  PROVE  IsFiniteSet({f[x] : x \in S})
<1> DEFINE g == [x \in S |-> f[x]]
<1>1. g \in Surjection(S, {f[x] : x \in S})
  BY DEF Surjection
<1> QED
  BY <1>1, FS_Surjection

-----------------------------------------------------------------------------
(* The inductive invariant *)

Events == {"ShieldQueued", "ShieldExecuted", "ShieldCancelled", "ShieldContested",
           "LeafInserted", "NullifierUsed", "NotePayload"}
States == {"queued", "cancelled", "contested", "spendable", "spent"}

LogRow == [event : Events, note : Int, block : Int, leaf : Int]
NoteRow == [state : States, leaf : Int]
PassState ==
  {Idle} \cup [pc : {"begun"}, from : Nat]
    \cup [pc : {"handling"}, from : Nat, to : Nat, todo : SUBSET LogRow]
CommandState ==
  {Idle} \cup [pc : {"shielded"}, note : Int]
    \cup [pc : {"proving"}, note : Int, leaf : Int]
    \cup [pc : {"sent"}, note : Int, change : Int]

AgentTyped ==
  /\ logs \in Seq(LogRow) /\ head \in Nat /\ minted \in Nat
  /\ pending \subseteq [call : {"shield", "spend"}, note : Int, change : Int]
  /\ DOMAIN notes \subseteq Int /\ notes \in [DOMAIN notes -> NoteRow]
  /\ cursor \in Nat
  /\ pass \in [Passes -> PassState]
  /\ command \in CommandState

LeafLogs == Of("LeafInserted")
LeafCount == Cardinality(LeafLogs)

\* The chain numbers its leaves from 0 on, in the order of its blocks.
LeavesNumbered ==
  /\ IsFiniteSet(LeafLogs)
  /\ \A l \in LeafLogs : l.leaf \in 0 .. LeafCount - 1 /\ l.block \in 1 .. head
  /\ \A l, m \in LeafLogs : l.leaf = m.leaf => l = m
  /\ \A i \in 0 .. LeafCount - 1 : \E l \in LeafLogs : l.leaf = i
  /\ \A l, m \in LeafLogs : l.leaf < m.leaf => l.block <= m.block

\* The table holds the leaves of the blocks up to w, and no others.
HoldsTo(w) ==
  /\ \A i \in DOMAIN leaves : \E l \in LeafLogs : l.leaf = i /\ l.block <= w
  /\ \A l \in LeafLogs :
       l.block <= w => l.leaf \in DOMAIN leaves /\ leaves[l.leaf] = l.note

\* No scan starts beyond the block after w, and none is past w.
PassWithin(r, w) ==
  /\ r.pc # "idle" => r.from \in 1 .. w + 1
  /\ r.pc = "handling" => r.to \in 1 .. w
ScansWithin(w) == cursor \in 0 .. w /\ \A p \in Passes : PassWithin(pass[p], w)

\* w is the last block that any scan has read.
ReadTo(w) == HoldsTo(w) /\ ScansWithin(w)

\* A note with a leaf index is at that leaf of the table.
Placed(note, leaf) == leaf \in DOMAIN leaves /\ leaves[leaf] = note
RowsPlaced ==
  /\ \A n \in DOMAIN notes : notes[n].leaf # None => Placed(n, notes[n].leaf)
  /\ command.pc = "proving" /\ command.leaf # None => Placed(command.note, command.leaf)

LeafInv ==
  /\ AgentTyped /\ LeavesNumbered /\ RowsPlaced
  /\ \E w \in 0 .. head : ReadTo(w)

-----------------------------------------------------------------------------
(* The chain *)

LEMMA LogsAreSequence ==
  ASSUME AgentTyped
  PROVE  /\ Len(logs) \in Nat /\ DOMAIN logs = 1 .. Len(logs)
         /\ \A i \in DOMAIN logs : logs[i] \in LogRow
         /\ \A e : Of(e) \subseteq LogRow /\ \A l \in Of(e) : l.event = e
BY DEF AgentTyped, Of

LEMMA NewLogs ==
  ASSUME AgentTyped, NEW new \in Seq(LogRow), logs' = logs \o new
  PROVE  /\ logs' \in Seq(LogRow)
         /\ \A e : Of(e)' = Of(e) \cup {l \in {new[i] : i \in DOMAIN new} : l.event = e}
<1>0. logs \in Seq(LogRow)
  BY DEF AgentTyped
<1>1. logs' \in Seq(LogRow)
  BY <1>0
<1>2. /\ Len(logs) \in Nat /\ DOMAIN logs = 1 .. Len(logs)
      /\ Len(new) \in Nat /\ DOMAIN new = 1 .. Len(new)
      /\ DOMAIN logs' = 1 .. Len(logs) + Len(new)
      /\ \A i \in DOMAIN logs : logs'[i] = logs[i]
      /\ \A i \in DOMAIN new : logs'[Len(logs) + i] = new[i]
  BY <1>0
<1>3. \A i \in DOMAIN logs' : i \in DOMAIN logs \/ \E j \in DOMAIN new : i = Len(logs) + j
  <2> SUFFICES ASSUME NEW i \in DOMAIN logs', i \notin DOMAIN logs
               PROVE  \E j \in DOMAIN new : i = Len(logs) + j
    OBVIOUS
  <2>1. i - Len(logs) \in DOMAIN new /\ i = Len(logs) + (i - Len(logs))
    BY <1>2
  <2> QED
    BY <2>1
<1>4. ASSUME NEW e
      PROVE  Of(e)' = Of(e) \cup {l \in {new[i] : i \in DOMAIN new} : l.event = e}
  <2> DEFINE Added == {l \in {new[i] : i \in DOMAIN new} : l.event = e}
  <2>1. ASSUME NEW l \in Of(e)' PROVE l \in Of(e) \cup Added
    <3>1. PICK i \in DOMAIN logs' : l = logs'[i] /\ logs'[i].event = e
      BY <2>1 DEF Of
    <3>2. CASE i \in DOMAIN logs
      BY <3>1, <3>2, <1>2 DEF Of
    <3>3. CASE \E j \in DOMAIN new : i = Len(logs) + j
      BY <3>1, <3>3, <1>2
    <3> QED
      BY <3>2, <3>3, <1>3
  <2>2. ASSUME NEW l \in Of(e) PROVE l \in Of(e)'
    <3>1. PICK i \in DOMAIN logs : l = logs[i] /\ logs[i].event = e
      BY DEF Of
    <3>2. i \in DOMAIN logs' /\ logs'[i] = logs[i]
      BY <1>2
    <3> QED
      BY <3>1, <3>2 DEF Of
  <2>3. ASSUME NEW l \in Added PROVE l \in Of(e)'
    <3>1. PICK i \in DOMAIN new : l = new[i] /\ new[i].event = e
      OBVIOUS
    <3>2. Len(logs) + i \in DOMAIN logs' /\ logs'[Len(logs) + i] = new[i]
      BY <1>2
    <3> QED
      BY <3>1, <3>2 DEF Of
  <2> QED
    BY <2>1, <2>2, <2>3
<1> QED
  BY <1>1, <1>4

LEMMA LeavesFinite ==
  ASSUME AgentTyped
  PROVE  IsFiniteSet(LeafLogs) /\ LeafCount \in Nat
<1> DEFINE P == {j \in DOMAIN logs : logs[j].event = "LeafInserted"}
<1>1. IsFiniteSet(1 .. Len(logs))
  BY LogsAreSequence, FS_Interval
<1>2. P \subseteq 1 .. Len(logs) /\ P \subseteq DOMAIN logs
  BY LogsAreSequence
<1>3. IsFiniteSet(P)
  BY <1>1, <1>2, FS_Subset
<1>4. IsFiniteSet({logs[i] : i \in P})
  BY <1>2, <1>3, ImageFinite
<1> QED
  BY <1>4, FS_CardinalityType DEF LeafLogs, LeafCount, Of

\* The leaves of a transaction: the first takes the next number, the second, if
\* there is one, the number after it.
LEMMA NumbersGrow ==
  ASSUME AgentTyped, LeavesNumbered, head' = head + 1,
         NEW l \in LogRow, l.leaf = LeafCount, l.block = head + 1
  PROVE  /\ LeafLogs' = LeafLogs \cup {l} => LeavesNumbered' /\ LeafCount' = LeafCount + 1
         /\ \A m \in LogRow :
              /\ m.leaf = LeafCount + 1 /\ m.block = head + 1
              /\ LeafLogs' = (LeafLogs \cup {l}) \cup {m}
              => LeavesNumbered'
<1> USE DEF LeafCount
<1>1. LeafCount \in Nat /\ head \in Nat /\ IsFiniteSet(LeafLogs)
  BY LeavesFinite DEF AgentTyped
<1>2. l \notin LeafLogs
  BY <1>1 DEF LeavesNumbered
<1>3. IsFiniteSet(LeafLogs \cup {l}) /\ Cardinality(LeafLogs \cup {l}) = LeafCount + 1
  BY <1>1, <1>2, FS_AddElement
<1>4. \A x \in LeafLogs : x.leaf \in 0 .. LeafCount - 1 /\ x.block \in 1 .. head
  BY DEF LeavesNumbered
<1>5. ASSUME LeafLogs' = LeafLogs \cup {l} PROVE LeavesNumbered' /\ LeafCount' = LeafCount + 1
  <2>1. LeafCount' = LeafCount + 1 /\ IsFiniteSet(LeafLogs')
    BY <1>3, <1>5
  <2>2. \A x \in LeafLogs' : x.leaf \in 0 .. LeafCount' - 1 /\ x.block \in 1 .. head'
    BY <1>1, <1>4, <1>5, <2>1
  <2>3. \A x, y \in LeafLogs' : x.leaf = y.leaf => x = y
    BY <1>1, <1>4, <1>5 DEF LeavesNumbered
  <2>4. \A i \in 0 .. LeafCount' - 1 : \E x \in LeafLogs' : x.leaf = i
    BY <1>1, <1>5, <2>1 DEF LeavesNumbered
  <2>5. \A x, y \in LeafLogs' : x.leaf < y.leaf => x.block <= y.block
    BY <1>1, <1>4, <1>5 DEF LeavesNumbered
  <2> QED
    BY <2>1, <2>2, <2>3, <2>4, <2>5 DEF LeavesNumbered
<1>6. ASSUME NEW m \in LogRow, m.leaf = LeafCount + 1, m.block = head + 1,
             LeafLogs' = (LeafLogs \cup {l}) \cup {m}
      PROVE  LeavesNumbered'
  <2>0. m \notin LeafLogs \cup {l}
    BY <1>1, <1>4, <1>6
  <2>1. LeafCount' = LeafCount + 2 /\ IsFiniteSet(LeafLogs')
    <3>1. /\ IsFiniteSet((LeafLogs \cup {l}) \cup {m})
          /\ Cardinality((LeafLogs \cup {l}) \cup {m}) = Cardinality(LeafLogs \cup {l}) + 1
      BY <1>3, <2>0, FS_AddElement
    <3> QED
      BY <1>1, <1>3, <1>6, <3>1
  <2>2. \A x \in LeafLogs' : x.leaf \in 0 .. LeafCount' - 1 /\ x.block \in 1 .. head'
    BY <1>1, <1>4, <1>6, <2>1
  <2>3. \A x, y \in LeafLogs' : x.leaf = y.leaf => x = y
    BY <1>1, <1>4, <1>6 DEF LeavesNumbered
  <2>4. \A i \in 0 .. LeafCount' - 1 : \E x \in LeafLogs' : x.leaf = i
    <3> SUFFICES ASSUME NEW i \in 0 .. LeafCount' - 1 PROVE \E x \in LeafLogs' : x.leaf = i
      OBVIOUS
    <3>1. i \in 0 .. LeafCount - 1 \/ i = LeafCount \/ i = LeafCount + 1
      BY <1>1, <2>1
    <3> QED
      BY <3>1, <1>6 DEF LeavesNumbered
  <2>5. \A x, y \in LeafLogs' : x.leaf < y.leaf => x.block <= y.block
    BY <1>1, <1>4, <1>6 DEF LeavesNumbered
  <2> QED
    BY <2>1, <2>2, <2>3, <2>4, <2>5 DEF LeavesNumbered
<1> QED
  BY <1>5, <1>6

\* What does not touch the store keeps the leaves it holds and the rows at them.
LEMMA StoreStays ==
  ASSUME LeafInv, AgentTyped', LeavesNumbered', head' \in {head, head + 1},
         LeafLogs \subseteq LeafLogs', \A l \in LeafLogs' \ LeafLogs : l.block = head + 1,
         UNCHANGED store, pass' = pass,
         command'.pc = "proving" => command' = command
  PROVE  LeafInv'
<1>1. RowsPlaced'
  BY DEF LeafInv, RowsPlaced, Placed, store
<1>2. PICK w \in 0 .. head : ReadTo(w)
  BY DEF LeafInv
<1>3. head \in Nat /\ w \in 0 .. head'
  BY <1>2 DEF LeafInv, AgentTyped
<1>4. HoldsTo(w)'
  BY <1>2, <1>3 DEF ReadTo, HoldsTo, store
<1>5. ScansWithin(w)'
  BY <1>2 DEF ReadTo, ScansWithin, PassWithin, store
<1> QED
  BY <1>1, <1>3, <1>4, <1>5 DEF LeafInv, ReadTo

LEMMA LeafRow ==
  ASSUME AgentTyped, NEW note \in Int, NEW k \in {0, 1}
  PROVE  /\ Leaf(note, k) \in LogRow /\ Leaf(note, k).leaf = LeafCount + k
         /\ Leaf(note, k).event = "LeafInserted" /\ Leaf(note, k).block = head + 1
<1>1. LeafCount + k \in Int /\ head + 1 \in Int
  BY LeavesFinite DEF AgentTyped
<1> QED
  BY <1>1 DEF Leaf, LogRow, LeafCount, LeafLogs, Events

LEMMA OtherRow ==
  ASSUME AgentTyped, NEW note \in Int, NEW event \in Events
  PROVE  Log(event, note) \in LogRow /\ Log(event, note).event = event
<1>1. head + 1 \in Int /\ -1 \in Int
  BY DEF AgentTyped
<1> QED
  BY <1>1 DEF Log, LogRow, None

\* The tuples that transactions emit, put together.
LEMMA Tuples ==
  ASSUME NEW a, NEW b, NEW c
  PROVE  /\ << >> \o <<a>> = <<a>>
         /\ <<a>> \o << >> = <<a>> /\ <<a, b>> \o << >> = <<a, b>>
         /\ <<a>> \o <<b>> = <<a, b>>
         /\ <<a>> \o <<b, c>> = <<a, b, c>>
<1> DEFINE S == {a, b, c}
<1>1. << >> \o <<a>> = <<a>> /\ <<a>> \o << >> = <<a>> /\ <<a, b>> \o << >> = <<a, b>>
  <2>1. <<a>> \in Seq(S) /\ <<a, b>> \in Seq(S)
    OBVIOUS
  <2> QED
    BY <2>1
<1>2. <<a>> \o <<b>> = <<a, b>>
  <2> DEFINE s == <<a>> \o <<b>>
             t == <<a, b>>
  <2>1. s \in Seq(S) /\ Len(s) = 2 /\ s[1] = a /\ s[2] = b
    OBVIOUS
  <2>2. t \in Seq(S) /\ Len(t) = 2 /\ t[1] = a /\ t[2] = b
    OBVIOUS
  <2> HIDE DEF s, t
  <2>3. \A i \in 1 .. 2 : i = 1 \/ i = 2
    OBVIOUS
  <2>4. s = t
    BY <2>1, <2>2, <2>3
  <2> QED
    BY <2>4 DEF s, t
<1>3. <<a>> \o <<b, c>> = <<a, b, c>>
  <2> DEFINE s == <<a>> \o <<b, c>>
             t == <<a, b, c>>
  <2>1. s \in Seq(S) /\ Len(s) = 3 /\ s[1] = a /\ s[2] = b /\ s[3] = c
    OBVIOUS
  <2>2. t \in Seq(S) /\ Len(t) = 3 /\ t[1] = a /\ t[2] = b /\ t[3] = c
    OBVIOUS
  <2> HIDE DEF s, t
  <2>3. \A i \in 1 .. 3 : i = 1 \/ i = 2 \/ i = 3
    OBVIOUS
  <2>4. s = t
    BY <2>1, <2>2, <2>3
  <2> QED
    BY <2>4 DEF s, t
<1> QED
  BY <1>1, <1>2, <1>3

\* A transaction that inserts at most one leaf.
LEMMA MineOne ==
  ASSUME LeafInv, NEW a \in LogRow, NEW b \in LogRow, b.event # "LeafInserted",
         a.event = "LeafInserted" => a.leaf = LeafCount /\ a.block = head + 1,
         NEW new \in {<<a>>, <<a, b>>, <<b, a>>}, Mine(new),
         pending' \subseteq pending, minted' \in Nat
  PROVE  LeafInv'
<1>0. AgentTyped /\ LeavesNumbered
  BY DEF LeafInv
<1>1. /\ head' = head + 1 /\ logs' = logs \o new
      /\ UNCHANGED store /\ pass' = pass /\ command' = command
  BY DEF Mine, store
<1>2. /\ new \in Seq(LogRow)
      /\ \A i \in DOMAIN new : new[i] = a \/ new[i] = b
      /\ \E i \in DOMAIN new : new[i] = a
  <2>1. CASE new = <<a>>
    <3>1. 1 \in DOMAIN new /\ new[1] = a
      BY <2>1
    <3> QED
      BY <2>1, <3>1
  <2>2. CASE new = <<a, b>>
    <3>1. 1 \in DOMAIN new /\ new[1] = a
      BY <2>2
    <3> QED
      BY <2>2, <3>1
  <2>3. CASE new = <<b, a>>
    <3>1. 2 \in DOMAIN new /\ new[2] = a
      BY <2>3
    <3> QED
      BY <2>3, <3>1
  <2> QED
    BY <2>1, <2>2, <2>3
<1>3. logs' \in Seq(LogRow)
  BY <1>0, <1>1, <1>2, NewLogs
<1>4. LeafLogs' = LeafLogs \cup {l \in {new[i] : i \in DOMAIN new} : l.event = "LeafInserted"}
  BY <1>0, <1>1, <1>2, NewLogs DEF LeafLogs
<1>5. AgentTyped'
  BY <1>0, <1>1, <1>3 DEF AgentTyped, store
<1>6. CASE a.event = "LeafInserted"
  <2>1. LeafLogs' = LeafLogs \cup {a}
    BY <1>2, <1>4, <1>6
  <2>2. LeavesNumbered'
    BY <1>0, <1>1, <1>6, <2>1, NumbersGrow
  <2> QED
    BY <1>1, <1>5, <1>6, <2>1, <2>2, StoreStays
<1>7. CASE a.event # "LeafInserted"
  <2>1. LeafLogs' = LeafLogs
    BY <1>2, <1>4, <1>7
  <2>2. head \in Nat
    BY <1>0 DEF AgentTyped
  <2>3. LeavesNumbered'
    BY <1>0, <1>1, <2>1, <2>2 DEF LeavesNumbered, LeafCount
  <2> QED
    BY <1>1, <1>5, <2>1, <2>3, StoreStays
<1> QED
  BY <1>6, <1>7

-----------------------------------------------------------------------------
(* The steps of the chain *)

LEMMA MineShieldKeeps ==
  ASSUME LeafInv, MineShield
  PROVE  LeafInv'
<1>1. PICK tx \in pending :
        pending' = pending \ {tx} /\ Mine(<<Log("ShieldQueued", tx.note)>>) /\ minted' = minted
  BY DEF MineShield
<1>2. AgentTyped /\ tx.note \in Int /\ minted \in Nat
  BY DEF LeafInv, AgentTyped
<1>3. Log("ShieldQueued", tx.note) \in LogRow /\ Log("ShieldQueued", tx.note).event = "ShieldQueued"
  BY <1>2, OtherRow DEF Events
<1>4. pending' \subseteq pending /\ minted' \in Nat
  BY <1>1, <1>2
<1> QED
  BY <1>1, <1>3, <1>4, MineOne

LEMMA MineOtherKeeps ==
  ASSUME LeafInv, MineOther
  PROVE  LeafInv'
<1>0. AgentTyped
  BY DEF LeafInv
<1>1. minted \in Nat /\ pending \subseteq pending
  BY <1>0 DEF AgentTyped
<1>2. \A note \in Waiting : note \in Int
  <2>1. \A l \in Of("ShieldQueued") : l.note \in Int
    BY <1>0, LogsAreSequence DEF LogRow
  <2> QED
    BY <2>1 DEF Waiting, Notes
<1>3. \A note \in Int : /\ Leaf(note, 0) \in LogRow /\ Leaf(note, 0).leaf = LeafCount
                        /\ Leaf(note, 0).block = head + 1
                        /\ \A event \in Events : /\ Log(event, note) \in LogRow
                                                 /\ Log(event, note).event = event
  BY <1>0, <1>1, LeafRow, OtherRow, LeavesFinite
<1>4. ASSUME NEW note \in Waiting, Mine(<<Leaf(note, 0), Log("ShieldExecuted", note)>>),
             UNCHANGED <<pending, minted>>
      PROVE  LeafInv'
  <2>1. Log("ShieldExecuted", note) \in LogRow /\ Log("ShieldExecuted", note).event # "LeafInserted"
    BY <1>2, <1>3 DEF Events
  <2> QED
    BY <1>1, <1>2, <1>3, <1>4, <2>1, MineOne
<1>5. ASSUME NEW note \in Waiting, NEW call \in Calls \cap DOMAIN Refunds,
             Mine(<<Log(Refunds[call], note)>>), UNCHANGED <<pending, minted>>
      PROVE  LeafInv'
  <2>1. Refunds[call] \in Events /\ Refunds[call] # "LeafInserted"
    BY DEF Refunds, Events
  <2>2. Log(Refunds[call], note) \in LogRow /\ Log(Refunds[call], note).event = Refunds[call]
    BY <1>2, <1>3, <2>1
  <2> QED
    BY <1>1, <1>5, <2>1, <2>2, MineOne
<1>6. ASSUME minted' = minted + 1, Mine(<<Leaf(minted + 1, 0), Log("NotePayload", minted + 1)>>),
             UNCHANGED pending
      PROVE  LeafInv'
  <2>1. minted' \in Nat /\ minted + 1 \in Int
    BY <1>1, <1>6
  <2>2. /\ Log("NotePayload", minted + 1) \in LogRow
        /\ Log("NotePayload", minted + 1).event # "LeafInserted"
    BY <1>3, <2>1 DEF Events
  <2> QED
    BY <1>1, <1>3, <1>6, <2>1, <2>2, MineOne
<1>7. ASSUME NEW burnt \in {<< >>, <<Log("NullifierUsed", Foreign)>>},
             Mine(burnt \o <<Leaf(Foreign, 0)>>), UNCHANGED <<pending, minted>>
      PROVE  LeafInv'
  <2> DEFINE a == Leaf(Foreign, 0)
             b == Log("NullifierUsed", Foreign)
  <2>1. Foreign \in Int
    BY DEF Foreign
  <2>2. /\ b \in LogRow /\ b.event # "LeafInserted"
        /\ a \in LogRow /\ a.leaf = LeafCount /\ a.block = head + 1
    BY <1>3, <2>1 DEF Events
  <2>3. Mine(<<a>>) \/ Mine(<<b, a>>)
    BY <1>7, Tuples
  <2> HIDE DEF a, b
  <2>4. pending' \subseteq pending /\ minted' \in Nat
    BY <1>1, <1>7
  <2>5. CASE Mine(<<a>>)
    BY <2>2, <2>4, <2>5, MineOne
  <2>6. CASE Mine(<<b, a>>)
    BY <2>2, <2>4, <2>6, MineOne
  <2> QED
    BY <2>3, <2>5, <2>6
<1> QED
  BY <1>4, <1>5, <1>6, <1>7 DEF MineOther

\* Four logs of a spend.
LEMMA TwoAndTwo ==
  ASSUME NEW a, NEW b, NEW c, NEW d
  PROVE  <<a, b>> \o <<c, d>> = <<a, b, c, d>>
<1> DEFINE S == {a, b, c, d}
           s == <<a, b>> \o <<c, d>>
           t == <<a, b, c, d>>
<1>1. s \in Seq(S) /\ Len(s) = 4 /\ s[1] = a /\ s[2] = b /\ s[3] = c /\ s[4] = d
  OBVIOUS
<1>2. t \in Seq(S) /\ Len(t) = 4 /\ t[1] = a /\ t[2] = b /\ t[3] = c /\ t[4] = d
  OBVIOUS
<1> HIDE DEF s, t
<1>3. \A i \in 1 .. 4 : i = 1 \/ i = 2 \/ i = 3 \/ i = 4
  OBVIOUS
<1>4. s = t
  BY <1>1, <1>2, <1>3
<1> QED
  BY <1>4 DEF s, t
\* A spend emits its nullifier, the recipient's leaf if there is one, and the
\* leaf and the payload of its change if there is any.
LEMMA SpendEmits ==
  ASSUME AgentTyped, MineSpend
  PROVE  \E tx \in pending, k \in {0, 1}, new \in Seq(LogRow) :
           /\ tx.call = "spend" /\ tx.note \notin Burnt
           /\ pending' = pending \ {tx} /\ minted' = minted /\ Mine(new)
           /\ {new[i] : i \in DOMAIN new} =
                {Log("NullifierUsed", tx.note)}
                  \cup (IF k = 0 THEN {} ELSE {Leaf(Foreign, 0)})
                  \cup (IF tx.change = None THEN {}
                        ELSE {Leaf(tx.change, k), Log("NotePayload", tx.change)})
<1>1. PICK tx \in pending, paid \in {<< >>, <<Leaf(Foreign, 0)>>} :
        /\ tx.call = "spend" /\ tx.note \notin Burnt
        /\ pending' = pending \ {tx} /\ minted' = minted
        /\ Mine(<<Log("NullifierUsed", tx.note)>> \o paid
                  \o IF tx.change = None THEN << >>
                     ELSE <<Leaf(tx.change, Len(paid)), Log("NotePayload", tx.change)>>)
  BY DEF MineSpend
<1>2. tx.note \in Int /\ tx.change \in Int /\ Foreign \in Int
  BY DEF AgentTyped, Foreign
<1> DEFINE burn == Log("NullifierUsed", tx.note)
           first == Leaf(Foreign, 0)
           rest == Log("NotePayload", tx.change)
           Next0 == Leaf(tx.change, 0)
           Next1 == Leaf(tx.change, 1)
           Emitted(k) == {burn} \cup (IF k = 0 THEN {} ELSE {first})
                           \cup (IF tx.change = None THEN {} ELSE {Leaf(tx.change, k), rest})
<1>3. burn \in LogRow /\ rest \in LogRow
  BY <1>2, OtherRow DEF Events
<1>4. first \in LogRow /\ Next0 \in LogRow /\ Next1 \in LogRow
  BY <1>2, LeafRow
<1>5. SUFFICES \E k \in {0, 1}, new \in Seq(LogRow) :
                 Mine(new) /\ {new[i] : i \in DOMAIN new} = Emitted(k)
  BY <1>1
<1>6. CASE paid = << >> /\ tx.change = None
  <2> HIDE DEF burn
  <2>1. Mine((<<burn>> \o << >>) \o << >>)
    BY <1>1, <1>6 DEF burn
  <2>2. Mine(<<burn>>)
    BY <2>1, Tuples
  <2>3. <<burn>> \in Seq(LogRow) /\ {<<burn>>[i] : i \in DOMAIN <<burn>>} = {burn}
    BY <1>3
  <2>4. Emitted(0) = {burn}
    BY <1>6
  <2> QED
    BY <2>2, <2>3, <2>4
<1>7. CASE paid = << >> /\ tx.change # None
  <2> DEFINE new == <<burn, Next0, rest>>
  <2>0. Emitted(0) = {burn, Next0, rest} /\ Len(paid) = 0
    BY <1>7
  <2> HIDE DEF burn, Next0, rest, Emitted
  <2>1. Mine((<<burn>> \o << >>) \o <<Next0, rest>>)
    BY <1>1, <1>7, <2>0 DEF burn, Next0, rest
  <2>2. Mine(new)
    BY <2>1, Tuples
  <2>3. new \in Seq(LogRow)
    BY <1>3, <1>4
  <2>4. DOMAIN new = 1 .. 3 /\ new[1] = burn /\ new[2] = Next0 /\ new[3] = rest
    OBVIOUS
  <2>5. {new[i] : i \in DOMAIN new} = {burn, Next0, rest}
    BY <2>4
  <2>6. {new[i] : i \in DOMAIN new} = Emitted(0)
    BY <2>0, <2>5
  <2> HIDE DEF new
  <2> QED
    BY <2>2, <2>3, <2>6
<1>8. CASE paid = <<first>> /\ tx.change = None
  <2> DEFINE new == <<burn, first>>
  <2>0. Emitted(1) = {burn, first}
    BY <1>8
  <2> HIDE DEF burn, first, Emitted
  <2>1. Mine((<<burn>> \o <<first>>) \o << >>)
    BY <1>1, <1>8 DEF burn
  <2>2. Mine(new)
    BY <2>1, Tuples
  <2>3. new \in Seq(LogRow)
    BY <1>3, <1>4
  <2>4. DOMAIN new = 1 .. 2 /\ new[1] = burn /\ new[2] = first
    OBVIOUS
  <2>5. {new[i] : i \in DOMAIN new} = {burn, first}
    BY <2>4
  <2>6. {new[i] : i \in DOMAIN new} = Emitted(1)
    BY <2>0, <2>5
  <2> HIDE DEF new
  <2> QED
    BY <2>2, <2>3, <2>6
<1>9. CASE paid = <<first>> /\ tx.change # None
  <2> DEFINE new == <<burn, first, Next1, rest>>
  <2>0. Emitted(1) = {burn, first, Next1, rest} /\ Len(paid) = 1
    BY <1>9
  <2> HIDE DEF burn, first, Next1, rest, Emitted
  <2>1. Mine((<<burn>> \o <<first>>) \o <<Next1, rest>>)
    BY <1>1, <1>9, <2>0 DEF burn, Next1, rest
  <2>2. Mine(new)
    <3>1. <<burn>> \o <<first>> = <<burn, first>>
      BY Tuples
    <3>2. <<burn, first>> \o <<Next1, rest>> = new
      BY TwoAndTwo
    <3> QED
      BY <2>1, <3>1, <3>2
  <2>3. new \in Seq(LogRow)
    BY <1>3, <1>4
  <2>4. DOMAIN new = 1 .. 4 /\ new[1] = burn /\ new[2] = first /\ new[3] = Next1 /\ new[4] = rest
    OBVIOUS
  <2>5. {new[i] : i \in DOMAIN new} = {burn, first, Next1, rest}
    BY <2>4
  <2>6. {new[i] : i \in DOMAIN new} = Emitted(1)
    BY <2>0, <2>5
  <2> HIDE DEF new
  <2> QED
    BY <2>2, <2>3, <2>6
<1> QED
  BY <1>1, <1>6, <1>7, <1>8, <1>9

LEMMA MineSpendKeeps ==
  ASSUME LeafInv, MineSpend
  PROVE  LeafInv'
<1>0. AgentTyped /\ LeavesNumbered
  BY DEF LeafInv
<1>1. PICK tx \in pending, k \in {0, 1}, new \in Seq(LogRow) :
        /\ pending' = pending \ {tx} /\ minted' = minted /\ Mine(new)
        /\ {new[i] : i \in DOMAIN new} =
             {Log("NullifierUsed", tx.note)}
               \cup (IF k = 0 THEN {} ELSE {Leaf(Foreign, 0)})
               \cup (IF tx.change = None THEN {}
                     ELSE {Leaf(tx.change, k), Log("NotePayload", tx.change)})
  BY <1>0, SpendEmits
<1>2. tx.note \in Int /\ tx.change \in Int /\ Foreign \in Int /\ head \in Nat
  BY <1>0 DEF AgentTyped, Foreign
<1> DEFINE burn == Log("NullifierUsed", tx.note)
           first == Leaf(Foreign, 0)
           next == Leaf(tx.change, k)
           rest == Log("NotePayload", tx.change)
           found == {l \in {new[i] : i \in DOMAIN new} : l.event = "LeafInserted"}
<1>3. burn.event # "LeafInserted" /\ rest.event # "LeafInserted"
  <2>1. burn.event = "NullifierUsed" /\ rest.event = "NotePayload"
    BY <1>0, <1>2, OtherRow DEF Events
  <2> QED
    BY <2>1
<1>4. /\ first \in LogRow /\ first.leaf = LeafCount /\ first.event = "LeafInserted"
      /\ next \in LogRow /\ next.leaf = LeafCount + k /\ next.event = "LeafInserted"
      /\ first.block = head + 1 /\ next.block = head + 1
  BY <1>0, <1>2, LeafRow, LeavesFinite
<1>5. /\ head' = head + 1 /\ logs' = logs \o new
      /\ UNCHANGED store /\ pass' = pass /\ command' = command
  BY <1>1 DEF Mine, store
<1>6. logs' \in Seq(LogRow) /\ LeafLogs' = LeafLogs \cup found
  BY <1>0, <1>5, NewLogs DEF LeafLogs
<1>7. AgentTyped'
  BY <1>0, <1>1, <1>5, <1>6 DEF AgentTyped, store
<1>8. found \in {{}, {first}} \/ (k = 0 /\ found = {next}) \/ (k = 1 /\ found = {first, next})
  <2> DEFINE all == {new[i] : i \in DOMAIN new}
  <2>1. all = {burn} \cup (IF k = 0 THEN {} ELSE {first})
                \cup (IF tx.change = None THEN {} ELSE {next, rest})
    BY <1>1
  <2> HIDE DEF all, burn, first, next, rest
  <2>2. {l \in all : l.event = "LeafInserted"} =
          (IF k = 0 THEN {} ELSE {first}) \cup (IF tx.change = None THEN {} ELSE {next})
    BY <1>3, <1>4, <2>1
  <2> QED
    BY <2>2 DEF all
<1> HIDE DEF found, next, first
<1>9. LeavesNumbered'
  <2>1. CASE found = {}
    <3>1. LeafLogs' = LeafLogs
      BY <1>6, <2>1
    <3> QED
      BY <1>0, <1>2, <1>5, <3>1 DEF LeavesNumbered, LeafCount
  <2>2. CASE found = {first}
    BY <1>0, <1>4, <1>5, <1>6, <2>2, NumbersGrow
  <2>3. CASE k = 0 /\ found = {next}
    <3>1. LeafCount + 0 = LeafCount
      BY <1>0, LeavesFinite
    <3> QED
      BY <1>0, <1>4, <1>5, <1>6, <2>3, <3>1, NumbersGrow
  <2>4. CASE k = 1 /\ found = {first, next}
    <3>1. LeafLogs' = (LeafLogs \cup {first}) \cup {next}
      BY <1>6, <2>4
    <3> QED
      BY <1>0, <1>4, <1>5, <2>4, <3>1, NumbersGrow
  <2> QED
    BY <1>8, <2>1, <2>2, <2>3, <2>4
<1>10. LeafLogs \subseteq LeafLogs' /\ \A l \in LeafLogs' \ LeafLogs : l.block = head + 1
  BY <1>4, <1>6, <1>8
<1> QED
  BY <1>5, <1>7, <1>9, <1>10, StoreStays

-----------------------------------------------------------------------------
(* The steps that leave the chain's logs and the store alone *)

LEMMA SameLeaves ==
  ASSUME LeafInv, UNCHANGED <<logs, head>>
  PROVE  LeafLogs' = LeafLogs /\ LeavesNumbered'
<1>1. LeafLogs' = LeafLogs /\ LeavesNumbered
  BY DEF LeafInv, LeafLogs, Of
<1> QED
  BY <1>1 DEF LeavesNumbered, LeafCount

LEMMA PendingKeeps ==
  ASSUME LeafInv, Revert \/ Drop
  PROVE  LeafInv'
<1>1. UNCHANGED <<logs, head, minted, store, pass, command>> /\ pending' \subseteq pending
  BY DEF Revert, Drop
<1>2. AgentTyped'
  BY <1>1 DEF LeafInv, AgentTyped, store
<1> QED
  BY <1>1, <1>2, SameLeaves, StoreStays

LEMMA CommandKeeps ==
  ASSUME LeafInv, Shield \/ SendSpend \/ ProvingFails \/ Kill
  PROVE  LeafInv'
<1>0. AgentTyped
  BY DEF LeafInv
<1>1. UNCHANGED <<logs, head, store, pass>>
  BY DEF Shield, SendSpend, ProvingFails, Kill, chain
<1>2. AgentTyped' /\ command'.pc # "proving"
  <2>1. ASSUME Shield PROVE AgentTyped' /\ command'.pc # "proving"
    <3>1. /\ minted' = minted + 1 /\ minted \in Nat
          /\ pending' = pending \cup {[call |-> "shield", note |-> minted + 1, change |-> None]}
          /\ command' = [pc |-> "shielded", note |-> minted + 1]
      BY <1>0, <2>1 DEF Shield, AgentTyped, Broadcast, ShieldIntent, Do
    <3>2. command' \in CommandState
      BY <3>1 DEF CommandState
    <3>3. pending' \subseteq [call : {"shield", "spend"}, note : Int, change : Int]
      BY <1>0, <3>1 DEF AgentTyped, None
    <3> QED
      BY <1>0, <1>1, <3>1, <3>2, <3>3 DEF AgentTyped, store
  <2>2. ASSUME SendSpend PROVE AgentTyped' /\ command'.pc # "proving"
    <3>1. command.note \in Int /\ minted \in Nat
      BY <1>0, <2>2 DEF SendSpend, AgentTyped, CommandState, Idle
    <3>2. CASE command' = Idle /\ UNCHANGED <<pending, minted>>
      BY <1>0, <1>1, <3>2 DEF AgentTyped, store, CommandState, Idle
    <3>3. ASSUME NEW change \in Changes, Broadcast(SpendIntent(command.note, change)),
                 minted' = IF change = None THEN minted ELSE change,
                 command' = [pc |-> "sent", note |-> command.note, change |-> change]
          PROVE  AgentTyped' /\ command'.pc # "proving"
      <4>1. change = None \/ change = minted + 1
        BY DEF Changes
      <4>2. change \in Int /\ minted' \in Nat
        BY <3>1, <3>3, <4>1 DEF None
      <4>3. command' \in CommandState
        BY <3>1, <3>3, <4>2 DEF CommandState
      <4>4. pending' \subseteq [call : {"shield", "spend"}, note : Int, change : Int]
        BY <1>0, <3>1, <3>3, <4>2 DEF AgentTyped, Broadcast, SpendIntent
      <4> QED
        BY <1>0, <1>1, <3>3, <4>2, <4>3, <4>4 DEF AgentTyped, store
    <3> QED
      BY <2>2, <3>2, <3>3 DEF SendSpend, Do
  <2>3. ASSUME ProvingFails \/ Kill PROVE AgentTyped' /\ command'.pc # "proving"
    BY <1>0, <1>1, <2>3
       DEF ProvingFails, Kill, Do, chain, AgentTyped, store, CommandState, Idle
  <2> QED
    BY <2>1, <2>2, <2>3
<1>3. head' \in {head, head + 1} /\ pass' = pass /\ UNCHANGED store
  BY <1>1
<1> QED
  BY <1>1, <1>2, <1>3, SameLeaves, StoreStays

LEMMA SelectKeeps ==
  ASSUME LeafInv, Select
  PROVE  LeafInv'
<1>1. PICK note \in DOMAIN notes :
        /\ Selectable(note)
        /\ command' = [pc |-> "proving", note |-> note, leaf |-> notes[note].leaf]
  BY DEF Select, Do
<1>2. UNCHANGED <<chain, store, pass>> /\ AgentTyped
  BY DEF Select, LeafInv
<1>3. note \in Int /\ notes[note].leaf \in Int
  BY <1>1, <1>2 DEF AgentTyped, NoteRow
<1>4. command' \in CommandState
  BY <1>1, <1>3 DEF CommandState
<1>5. AgentTyped'
  BY <1>2, <1>4 DEF AgentTyped, chain, store
<1>6. RowsPlaced'
  BY <1>1, <1>2 DEF LeafInv, RowsPlaced, Placed, store
<1>7. PICK w \in 0 .. head : ReadTo(w)
  BY DEF LeafInv
<1>8. LeafLogs' = LeafLogs /\ LeavesNumbered' /\ head' = head
  BY <1>2, SameLeaves DEF chain
<1>9. ReadTo(w)'
  BY <1>2, <1>7, <1>8 DEF ReadTo, HoldsTo, ScansWithin, PassWithin, store
<1> QED
  BY <1>5, <1>6, <1>8, <1>9 DEF LeafInv

-----------------------------------------------------------------------------
(* The steps of a scan *)

LEMMA StartStopKeeps ==
  ASSUME LeafInv, NEW p \in Passes, Begin(p) \/ Abort(p)
  PROVE  LeafInv'
<1>1. /\ UNCHANGED <<chain, store, command>> /\ AgentTyped
      /\ \/ pass' = [pass EXCEPT ![p] = [pc |-> "begun", from |-> cursor + 1]]
         \/ pass' = [pass EXCEPT ![p] = Idle]
  BY DEF Begin, Abort, Goto, LeafInv
<1>2. PICK w \in 0 .. head : ReadTo(w)
  BY DEF LeafInv
<1>3. w \in Nat /\ cursor \in 0 .. w
  BY <1>1, <1>2 DEF AgentTyped, ReadTo, ScansWithin
<1>4. pass' \in [Passes -> PassState] /\ \A q \in Passes : PassWithin(pass'[q], w)
  <2>1. [pc |-> "begun", from |-> cursor + 1] \in PassState /\ Idle \in PassState
    BY <1>3 DEF PassState
  <2>2. PassWithin([pc |-> "begun", from |-> cursor + 1], w) /\ PassWithin(Idle, w)
    BY <1>3 DEF PassWithin, Idle
  <2>3. \A q \in Passes : PassWithin(pass[q], w)
    BY <1>2 DEF ReadTo, ScansWithin
  <2> QED
    BY <1>1, <2>1, <2>2, <2>3 DEF AgentTyped
<1>5. AgentTyped'
  BY <1>1, <1>4 DEF AgentTyped, chain, store
<1>6. RowsPlaced'
  BY <1>1 DEF LeafInv, RowsPlaced, Placed, store
<1>7. LeafLogs' = LeafLogs /\ LeavesNumbered' /\ head' = head
  BY <1>1, SameLeaves DEF chain
<1>8. ReadTo(w)'
  BY <1>1, <1>2, <1>3, <1>4, <1>7 DEF ReadTo, HoldsTo, ScansWithin, PassWithin, store
<1> QED
  BY <1>5, <1>6, <1>7, <1>8 DEF LeafInv

\* No scan leaves out a block that none has read before, so what it adds to the
\* table goes on where the table ends.
LEMMA GatherKeeps ==
  ASSUME LeafInv, NEW p \in Passes, Gather(p)
  PROVE  LeafInv'
<1>0. AgentTyped /\ LeavesNumbered /\ At(p, "begun")
      /\ UNCHANGED <<chain, notes, cursor, command>>
  BY DEF LeafInv, Gather
<1>1. PICK w \in 0 .. head : ReadTo(w)
  BY DEF LeafInv
<1>2. w \in Nat /\ head \in Nat /\ cursor \in 0 .. w
  BY <1>0, <1>1 DEF AgentTyped, ReadTo, ScansWithin
<1>3. pass \in [Passes -> PassState] /\ pass[p].from \in 1 .. w + 1
  BY <1>0, <1>1 DEF AgentTyped, ReadTo, ScansWithin, PassWithin, At
<1>4. LeafLogs' = LeafLogs /\ LeavesNumbered' /\ head' = head
  BY <1>0, SameLeaves DEF chain
<1>5. ASSUME pass' = [pass EXCEPT ![p] = Idle], UNCHANGED leaves
      PROVE  LeafInv'
  <2>1. pass' \in [Passes -> PassState] /\ \A q \in Passes : PassWithin(pass'[q], w)
    BY <1>1, <1>3, <1>5 DEF PassState, PassWithin, ReadTo, ScansWithin, Idle
  <2>2. AgentTyped'
    BY <1>0, <2>1 DEF AgentTyped, chain
  <2>3. RowsPlaced'
    BY <1>0, <1>5 DEF LeafInv, RowsPlaced, Placed
  <2>4. ReadTo(w)'
    BY <1>0, <1>1, <1>2, <1>4, <1>5, <2>1 DEF ReadTo, HoldsTo, ScansWithin
  <2> QED
    BY <1>4, <2>2, <2>3, <2>4 DEF LeafInv
<1>6. ASSUME NEW to \in pass[p].from .. head,
             InsertLeaves(InRange("LeafInserted", pass[p].from, to)),
             pass' = [pass EXCEPT ![p] =
               [pc |-> "handling", from |-> pass[p].from, to |-> to,
                todo |-> InRange("ShieldQueued", pass[p].from, to)
                           \cup InRange("NotePayload", pass[p].from, to)]]
      PROVE  LeafInv'
  <2> DEFINE from == pass[p].from
             found == InRange("LeafInserted", from, to)
             v == IF to > w THEN to ELSE w
             r == [pc |-> "handling", from |-> from, to |-> to,
                   todo |-> InRange("ShieldQueued", from, to)
                              \cup InRange("NotePayload", from, to)]
  <2>1. to \in Nat /\ from \in Nat /\ 1 <= to /\ to <= v /\ w <= v /\ v \in 0 .. head
    BY <1>2, <1>3
  <2>2. found = {l \in LeafLogs : l.block \in from .. to}
    BY DEF InRange, LeafLogs
  <2>3. leaves' = [i \in DOMAIN leaves \cup {l.leaf : l \in found} |->
                     IF i \in DOMAIN leaves THEN leaves[i]
                     ELSE (CHOOSE l \in found : l.leaf = i).note]
    BY <1>6 DEF InsertLeaves
  <2>4. /\ DOMAIN leaves' = DOMAIN leaves \cup {l.leaf : l \in found}
        /\ \A i \in DOMAIN leaves : leaves'[i] = leaves[i]
    BY <2>3
  <2>5. HoldsTo(w)
    BY <1>1 DEF ReadTo
  <2>6. ASSUME NEW l \in LeafLogs, l.block <= v
        PROVE  l.leaf \in DOMAIN leaves' /\ leaves'[l.leaf] = l.note
    <3>0. l.block \in Nat
      BY <1>0, <1>2 DEF LeavesNumbered
    <3>1. CASE l.block <= w
      BY <2>4, <2>5, <3>1 DEF HoldsTo
    <3>2. CASE l.block > w
      <4>1. l \in found
        BY <1>2, <1>3, <2>1, <2>2, <2>6, <3>0, <3>2
      <4>2. l.leaf \notin DOMAIN leaves
        BY <1>0, <1>2, <2>5, <3>0, <3>2 DEF HoldsTo, LeavesNumbered
      <4>3. (CHOOSE m \in found : m.leaf = l.leaf) = l
        BY <1>0, <2>2, <4>1 DEF LeavesNumbered
      <4> QED
        BY <2>3, <4>1, <4>2, <4>3
    <3> QED
      BY <1>2, <3>0, <3>1, <3>2
  <2>7. ASSUME NEW i \in DOMAIN leaves'
        PROVE  \E l \in LeafLogs : l.leaf = i /\ l.block <= v
    <3>1. CASE i \in DOMAIN leaves
      <4>1. PICK l \in LeafLogs : l.leaf = i /\ l.block <= w
        BY <2>5, <3>1 DEF HoldsTo
      <4>2. l.block \in Nat
        BY <1>0, <1>2 DEF LeavesNumbered
      <4> QED
        BY <1>2, <2>1, <4>1, <4>2
    <3>2. CASE i \in {l.leaf : l \in found}
      <4>1. PICK l \in LeafLogs : l.leaf = i /\ l.block \in from .. to
        BY <2>2, <3>2
      <4> QED
        BY <1>2, <2>1, <4>1
    <3> QED
      BY <2>4, <3>1, <3>2
  <2>8. HoldsTo(v)'
    BY <1>4, <2>6, <2>7 DEF HoldsTo
  <2>9. pass' \in [Passes -> PassState] /\ \A q \in Passes : PassWithin(pass'[q], v)
    <3>1. r.todo \subseteq LogRow
      BY <1>0, LogsAreSequence DEF InRange
    <3>2. r \in PassState
      BY <2>1, <3>1 DEF PassState
    <3>3. PassWithin(r, v)
      BY <1>2, <1>3, <2>1 DEF PassWithin
    <3>4. \A q \in Passes : PassWithin(pass[q], v)
      <4>1. \A q \in Passes : PassWithin(pass[q], w)
        BY <1>1 DEF ReadTo, ScansWithin
      <4>2. \A x \in 1 .. w + 1 : x \in 1 .. v + 1
        BY <1>2, <2>1
      <4>3. \A x \in 1 .. w : x \in 1 .. v
        BY <1>2, <2>1
      <4> QED
        BY <4>1, <4>2, <4>3 DEF PassWithin
    <3>5. pass' = [pass EXCEPT ![p] = r]
      BY <1>6
    <3> HIDE DEF r
    <3> QED
      BY <1>3, <3>2, <3>3, <3>4, <3>5
  <2>10. ReadTo(v)'
    <3>1. cursor \in 0 .. v
      BY <1>2, <2>1
    <3> QED
      BY <1>0, <2>8, <2>9, <3>1 DEF ReadTo, ScansWithin
  <2>11. AgentTyped'
    BY <1>0, <2>9 DEF AgentTyped, chain
  <2>12. RowsPlaced'
    BY <1>0, <2>4 DEF LeafInv, RowsPlaced, Placed
  <2> QED
    BY <1>4, <2>1, <2>10, <2>11, <2>12 DEF LeafInv
<1> QED
  BY <1>5, <1>6 DEF Gather, Goto

\* The leaf index that a scan finds for a note is that of a leaf it has stored.
LEMMA IndexIsPlaced ==
  ASSUME LeafInv, NEW p \in Passes, At(p, "handling"), NEW note
  PROVE  /\ LeafIndex(p, note) \in Int
         /\ LeafIndex(p, note) # None => Placed(note, LeafIndex(p, note))
<1>1. PICK w \in 0 .. head : ReadTo(w)
  BY DEF LeafInv
<1>2. AgentTyped /\ LeavesNumbered /\ head \in Nat
  BY DEF LeafInv, AgentTyped
<1>3. pass[p].to \in 1 .. w
  BY <1>1 DEF ReadTo, ScansWithin, PassWithin, At
<1>4. pass[p].from \in Int
  BY <1>1 DEF ReadTo, ScansWithin, PassWithin, At
<1>5. CASE ~Has(p, "LeafInserted", note)
  BY <1>5 DEF LeafIndex, None
<1>6. CASE Has(p, "LeafInserted", note)
  <2> DEFINE l == CHOOSE x \in Found(p, "LeafInserted") : x.note = note
  <2>1. l \in Found(p, "LeafInserted") /\ l.note = note
    BY <1>6 DEF Has
  <2>2. l \in LeafLogs /\ l.block \in pass[p].from .. pass[p].to
    BY <2>1 DEF Found, InRange, LeafLogs
  <2>3. LeafIndex(p, note) = l.leaf
    BY <1>6 DEF LeafIndex
  <2> HIDE DEF l
  <2>4. l.block \in Int /\ l.leaf \in Int
    BY <1>2, <2>2, LogsAreSequence DEF LeafLogs, LogRow
  <2>5. l.block <= w
    BY <1>2, <1>3, <1>4, <2>2, <2>4
  <2> QED
    BY <1>1, <2>1, <2>2, <2>3, <2>4, <2>5 DEF ReadTo, HoldsTo, Placed
<1> QED
  BY <1>5, <1>6

LEMMA HandleKeeps ==
  ASSUME LeafInv, NEW p \in Passes, Handle(p)
  PROVE  LeafInv'
<1>0. AgentTyped /\ At(p, "handling") /\ UNCHANGED <<chain, leaves, cursor, command>>
  BY DEF LeafInv, Handle
<1>1. PICK l \in pass[p].todo, state \in States :
        /\ notes' = Put(notes, l.note, [state |-> state, leaf |-> LeafIndex(p, l.note)])
        /\ pass' = [pass EXCEPT ![p] = [pass[p] EXCEPT !.todo = @ \ {l}]]
  <2>1. PICK l \in pass[p].todo :
          /\ UpsertNote(l.note,
               IF l.event = "ShieldQueued" THEN ShieldState(p, l.note) ELSE "spendable",
               LeafIndex(p, l.note))
          /\ pass' = [pass EXCEPT ![p] = [pass[p] EXCEPT !.todo = @ \ {l}]]
    BY DEF Handle, Goto
  <2>2. (IF l.event = "ShieldQueued" THEN ShieldState(p, l.note) ELSE "spendable") \in States
    BY DEF ShieldState, States
  <2> QED
    BY <2>1, <2>2 DEF UpsertNote
<1>2. PICK w \in 0 .. head : ReadTo(w)
  BY DEF LeafInv
<1>3. /\ pass[p] \in [pc : {"handling"}, from : Nat, to : Nat, todo : SUBSET LogRow]
      /\ pass \in [Passes -> PassState]
  BY <1>0 DEF AgentTyped, PassState, At, Idle
<1>4. l.note \in Int
  BY <1>1, <1>3 DEF LogRow
<1> DEFINE r == [pass[p] EXCEPT !.todo = @ \ {l}]
<1>5. /\ r \in [pc : {"handling"}, from : Nat, to : Nat, todo : SUBSET LogRow]
      /\ r.from = pass[p].from /\ r.to = pass[p].to /\ r.pc = "handling"
  BY <1>3
<1>6. pass' \in [Passes -> PassState] /\ \A q \in Passes : PassWithin(pass'[q], w)
  <2>1. r \in PassState
    BY <1>5 DEF PassState
  <2>2. \A q \in Passes : PassWithin(pass[q], w)
    BY <1>2 DEF ReadTo, ScansWithin
  <2>3. PassWithin(r, w)
    BY <1>0, <1>5, <2>2 DEF PassWithin, At
  <2> HIDE DEF r
  <2>4. pass' = [pass EXCEPT ![p] = r]
    BY <1>1 DEF r
  <2> QED
    BY <1>3, <2>1, <2>2, <2>3, <2>4
<1> DEFINE row == [state |-> state, leaf |-> LeafIndex(p, l.note)]
<1>7. /\ DOMAIN notes' = DOMAIN notes \cup {l.note}
      /\ \A n \in DOMAIN notes' : notes'[n] = IF n = l.note THEN row ELSE notes[n]
      /\ notes' = [n \in DOMAIN notes' |-> notes'[n]]
  BY <1>1 DEF Put
<1>8. row \in NoteRow
  BY <1>0, IndexIsPlaced DEF NoteRow
<1>9. AgentTyped'
  <2>1. DOMAIN notes' \subseteq Int /\ notes' \in [DOMAIN notes' -> NoteRow]
    <3> HIDE DEF row
    <3> QED
      BY <1>0, <1>4, <1>7, <1>8 DEF AgentTyped
  <2> QED
    BY <1>0, <1>6, <2>1 DEF AgentTyped, chain
<1>10. RowsPlaced'
  <2>1. row.leaf # None => Placed(l.note, row.leaf)
    BY <1>0, IndexIsPlaced
  <2> HIDE DEF row
  <2>2. \A n \in DOMAIN notes : notes[n].leaf # None => Placed(n, notes[n].leaf)
    BY DEF LeafInv, RowsPlaced
  <2>3. \A n \in DOMAIN notes' : notes'[n].leaf # None => Placed(n, notes'[n].leaf)
    BY <1>7, <2>1, <2>2
  <2> QED
    BY <1>0, <2>3 DEF LeafInv, RowsPlaced, Placed
<1>11. LeafLogs' = LeafLogs /\ LeavesNumbered' /\ head' = head
  BY <1>0, SameLeaves DEF chain
<1>12. ReadTo(w)'
  BY <1>0, <1>2, <1>6, <1>11 DEF ReadTo, HoldsTo, ScansWithin
<1> QED
  BY <1>9, <1>10, <1>11, <1>12 DEF LeafInv

\* A table whose rows have the leaf indexes they had, or none, is as good.
LEMMA RowsStay ==
  ASSUME LeafInv, DOMAIN notes' \subseteq Int, notes' \in [DOMAIN notes' -> NoteRow],
         \A n \in DOMAIN notes' :
           notes'[n].leaf # None => n \in DOMAIN notes /\ notes'[n].leaf = notes[n].leaf,
         UNCHANGED <<chain, leaves>>, command' \in {command, Idle},
         pass' \in [Passes -> PassState],
         \A p \in Passes : pass'[p] \in {pass[p], Idle},
         cursor' = cursor \/ \E p \in Passes : At(p, "handling") /\ cursor' = pass[p].to
  PROVE  LeafInv'
<1>0. AgentTyped
  BY DEF LeafInv
<1>1. PICK w \in 0 .. head : ReadTo(w)
  BY DEF LeafInv
<1>2. w \in Nat /\ cursor' \in 0 .. w
  <2>1. w \in Nat
    BY <1>0, <1>1 DEF AgentTyped
  <2>2. CASE cursor' = cursor
    BY <1>1, <2>1, <2>2 DEF ReadTo, ScansWithin
  <2>3. CASE \E p \in Passes : At(p, "handling") /\ cursor' = pass[p].to
    BY <1>1, <2>1, <2>3 DEF ReadTo, ScansWithin, PassWithin, At
  <2> QED
    BY <2>1, <2>2, <2>3
<1>3. LeafLogs' = LeafLogs /\ LeavesNumbered' /\ head' = head
  BY SameLeaves DEF chain
<1>4. ReadTo(w)'
  <2>1. \A p \in Passes : PassWithin(pass'[p], w)
    BY <1>1 DEF ReadTo, ScansWithin, PassWithin, Idle
  <2> QED
    BY <1>1, <1>2, <1>3, <2>1 DEF ReadTo, HoldsTo, ScansWithin
<1>5. RowsPlaced'
  BY DEF LeafInv, RowsPlaced, Placed, Idle
<1>6. AgentTyped'
  BY <1>0, <1>2 DEF AgentTyped, CommandState, chain
<1> QED
  BY <1>3, <1>4, <1>5, <1>6 DEF LeafInv

LEMMA FinishKeeps ==
  ASSUME LeafInv, NEW p \in Passes, Finish(p)
  PROVE  LeafInv'
<1>0. AgentTyped /\ UNCHANGED <<chain, leaves, command>>
  BY DEF LeafInv, Finish
<1>1. /\ \E seen \in SUBSET Seen(p) : Mark(seen)
      /\ At(p, "handling") /\ cursor' \in {cursor, pass[p].to}
      /\ pass' = [pass EXCEPT ![p] = Idle]
  BY DEF Finish, ScannedTo, Goto
<1>2. \A n \in DOMAIN notes : Patched(notes, n)[n] = [notes[n] EXCEPT !.state = "spent"]
  BY <1>0 DEF Patched, AgentTyped
<1>3. \A n \in DOMAIN notes : /\ [notes[n] EXCEPT !.state = "spent"] \in NoteRow
                              /\ [notes[n] EXCEPT !.state = "spent"].leaf = notes[n].leaf
                              /\ notes[n] \in NoteRow
  BY <1>0 DEF AgentTyped, NoteRow, States
<1>4. /\ DOMAIN notes' = DOMAIN notes
      /\ \A n \in DOMAIN notes : notes'[n] \in {notes[n], [notes[n] EXCEPT !.state = "spent"]}
      /\ notes' = [n \in DOMAIN notes |-> notes'[n]]
  BY <1>1, <1>2 DEF Mark
<1>5. /\ DOMAIN notes' \subseteq Int /\ notes' \in [DOMAIN notes' -> NoteRow]
      /\ \A n \in DOMAIN notes' : notes'[n].leaf = notes[n].leaf
  BY <1>0, <1>3, <1>4 DEF AgentTyped
<1>6. pass' \in [Passes -> PassState] /\ \A q \in Passes : pass'[q] \in {pass[q], Idle}
  BY <1>0, <1>1 DEF AgentTyped, PassState
<1> QED
  BY <1>0, <1>1, <1>4, <1>5, <1>6, RowsStay

-----------------------------------------------------------------------------
(* What a command records *)

LEMMA RecordKeeps ==
  ASSUME LeafInv, RecordShield \/ RecordSpend
  PROVE  LeafInv'
<1>0. AgentTyped
  BY DEF LeafInv
<1>1. UNCHANGED <<chain, leaves, cursor, pass>> /\ command' = Idle
  BY DEF RecordShield, RecordSpend, Do
<1>2. /\ DOMAIN notes' \subseteq Int /\ notes' \in [DOMAIN notes' -> NoteRow]
      /\ \A n \in DOMAIN notes' :
           notes'[n].leaf # None => n \in DOMAIN notes /\ notes'[n].leaf = notes[n].leaf
  <2>1. CASE RecordShield
    <3>1. command.note \in Int
      BY <1>0, <2>1 DEF RecordShield, AgentTyped, CommandState, Idle
    <3>2. notes' = Put(notes, command.note, [state |-> "queued", leaf |-> None])
      BY <2>1 DEF RecordShield, UpsertNote
    <3>3. [state |-> "queued", leaf |-> None] \in NoteRow
      BY DEF NoteRow, States, None
    <3> QED
      BY <1>0, <3>1, <3>2, <3>3 DEF Put, AgentTyped
  <2>2. CASE RecordSpend
    <3>1. command.note \in Int /\ command.change \in Int
      BY <1>0, <2>2 DEF RecordSpend, AgentTyped, CommandState, Idle
    <3> DEFINE patched == Patched(notes, command.note)
    <3>2. /\ DOMAIN patched = DOMAIN notes /\ patched \in [DOMAIN notes -> NoteRow]
          /\ \A n \in DOMAIN notes : patched[n].leaf = notes[n].leaf
      BY <1>0 DEF Patched, AgentTyped, NoteRow, States
    <3> HIDE DEF patched
    <3>3. notes' = WithChange(patched, command.change)
      BY <2>2 DEF RecordSpend, patched
    <3>4. CASE command.change = None
      BY <1>0, <3>2, <3>3, <3>4 DEF WithChange, AgentTyped
    <3>5. CASE command.change # None
      <4>1. notes' = Put(patched, command.change, [state |-> "spendable", leaf |-> None])
        BY <3>3, <3>5 DEF WithChange
      <4>2. [state |-> "spendable", leaf |-> None] \in NoteRow
        BY DEF NoteRow, States, None
      <4> QED
        BY <1>0, <3>1, <3>2, <4>1, <4>2 DEF Put, AgentTyped
    <3> QED
      BY <3>4, <3>5
  <2> QED
    BY <2>1, <2>2
<1>3. pass' \in [Passes -> PassState] /\ \A q \in Passes : pass'[q] \in {pass[q], Idle}
  BY <1>0, <1>1 DEF AgentTyped
<1> QED
  BY <1>1, <1>2, <1>3, RowsStay

-----------------------------------------------------------------------------
(* The invariant *)

LEMMA InitLeaf ==
  ASSUME Init
  PROVE  LeafInv
<1>1. \A e : Of(e) = {}
  BY DEF Init, Of
<1>2. LeavesNumbered
  BY <1>1, FS_EmptySet DEF LeavesNumbered, LeafLogs, LeafCount
<1>3. AgentTyped
  <2>1. << >> \in Seq(LogRow) /\ << >> \in [DOMAIN << >> -> NoteRow] /\ DOMAIN << >> \subseteq Int
    OBVIOUS
  <2> QED
    BY <2>1 DEF Init, AgentTyped, PassState, CommandState
<1>4. RowsPlaced
  BY DEF Init, RowsPlaced, Idle
<1>5. ReadTo(0)
  BY <1>1 DEF Init, ReadTo, HoldsTo, LeafLogs, ScansWithin, PassWithin, Idle
<1>6. 0 \in 0 .. head
  BY DEF Init
<1> QED
  BY <1>2, <1>3, <1>4, <1>5, <1>6 DEF LeafInv

LEMMA StepLeaf ==
  ASSUME LeafInv, [Next]_vars
  PROVE  LeafInv'
<1>1. CASE MineShield
  BY <1>1, MineShieldKeeps
<1>2. CASE MineSpend
  BY <1>2, MineSpendKeeps
<1>3. CASE MineOther
  BY <1>3, MineOtherKeeps
<1>4. CASE Revert \/ Drop
  BY <1>4, PendingKeeps
<1>5. ASSUME NEW p \in Passes, Scan(p) \/ Abort(p)
      PROVE  LeafInv'
  <2>1. CASE Begin(p) \/ Abort(p)
    BY <2>1, StartStopKeeps
  <2>2. CASE Gather(p)
    BY <2>2, GatherKeeps
  <2>3. CASE Handle(p)
    BY <2>3, HandleKeeps
  <2>4. CASE Finish(p)
    BY <2>4, FinishKeeps
  <2> QED
    BY <1>5, <2>1, <2>2, <2>3, <2>4 DEF Scan
<1>6. CASE Shield \/ SendSpend \/ ProvingFails \/ Kill
  BY <1>6, CommandKeeps
<1>7. CASE Select
  BY <1>7, SelectKeeps
<1>8. CASE RecordShield \/ RecordSpend
  BY <1>8, RecordKeeps
<1>9. CASE UNCHANGED vars
  <2>1. LeafLogs' = LeafLogs /\ LeavesNumbered' /\ head' = head
    BY <1>9, SameLeaves DEF vars, chain
  <2>2. AgentTyped'
    BY <1>9 DEF vars, chain, store, LeafInv, AgentTyped
  <2>3. UNCHANGED store /\ pass' = pass /\ command' = command
    BY <1>9 DEF vars
  <2> QED
    BY <2>1, <2>2, <2>3, StoreStays
<1> QED
  BY <1>1, <1>2, <1>3, <1>4, <1>5, <1>6, <1>7, <1>8, <1>9 DEF Next

\* The table of leaves read as a tree of the chain.
LEMMA LeavesProve ==
  ASSUME LeafInv
  PROVE  SpendableProves
<1>0. AgentTyped /\ LeavesNumbered
  BY DEF LeafInv
<1>1. PICK w \in 0 .. head : ReadTo(w)
  BY DEF LeafInv
<1>2. w \in Nat /\ LeafCount \in Nat
  BY <1>0, <1>1, LeavesFinite DEF AgentTyped
<1>3. ASSUME NEW i \in DOMAIN leaves
      PROVE  /\ \A j \in 0 .. i : j \in DOMAIN leaves
             /\ leaves[i] = ChainLeaves[i]
  <2>1. PICK l \in LeafLogs : l.leaf = i /\ l.block <= w
    BY <1>1, <1>3 DEF ReadTo, HoldsTo
  <2>2. i \in 0 .. LeafCount - 1 /\ l.block \in Nat
    BY <1>0, <2>1 DEF LeavesNumbered, AgentTyped
  <2>3. ASSUME NEW j \in 0 .. i PROVE j \in DOMAIN leaves
    <3>1. j \in 0 .. LeafCount - 1
      BY <1>2, <2>2
    <3>2. PICK m \in LeafLogs : m.leaf = j
      BY <1>0, <3>1 DEF LeavesNumbered
    <3>3. m.block \in Nat
      BY <1>0, <3>2 DEF LeavesNumbered, AgentTyped
    <3>4. m.block <= l.block
      <4>1. CASE m.leaf < l.leaf
        BY <1>0, <2>1, <3>2, <4>1 DEF LeavesNumbered
      <4>2. CASE m.leaf = l.leaf
        <5>1. m = l
          BY <1>0, <2>1, <3>2, <4>2 DEF LeavesNumbered
        <5> QED
          BY <2>2, <5>1
      <4> QED
        BY <2>1, <2>2, <3>2, <4>1, <4>2
    <3>5. m.block <= w
      BY <1>2, <2>1, <2>2, <3>3, <3>4
    <3> QED
      BY <1>1, <3>2, <3>5 DEF ReadTo, HoldsTo
  <2>4. leaves[i] = l.note
    BY <1>1, <2>1 DEF ReadTo, HoldsTo
  <2>5. (CHOOSE x \in LeafLogs : x.leaf = i) = l
    BY <1>0, <2>1 DEF LeavesNumbered
  <2>6. ChainLeaves[i] = l.note
    BY <2>1, <2>5 DEF ChainLeaves, LeafLogs
  <2> QED
    BY <2>3, <2>4, <2>6
<1>4. command.pc = "proving" /\ command.leaf # None => Placed(command.note, command.leaf)
  BY DEF LeafInv, RowsPlaced
<1> QED
  BY <1>3, <1>4 DEF SpendableProves, Placed

\* However many scans overlap, whatever is aborted, killed, dropped or reverted:
\* the leaves in the agent's store are a prefix of the contract's tree, and the
\* note a command proves a spend of lies there at the index it was selected with
\* (sync.ts, intents.ts).
THEOREM SpendsProve == Spec => []SpendableProves
<1>1. Init => LeafInv
  BY InitLeaf
<1>2. LeafInv /\ [Next]_vars => LeafInv'
  BY StepLeaf
<1>3. LeafInv => SpendableProves
  BY LeavesProve
<1> QED
  BY <1>1, <1>2, <1>3, PTL DEF Spec

-----------------------------------------------------------------------------
(* The balance at rest *)

Shields == {tx \in pending : tx.call = "shield"}
Spends == {tx \in pending : tx.call = "spend"}
Shielding == {tx.note : tx \in Shields}
Spending == {tx.note : tx \in Spends}
Changing == {tx.change : tx \in Spends} \ {None}

\* The logs that tell this account of a note.
Announcing == Of("ShieldQueued") \cup Of("NotePayload")
Announced == Notes("ShieldQueued") \cup Notes("NotePayload")
Refunded == Notes("ShieldCancelled") \cup Notes("ShieldContested")

NotesKnown ==
  Landed \cup Announced \cup Spending \cup Changing \cup Shielding \subseteq 1 .. minted

\* A pending note is not on the chain, and one transaction makes it.
MadeOnce ==
  /\ Shielding \cap Changing = {}
  /\ (Shielding \cup Changing) \cap Announced = {}
  /\ \A tx, ty \in Shields : tx.note = ty.note => tx = ty
  /\ \A tx, ty \in Spends : tx.change = ty.change /\ tx.change # None => tx = ty

\* What becomes of a note on the chain.
NoteLives ==
  /\ Landed \subseteq Announced
  /\ Notes("ShieldQueued") \cap Notes("NotePayload") = {}
  /\ Refunded \subseteq Notes("ShieldQueued") /\ Landed \cap Refunded = {}
  /\ Burnt \cup Spending \subseteq Landed

\* A payload comes in the block of its leaf, a nullifier not before its note.
BlocksOrdered ==
  /\ \A e \in Events : \A l \in Of(e) : l.block \in 1 .. head
  /\ \A m \in Of("NotePayload") : \E l \in LeafLogs : l.note = m.note /\ l.block = m.block
  /\ \A l \in Of("NullifierUsed"), m \in Announcing : l.note = m.note => m.block <= l.block

ChainOK == NotesKnown /\ MadeOnce /\ NoteLives /\ BlocksOrdered

\* What a command is about to record is true, or its transaction is lost.
CommandOK ==
  /\ command.pc # "idle" => command.note \in 1 .. minted
  /\ command.pc = "proving" /\ command.leaf # None => command.note \in Landed
  /\ command.pc = "shielded" => command.note \notin Burnt \cup Spending
  /\ command.pc = "sent" =>
       /\ command.note \in Burnt \cup Spending \cup lost
       /\ command.change # None =>
            /\ command.change \in 1 .. minted
            /\ command.change \in Landed \cup Changing \cup lost
            /\ command.change \notin Burnt \cup Spending

\* Notes whose burning has begun.
InUse ==
  Burnt \cup Spending
    \cup {n \in Landed : command.pc = "proving" /\ command.leaf # None /\ command.note = n}

\* A scan has yet to act on this log.
Ahead(l) ==
  /\ l.block > cursor
  /\ \A p \in Passes : At(p, "handling") => l.block > pass[p].to \/ l \in pass[p].todo

\* The state of a row is justified by the chain, by a pending transaction or by
\* a lost one; what a row does not say yet, a scan has yet to read.
RowOK(n) ==
  /\ Stands(n, "spent") => n \in Burnt \cup Spending \cup lost
  /\ Stands(n, "cancelled") \/ Stands(n, "contested") => n \in Refunded
  /\ Stands(n, "spendable") =>
       /\ n \in Landed \cup Changing \cup lost
       /\ n \in InUse => notes[n].leaf # None
RowsOK ==
  /\ DOMAIN notes \subseteq 1 .. minted
  /\ \A n \in DOMAIN notes : RowOK(n)
  /\ \A l \in Of("NullifierUsed") : Stands(l.note, "spendable") => l.block > cursor
  /\ \A l \in Announcing : l.note \in DOMAIN notes \/ Ahead(l)

\* A scan reads on from the cursor.
ScanOK(r) ==
  /\ r.pc # "idle" => r.from = cursor + 1
  /\ r.pc = "handling" =>
       /\ r.to \in r.from .. head
       /\ r.todo \subseteq Announcing
       /\ \A l \in r.todo : l.block \in r.from .. r.to

QuietInv ==
  /\ ChainOK /\ CommandOK /\ RowsOK
  /\ cursor <= head /\ \A p \in Passes : ScanOK(pass[p])

-----------------------------------------------------------------------------
(* What the others do *)

\* The effect on the chain of a step that is neither a scan's nor a command's.
Outside ==
  /\ head' \in {head, head + 1} /\ minted' >= minted
  /\ Landed \subseteq Landed' /\ Refunded \subseteq Refunded' /\ lost \subseteq lost'
  /\ Burnt' \cup Spending' \subseteq Burnt \cup Spending
  /\ Burnt \cup Spending \subseteq Burnt' \cup Spending' \cup lost'
  /\ Changing \subseteq Changing' \cup Landed' \cup lost'
  /\ Announcing \subseteq Announcing'
  /\ \A l \in Announcing' \ Announcing : l.block = head + 1
  /\ \A l \in Of("NullifierUsed")' \ Of("NullifierUsed") : l.block = head + 1
  /\ UNCHANGED <<store, pass, command>>

LEMMA OutsideKeeps ==
  ASSUME AgentTyped, AgentTyped', QuietInv, ChainOK', Outside
  PROVE  QuietInv'
<1>0. /\ head \in Nat /\ head' \in Nat /\ minted \in Nat /\ minted' \in Nat
      /\ cursor \in Nat /\ cursor <= head
  BY DEF AgentTyped, QuietInv
<1>1. /\ notes' = notes /\ leaves' = leaves /\ cursor' = cursor
      /\ pass' = pass /\ command' = command
  BY DEF Outside, store
<1>2. 1 .. minted \subseteq 1 .. minted'
  BY <1>0 DEF Outside
<1>3. CommandOK'
  BY <1>1, <1>2 DEF QuietInv, CommandOK, Outside
<1>4. \A p \in Passes : ScanOK(pass[p])'
  <2> SUFFICES ASSUME NEW p \in Passes PROVE ScanOK(pass[p])'
    OBVIOUS
  <2>1. ScanOK(pass[p]) /\ pass[p] \in PassState
    BY DEF QuietInv, AgentTyped
  <2>2. pass[p].pc = "handling" =>
          /\ pass[p].to \in Nat /\ pass[p].from \in Nat
    BY <2>1 DEF PassState, Idle
  <2> QED
    BY <1>0, <1>1, <2>1, <2>2 DEF ScanOK, Outside
<1>5. \A n \in DOMAIN notes : RowOK(n)'
  <2>1. InUse' \subseteq InUse
    BY <1>1 DEF InUse, Outside, QuietInv, CommandOK
  <2>2. \A n \in DOMAIN notes : RowOK(n)
    BY DEF QuietInv, RowsOK
  <2> QED
    BY <1>1, <2>1, <2>2 DEF RowOK, Stands, Outside
<1>6. \A l \in Of("NullifierUsed")' : Stands(l.note, "spendable")' => l.block > cursor
  <2>1. \A l \in Of("NullifierUsed") : Stands(l.note, "spendable") => l.block > cursor
    BY DEF QuietInv, RowsOK
  <2>2. \A l \in Of("NullifierUsed")' \ Of("NullifierUsed") : l.block > cursor
    BY <1>0 DEF Outside
  <2> QED
    BY <1>1, <2>1, <2>2 DEF Stands
<1>7. \A l \in Announcing' : l.note \in DOMAIN notes \/ Ahead(l)'
  <2> SUFFICES ASSUME NEW l \in Announcing' PROVE l.note \in DOMAIN notes \/ Ahead(l)'
    OBVIOUS
  <2>1. CASE l \in Announcing
    BY <1>1, <2>1 DEF QuietInv, RowsOK, Ahead, At
  <2>2. CASE l \notin Announcing
    <3>1. l.block = head + 1
      BY <2>2 DEF Outside
    <3>2. \A p \in Passes : At(p, "handling") => pass[p].to <= head /\ pass[p].to \in Nat
      BY <1>0 DEF QuietInv, ScanOK, At, AgentTyped, PassState, Idle
    <3> QED
      BY <1>0, <1>1, <3>1, <3>2 DEF Ahead, At
  <2> QED
    BY <2>1, <2>2
<1>8. RowsOK'
  BY <1>1, <1>2, <1>5, <1>6, <1>7 DEF RowsOK, QuietInv
<1>9. cursor' <= head'
  BY <1>0, <1>1 DEF Outside
<1> QED
  BY <1>3, <1>4, <1>8, <1>9 DEF QuietInv

LEMMA Emission ==
  ASSUME AgentTyped, NEW new \in Seq(LogRow), Mine(new),
         NEW N, N = {new[i] : i \in DOMAIN new}
  PROVE  /\ \A e : Of(e)' = Of(e) \cup {l \in N : l.event = e}
         /\ \A e : Notes(e)' = Notes(e) \cup {l.note : l \in {m \in N : m.event = e}}
         /\ head' = head + 1 /\ UNCHANGED <<lost, store, pass, command>>
<1>1. logs' = logs \o new /\ head' = head + 1 /\ UNCHANGED <<lost, store, pass, command>>
  BY DEF Mine
<1>2. \A e : Of(e)' = Of(e) \cup {l \in N : l.event = e}
  BY <1>1, NewLogs
<1> QED
  BY <1>1, <1>2 DEF Notes

LEMMA EmissionOfOne ==
  ASSUME AgentTyped, NEW a \in LogRow, Mine(<<a>>)
  PROVE  /\ \A e : Of(e)' = IF e = a.event THEN Of(e) \cup {a} ELSE Of(e)
         /\ \A e : Notes(e)' = IF e = a.event THEN Notes(e) \cup {a.note} ELSE Notes(e)
         /\ head' = head + 1 /\ UNCHANGED <<lost, store, pass, command>>
<1>1. <<a>> \in Seq(LogRow) /\ {<<a>>[i] : i \in DOMAIN <<a>>} = {a}
  OBVIOUS
<1>2. \A e : {l \in {a} : l.event = e} = IF e = a.event THEN {a} ELSE {}
  OBVIOUS
<1>3. /\ \A e : Of(e)' = Of(e) \cup {l \in {a} : l.event = e}
      /\ head' = head + 1 /\ UNCHANGED <<lost, store, pass, command>>
  BY <1>1, Emission
<1>4. \A e : Of(e)' = IF e = a.event THEN Of(e) \cup {a} ELSE Of(e)
  BY <1>2, <1>3
<1> QED
  BY <1>3, <1>4 DEF Notes

LEMMA EmissionOfTwo ==
  ASSUME AgentTyped, NEW a \in LogRow, NEW b \in LogRow, a.event # b.event, Mine(<<a, b>>)
  PROVE  /\ \A e : Of(e)' = IF e = a.event THEN Of(e) \cup {a}
                           ELSE IF e = b.event THEN Of(e) \cup {b} ELSE Of(e)
         /\ \A e : Notes(e)' = IF e = a.event THEN Notes(e) \cup {a.note}
                              ELSE IF e = b.event THEN Notes(e) \cup {b.note} ELSE Notes(e)
         /\ head' = head + 1 /\ UNCHANGED <<lost, store, pass, command>>
<1>1. <<a, b>> \in Seq(LogRow)
  OBVIOUS
<1>2. {<<a, b>>[i] : i \in DOMAIN <<a, b>>} = {a, b}
  <2>1. DOMAIN <<a, b>> = {1, 2} /\ <<a, b>>[1] = a /\ <<a, b>>[2] = b
    OBVIOUS
  <2> QED
    BY <2>1
<1>3. /\ \A e : Of(e)' = Of(e) \cup {l \in {a, b} : l.event = e}
      /\ head' = head + 1 /\ UNCHANGED <<lost, store, pass, command>>
  BY <1>1, <1>2, Emission
<1>4. \A e : Of(e)' = IF e = a.event THEN Of(e) \cup {a}
                     ELSE IF e = b.event THEN Of(e) \cup {b} ELSE Of(e)
  <2>1. \A e : {l \in {a, b} : l.event = e} =
               IF e = a.event THEN {a} ELSE IF e = b.event THEN {b} ELSE {}
    OBVIOUS
  <2> QED
    BY <1>3, <2>1
<1> QED
  BY <1>3, <1>4 DEF Notes

LEMMA MineShieldQuiet ==
  ASSUME AgentTyped, AgentTyped', QuietInv, MineShield
  PROVE  QuietInv'
<1>1. PICK tx \in Shields :
        pending' = pending \ {tx} /\ Mine(<<Log("ShieldQueued", tx.note)>>) /\ minted' = minted
  BY DEF MineShield, Shields
<1> DEFINE q == Log("ShieldQueued", tx.note)
<1>2. tx.note \in Int /\ head \in Nat /\ minted \in Nat
  BY DEF AgentTyped, Shields
<1>3. q \in LogRow /\ q.event = "ShieldQueued" /\ q.note = tx.note /\ q.block = head + 1
  BY <1>2, OtherRow DEF Events, Log
<1> HIDE DEF q
<1>4. Mine(<<q>>)
  BY <1>1 DEF q
<1>5. /\ Of("ShieldQueued")' = Of("ShieldQueued") \cup {q}
      /\ \A e \in Events \ {"ShieldQueued"} : Of(e)' = Of(e) /\ Notes(e)' = Notes(e)
      /\ Notes("ShieldQueued")' = Notes("ShieldQueued") \cup {tx.note}
      /\ head' = head + 1 /\ UNCHANGED <<lost, store, pass, command>>
  BY <1>3, <1>4, EmissionOfOne
<1>6. /\ Landed' = Landed /\ Burnt' = Burnt /\ Refunded' = Refunded /\ LeafLogs' = LeafLogs
      /\ Of("NullifierUsed")' = Of("NullifierUsed") /\ Of("NotePayload")' = Of("NotePayload")
      /\ Notes("NotePayload")' = Notes("NotePayload")
      /\ Announcing' = Announcing \cup {q} /\ Announced' = Announced \cup {tx.note}
  BY <1>5 DEF Events, Landed, Burnt, Refunded, LeafLogs, Announcing, Announced
<1>7. /\ Spends' = Spends /\ Shields' = Shields \ {tx}
      /\ Spending' = Spending /\ Changing' = Changing
  BY <1>1 DEF Spends, Shields, Spending, Changing
<1>8. Shielding' = Shielding \ {tx.note} /\ tx.note \in Shielding
  BY <1>7 DEF QuietInv, ChainOK, MadeOnce, Shielding
<1>9. tx.note \notin Announced \cup Changing /\ tx.note \notin Burnt /\ tx.note \in 1 .. minted
  BY <1>8 DEF QuietInv, ChainOK, MadeOnce, NoteLives, NotesKnown
<1>10. ChainOK'
  <2>1. NotesKnown'
    BY <1>1, <1>6, <1>7, <1>8, <1>9 DEF NotesKnown, QuietInv, ChainOK
  <2>2. MadeOnce'
    BY <1>6, <1>7, <1>8, <1>9 DEF MadeOnce, QuietInv, ChainOK
  <2>3. NoteLives'
    BY <1>5, <1>6, <1>7, <1>9 DEF NoteLives, QuietInv, ChainOK, Announced
  <2>4. BlocksOrdered'
    <3>1. \A e \in Events : \A l \in Of(e)' : l.block \in 1 .. head'
      BY <1>2, <1>3, <1>5 DEF BlocksOrdered, QuietInv, ChainOK
    <3>2. \A l \in Of("NullifierUsed") : l.note # tx.note
      BY <1>2, <1>9 DEF Burnt, Notes, Foreign
    <3> QED
      BY <1>3, <1>6, <3>1, <3>2 DEF BlocksOrdered, QuietInv, ChainOK
  <2> QED
    BY <2>1, <2>2, <2>3, <2>4 DEF ChainOK
<1>11. Outside
  BY <1>1, <1>2, <1>3, <1>5, <1>6, <1>7 DEF Outside
<1> QED
  BY <1>10, <1>11, OutsideKeeps

LEMMA MineSpendQuiet ==
  ASSUME AgentTyped, AgentTyped', QuietInv, MineSpend
  PROVE  QuietInv'
<1>1. PICK tx \in Spends, k \in {0, 1}, new \in Seq(LogRow) :
        /\ tx.note \notin Burnt /\ pending' = pending \ {tx} /\ minted' = minted /\ Mine(new)
        /\ {new[i] : i \in DOMAIN new} =
             {Log("NullifierUsed", tx.note)}
               \cup (IF k = 0 THEN {} ELSE {Leaf(Foreign, 0)})
               \cup (IF tx.change = None THEN {}
                     ELSE {Leaf(tx.change, k), Log("NotePayload", tx.change)})
  BY SpendEmits DEF Spends
<1>2. /\ tx.note \in Int /\ tx.change \in Int /\ Foreign \in Int
      /\ head \in Nat /\ minted \in Nat
  BY DEF AgentTyped, Spends, Foreign
<1> DEFINE burn == Log("NullifierUsed", tx.note)
           first == Leaf(Foreign, 0)
           next == Leaf(tx.change, k)
           rest == Log("NotePayload", tx.change)
           kept == IF tx.change = None THEN {} ELSE {tx.change}
           N == {burn} \cup (IF k = 0 THEN {} ELSE {first})
                  \cup (IF tx.change = None THEN {} ELSE {next, rest})
<1>3. /\ burn \in LogRow /\ burn.event = "NullifierUsed"
      /\ burn.note = tx.note /\ burn.block = head + 1
      /\ rest \in LogRow /\ rest.event = "NotePayload"
      /\ rest.note = tx.change /\ rest.block = head + 1
  <2>1. /\ burn \in LogRow /\ burn.event = "NullifierUsed"
        /\ rest \in LogRow /\ rest.event = "NotePayload"
    BY <1>2, OtherRow DEF Events
  <2> QED
    BY <2>1 DEF Log
<1>4. /\ first.event = "LeafInserted" /\ first.note = Foreign /\ first.block = head + 1
      /\ next.event = "LeafInserted" /\ next.note = tx.change /\ next.block = head + 1
  BY DEF Leaf
<1>5. N = {new[i] : i \in DOMAIN new}
  BY <1>1
<1> HIDE DEF burn, first, next, rest, N
<1>6. /\ \A e : Of(e)' = Of(e) \cup {l \in N : l.event = e}
      /\ head' = head + 1 /\ UNCHANGED <<lost, store, pass, command>>
  <2>1. Mine(new) /\ new \in Seq(LogRow)
    BY <1>1
  <2>2. /\ \A e : Of(e)' = Of(e) \cup {l \in {new[i] : i \in DOMAIN new} : l.event = e}
        /\ head' = head + 1 /\ UNCHANGED <<lost, store, pass, command>>
    BY <2>1, Emission
  <2> QED
    BY <1>5, <2>2
<1>7. \A l \in N : l.block = head + 1
  BY <1>3, <1>4 DEF N
<1>8. /\ {l \in N : l.event = "NullifierUsed"} = {burn}
      /\ {l \in N : l.event = "NotePayload"} = IF tx.change = None THEN {} ELSE {rest}
      /\ {l \in N : l.event = "LeafInserted"} =
           (IF k = 0 THEN {} ELSE {first}) \cup (IF tx.change = None THEN {} ELSE {next})
      /\ {l \in N : l.event = "ShieldQueued"} = {}
      /\ {l \in N : l.event = "ShieldCancelled"} = {}
      /\ {l \in N : l.event = "ShieldContested"} = {}
  BY <1>3, <1>4 DEF N
<1>9. /\ Of("NullifierUsed")' = Of("NullifierUsed") \cup {burn}
      /\ Of("NotePayload")' = Of("NotePayload") \cup IF tx.change = None THEN {} ELSE {rest}
      /\ Of("ShieldQueued")' = Of("ShieldQueued")
      /\ Of("ShieldCancelled")' = Of("ShieldCancelled")
      /\ Of("ShieldContested")' = Of("ShieldContested")
      /\ LeafLogs' = LeafLogs \cup (IF k = 0 THEN {} ELSE {first})
                        \cup (IF tx.change = None THEN {} ELSE {next})
  BY <1>6, <1>8 DEF LeafLogs
<1>10. /\ Burnt' = Burnt \cup {tx.note}
       /\ Notes("NotePayload")' = Notes("NotePayload") \cup kept
       /\ Notes("ShieldQueued")' = Notes("ShieldQueued")
       /\ Refunded' = Refunded
       /\ Landed' = Landed \cup (kept \ {Foreign})
  <2>1. Burnt' = Burnt \cup {tx.note}
    <3>1. tx.note \in Spending
      BY DEF Spending
    <3>2. tx.note # Foreign
      BY <3>1 DEF QuietInv, ChainOK, NoteLives, Landed
    <3> QED
      BY <1>3, <1>9, <3>2 DEF Burnt, Notes
  <2>2. Notes("NotePayload")' = Notes("NotePayload") \cup kept
    BY <1>3, <1>9 DEF Notes
  <2>3. Notes("ShieldQueued")' = Notes("ShieldQueued") /\ Refunded' = Refunded
    BY <1>9 DEF Notes, Refunded
  <2>4. Landed' = {l.note : l \in LeafLogs'} \ {Foreign} /\ Landed = {l.note : l \in LeafLogs} \ {Foreign}
    BY DEF Landed, Notes, LeafLogs
  <2>5. {l.note : l \in LeafLogs'} =
          {l.note : l \in LeafLogs} \cup (IF k = 0 THEN {} ELSE {Foreign}) \cup kept
    BY <1>4, <1>9
  <2> QED
    BY <2>1, <2>2, <2>3, <2>4, <2>5
<1>11. /\ Announcing' = Announcing \cup IF tx.change = None THEN {} ELSE {rest}
       /\ Announced' = Announced \cup kept
  BY <1>9, <1>10 DEF Announcing, Announced
<1>12. /\ Shields' = Shields /\ Spends' = Spends \ {tx} /\ Shielding' = Shielding
  BY <1>1 DEF Spends, Shields, Shielding
<1>13. /\ Spending' \subseteq Spending /\ Spending \subseteq Spending' \cup {tx.note}
       /\ Changing' \subseteq Changing /\ Changing \subseteq Changing' \cup kept
       /\ kept \subseteq Changing
  BY <1>12 DEF Spending, Changing
<1>14. kept \cap Changing' = {}
  BY <1>12 DEF QuietInv, ChainOK, MadeOnce, Changing
<1>15. tx.note \in Spending /\ tx.note \in Landed
  <2>1. tx.note \in Spending
    BY DEF Spending
  <2> QED
    BY <2>1 DEF QuietInv, ChainOK, NoteLives
<1>16. kept \subseteq 1 .. minted /\ kept \cap (Announced \cup Landed) = {} /\ Foreign \notin kept
  BY <1>13 DEF QuietInv, ChainOK, MadeOnce, NoteLives, NotesKnown, Foreign
<1>17. ChainOK'
  <2>1. NotesKnown'
    BY <1>1, <1>10, <1>11, <1>12, <1>13, <1>16 DEF NotesKnown, QuietInv, ChainOK
  <2>2. MadeOnce'
    <3>1. MadeOnce
      BY DEF QuietInv, ChainOK
    <3> QED
      BY <3>1, <1>11, <1>12, <1>13, <1>14 DEF MadeOnce
  <2>3. NoteLives'
    <3>1. NoteLives
      BY DEF QuietInv, ChainOK
    <3>2. kept \cap (Notes("ShieldQueued") \cup Refunded) = {}
      BY <3>1, <1>16 DEF NoteLives, Announced
    <3> HIDE DEF kept
    <3> QED
      BY <3>1, <3>2, <1>10, <1>11, <1>13, <1>15 DEF NoteLives
  <2>4. BlocksOrdered'
    <3>0. BlocksOrdered
      BY DEF QuietInv, ChainOK
    <3>1. \A e \in Events : \A l \in Of(e)' : l.block \in 1 .. head'
      BY <3>0, <1>2, <1>6, <1>7 DEF BlocksOrdered
    <3>2. \A m \in Of("NotePayload")' : \E l \in LeafLogs' : l.note = m.note /\ l.block = m.block
      <4>1. \A m \in Of("NotePayload") : \E l \in LeafLogs' : l.note = m.note /\ l.block = m.block
        BY <3>0, <1>9 DEF BlocksOrdered
      <4>2. tx.change # None => next \in LeafLogs'
        BY <1>9
      <4> QED
        BY <4>1, <4>2, <1>3, <1>4, <1>9
    <3>3. ASSUME NEW l \in Of("NullifierUsed")', NEW m \in Announcing', l.note = m.note
          PROVE  m.block <= l.block
      <4>1. CASE l = burn
        <5>1. \A x \in Announcing' : x.block \in 1 .. head'
          BY <3>1 DEF Announcing, Events
        <5> QED
          BY <1>2, <1>3, <1>6, <4>1, <5>1
      <4>2. CASE l \in Of("NullifierUsed")
        <5>0. l.note # Foreign
          <6>0. m \in Announcing \/ (tx.change # None /\ m = rest)
            BY <1>11
          <6>1. m.note \in Announced \cup kept
            BY <1>3, <6>0 DEF Announcing, Announced, Notes
          <6>2. m.note \in 1 .. minted
            BY <1>16, <6>1 DEF QuietInv, ChainOK, NotesKnown
          <6> QED
            BY <3>3, <6>2 DEF Foreign
        <5>1. l.note \in Landed
          BY <4>2, <5>0 DEF QuietInv, ChainOK, NoteLives, Burnt, Notes
        <5>2. m \in Announcing
          BY <1>3, <1>11, <1>16, <3>3, <5>1
        <5> QED
          BY <3>0, <3>3, <4>2, <5>2 DEF BlocksOrdered
      <4> QED
        BY <1>9, <4>1, <4>2
    <3> QED
      BY <3>1, <3>2, <3>3 DEF BlocksOrdered
  <2> QED
    BY <2>1, <2>2, <2>3, <2>4 DEF ChainOK
<1>18. Outside
  <2>1. \A l \in Announcing' \ Announcing : l.block = head + 1
    BY <1>3, <1>11
  <2>2. \A l \in Of("NullifierUsed")' \ Of("NullifierUsed") : l.block = head + 1
    BY <1>3, <1>9
  <2>3. Changing \subseteq Changing' \cup Landed' \cup lost'
    BY <1>10, <1>13, <1>16
  <2>4. minted' >= minted
    BY <1>1, <1>2
  <2> QED
    BY <1>6, <1>10, <1>11, <1>13, <1>15, <2>1, <2>2, <2>3, <2>4 DEF Outside
<1> QED
  BY <1>17, <1>18, OutsideKeeps

LEMMA MineOtherQuiet ==
  ASSUME AgentTyped, AgentTyped', QuietInv, MineOther
  PROVE  QuietInv'
<1>0. /\ head \in Nat /\ minted \in Nat /\ minted + 1 \in Int /\ Foreign \in Int
      /\ ChainOK /\ NotesKnown /\ MadeOnce /\ NoteLives /\ BlocksOrdered
  BY DEF AgentTyped, Foreign, QuietInv, ChainOK
<1>1. \A note \in Waiting : /\ note \in Int /\ note \in 1 .. minted /\ note # Foreign
                           /\ note \in Notes("ShieldQueued") /\ note \notin Landed \cup Refunded
  BY <1>0 DEF Waiting, NotesKnown, Announced, Refunded, Foreign
<1>2. ASSUME UNCHANGED pending
      PROVE  /\ Shields' = Shields /\ Spends' = Spends /\ Shielding' = Shielding
             /\ Spending' = Spending /\ Changing' = Changing
  BY <1>2 DEF Shields, Spends, Shielding, Spending, Changing
<1>3. ASSUME NEW note \in Waiting, Mine(<<Leaf(note, 0), Log("ShieldExecuted", note)>>),
             UNCHANGED <<pending, minted>>
      PROVE  QuietInv'
  <2> DEFINE a == Leaf(note, 0)
             b == Log("ShieldExecuted", note)
  <2>1. /\ a \in LogRow /\ a.event = "LeafInserted" /\ a.note = note /\ a.block = head + 1
        /\ b \in LogRow /\ b.event = "ShieldExecuted" /\ b.block = head + 1
    BY <1>1, LeafRow, OtherRow DEF Events, Leaf, Log
  <2> HIDE DEF a, b
  <2>2. Mine(<<a, b>>)
    BY <1>3 DEF a, b
  <2>3. /\ \A e : Of(e)' = IF e = a.event THEN Of(e) \cup {a}
                          ELSE IF e = b.event THEN Of(e) \cup {b} ELSE Of(e)
        /\ \A e : Notes(e)' = IF e = a.event THEN Notes(e) \cup {a.note}
                             ELSE IF e = b.event THEN Notes(e) \cup {b.note} ELSE Notes(e)
        /\ head' = head + 1 /\ UNCHANGED <<lost, store, pass, command>>
    BY <2>1, <2>2, EmissionOfTwo
  <2>4. /\ LeafLogs' = LeafLogs \cup {a} /\ Landed' = Landed \cup {note}
        /\ Of("NullifierUsed")' = Of("NullifierUsed") /\ Of("NotePayload")' = Of("NotePayload")
        /\ Announcing' = Announcing /\ Announced' = Announced
        /\ Notes("ShieldQueued")' = Notes("ShieldQueued")
        /\ Notes("NotePayload")' = Notes("NotePayload")
        /\ Refunded' = Refunded /\ Burnt' = Burnt
    BY <1>1, <2>1, <2>3 DEF LeafLogs, Landed, Announcing, Announced, Refunded, Burnt
  <2>5. /\ Shields' = Shields /\ Spends' = Spends /\ Shielding' = Shielding
        /\ Spending' = Spending /\ Changing' = Changing
    BY <1>2, <1>3
  <2>6. NotesKnown' /\ MadeOnce' /\ NoteLives'
    BY <1>0, <1>1, <1>3, <2>4, <2>5 DEF NotesKnown, MadeOnce, NoteLives, Announced
  <2>7. BlocksOrdered'
    <3>1. \A e \in Events : \A l \in Of(e)' : l.block \in 1 .. head'
      BY <1>0, <2>1, <2>3 DEF BlocksOrdered
    <3> QED
      BY <1>0, <2>4, <3>1 DEF BlocksOrdered
  <2>8. Outside
    BY <1>0, <1>3, <2>3, <2>4, <2>5 DEF Outside
  <2> QED
    BY <2>6, <2>7, <2>8, OutsideKeeps DEF ChainOK
<1>4. ASSUME NEW note \in Waiting, NEW call \in Calls \cap DOMAIN Refunds,
             Mine(<<Log(Refunds[call], note)>>), UNCHANGED <<pending, minted>>
      PROVE  QuietInv'
  <2> DEFINE a == Log(Refunds[call], note)
  <2>0. Refunds[call] \in {"ShieldCancelled", "ShieldContested"}
    BY DEF Refunds
  <2>1. /\ a \in LogRow /\ a.event \in {"ShieldCancelled", "ShieldContested"}
        /\ a.note = note /\ a.block = head + 1
    <3>1. Refunds[call] \in Events
      BY <2>0 DEF Events
    <3> QED
      BY <1>1, <2>0, <3>1, OtherRow DEF Log
  <2> HIDE DEF a
  <2>2. Mine(<<a>>)
    BY <1>4 DEF a
  <2>3. /\ \A e : Of(e)' = IF e = a.event THEN Of(e) \cup {a} ELSE Of(e)
        /\ \A e : Notes(e)' = IF e = a.event THEN Notes(e) \cup {a.note} ELSE Notes(e)
        /\ head' = head + 1 /\ UNCHANGED <<lost, store, pass, command>>
    BY <2>1, <2>2, EmissionOfOne
  <2>4. /\ LeafLogs' = LeafLogs /\ Landed' = Landed
        /\ Of("NullifierUsed")' = Of("NullifierUsed") /\ Of("NotePayload")' = Of("NotePayload")
        /\ Announcing' = Announcing /\ Announced' = Announced
        /\ Notes("ShieldQueued")' = Notes("ShieldQueued")
        /\ Notes("NotePayload")' = Notes("NotePayload")
        /\ Refunded' = Refunded \cup {note} /\ Burnt' = Burnt
    BY <2>1, <2>3 DEF LeafLogs, Landed, Announcing, Announced, Refunded, Burnt
  <2>5. /\ Shields' = Shields /\ Spends' = Spends /\ Shielding' = Shielding
        /\ Spending' = Spending /\ Changing' = Changing
    BY <1>2, <1>4
  <2>6. NotesKnown' /\ MadeOnce' /\ NoteLives'
    BY <1>0, <1>1, <1>4, <2>4, <2>5 DEF NotesKnown, MadeOnce, NoteLives, Announced
  <2>7. BlocksOrdered'
    <3>1. \A e \in Events : \A l \in Of(e)' : l.block \in 1 .. head'
      BY <1>0, <2>1, <2>3 DEF BlocksOrdered
    <3> QED
      BY <1>0, <2>4, <3>1 DEF BlocksOrdered
  <2>8. Outside
    BY <1>0, <1>4, <2>3, <2>4, <2>5 DEF Outside
  <2> QED
    BY <2>6, <2>7, <2>8, OutsideKeeps DEF ChainOK
<1>5. ASSUME minted' = minted + 1, Mine(<<Leaf(minted + 1, 0), Log("NotePayload", minted + 1)>>),
             UNCHANGED pending
      PROVE  QuietInv'
  <2> DEFINE note == minted + 1
             a == Leaf(note, 0)
             b == Log("NotePayload", note)
  <2>1. /\ a \in LogRow /\ a.event = "LeafInserted" /\ a.note = note /\ a.block = head + 1
        /\ b \in LogRow /\ b.event = "NotePayload" /\ b.note = note /\ b.block = head + 1
    BY <1>0, LeafRow, OtherRow DEF Events, Leaf, Log
  <2>2. Mine(<<a, b>>)
    BY <1>5
  <2>3. /\ note \in 1 .. minted' /\ note \notin 1 .. minted /\ note # Foreign
        /\ \A n \in 1 .. minted : n \in 1 .. minted'
    BY <1>0, <1>5 DEF Foreign
  <2> HIDE DEF a, b, note
  <2>4. /\ \A e : Of(e)' = IF e = a.event THEN Of(e) \cup {a}
                          ELSE IF e = b.event THEN Of(e) \cup {b} ELSE Of(e)
        /\ \A e : Notes(e)' = IF e = a.event THEN Notes(e) \cup {a.note}
                             ELSE IF e = b.event THEN Notes(e) \cup {b.note} ELSE Notes(e)
        /\ head' = head + 1 /\ UNCHANGED <<lost, store, pass, command>>
    BY <2>1, <2>2, EmissionOfTwo
  <2>5. /\ LeafLogs' = LeafLogs \cup {a} /\ Landed' = Landed \cup {note}
        /\ Of("NullifierUsed")' = Of("NullifierUsed")
        /\ Of("NotePayload")' = Of("NotePayload") \cup {b}
        /\ Announcing' = Announcing \cup {b} /\ Announced' = Announced \cup {note}
        /\ Notes("ShieldQueued")' = Notes("ShieldQueued")
        /\ Notes("NotePayload")' = Notes("NotePayload") \cup {note}
        /\ Refunded' = Refunded /\ Burnt' = Burnt
    BY <2>1, <2>3, <2>4 DEF LeafLogs, Landed, Announcing, Announced, Refunded, Burnt
  <2>6. /\ Shields' = Shields /\ Spends' = Spends /\ Shielding' = Shielding
        /\ Spending' = Spending /\ Changing' = Changing
    BY <1>2, <1>5
  <2>7. note \notin Landed \cup Announced \cup Refunded \cup Burnt
                    \cup Spending \cup Changing \cup Shielding
    BY <1>0, <2>3 DEF NotesKnown, NoteLives, Announced
  <2>8. NotesKnown' /\ MadeOnce' /\ NoteLives'
    BY <1>0, <2>3, <2>5, <2>6, <2>7 DEF NotesKnown, MadeOnce, NoteLives, Announced
  <2>9. BlocksOrdered'
    <3>1. \A e \in Events : \A l \in Of(e)' : l.block \in 1 .. head'
      BY <1>0, <2>1, <2>4 DEF BlocksOrdered
    <3>2. \A l \in Of("NullifierUsed") : l.note # note
      BY <2>3, <2>7 DEF Burnt, Notes, Foreign
    <3> QED
      BY <1>0, <2>1, <2>5, <3>1, <3>2 DEF BlocksOrdered
  <2>10. Outside
    <3>1. minted' >= minted
      BY <1>0, <1>5
    <3> QED
      BY <2>1, <2>4, <2>5, <2>6, <3>1 DEF Outside
  <2> QED
    BY <2>8, <2>9, <2>10, OutsideKeeps DEF ChainOK
<1>6. ASSUME NEW burnt \in {<< >>, <<Log("NullifierUsed", Foreign)>>},
             Mine(burnt \o <<Leaf(Foreign, 0)>>), UNCHANGED <<pending, minted>>
      PROVE  QuietInv'
  <2> DEFINE a == Leaf(Foreign, 0)
             b == Log("NullifierUsed", Foreign)
  <2>1. /\ a \in LogRow /\ a.event = "LeafInserted" /\ a.note = Foreign /\ a.block = head + 1
        /\ b \in LogRow /\ b.event = "NullifierUsed" /\ b.note = Foreign /\ b.block = head + 1
    BY <1>0, LeafRow, OtherRow DEF Events, Leaf, Log
  <2>2. Mine(<<a>>) \/ Mine(<<b, a>>)
    BY <1>6, Tuples
  <2> HIDE DEF a, b
  <2>3. /\ \A e : Of(e)' = IF e = a.event THEN Of(e) \cup {a}
                          ELSE IF e = b.event /\ Mine(<<b, a>>) THEN Of(e) \cup {b} ELSE Of(e)
        /\ \A e : Notes(e)' = IF e = a.event THEN Notes(e) \cup {a.note}
                             ELSE IF e = b.event /\ Mine(<<b, a>>) THEN Notes(e) \cup {b.note}
                             ELSE Notes(e)
        /\ head' = head + 1 /\ UNCHANGED <<lost, store, pass, command>>
    <3>1. CASE Mine(<<b, a>>)
      BY <2>1, <3>1, EmissionOfTwo
    <3>2. CASE Mine(<<a>>) /\ ~Mine(<<b, a>>)
      BY <2>1, <3>2, EmissionOfOne
    <3> QED
      BY <2>2, <3>1, <3>2
  <2>4. /\ LeafLogs' = LeafLogs \cup {a} /\ Landed' = Landed
        /\ Of("NullifierUsed") \subseteq Of("NullifierUsed")'
        /\ \A l \in Of("NullifierUsed")' \ Of("NullifierUsed") : l = b
        /\ Of("NotePayload")' = Of("NotePayload")
        /\ Announcing' = Announcing /\ Announced' = Announced
        /\ Notes("ShieldQueued")' = Notes("ShieldQueued")
        /\ Notes("NotePayload")' = Notes("NotePayload")
        /\ Refunded' = Refunded /\ Burnt' = Burnt
    BY <2>1, <2>3 DEF LeafLogs, Landed, Announcing, Announced, Refunded, Burnt
  <2>5. /\ Shields' = Shields /\ Spends' = Spends /\ Shielding' = Shielding
        /\ Spending' = Spending /\ Changing' = Changing
    BY <1>2, <1>6
  <2>6. NotesKnown' /\ MadeOnce' /\ NoteLives'
    BY <1>0, <1>6, <2>4, <2>5 DEF NotesKnown, MadeOnce, NoteLives
  <2>7. BlocksOrdered'
    <3>1. \A e \in Events : \A l \in Of(e)' : l.block \in 1 .. head'
      BY <1>0, <2>1, <2>3 DEF BlocksOrdered
    <3>2. \A m \in Announcing : m.note # b.note
      <4>1. \A m \in Announcing : m.note \in Announced
        BY DEF Announcing, Announced, Notes
      <4>2. Announced \subseteq 1 .. minted
        BY <1>0 DEF NotesKnown
      <4> QED
        BY <2>1, <4>1, <4>2 DEF Foreign
    <3> QED
      BY <1>0, <2>4, <3>1, <3>2 DEF BlocksOrdered
  <2>8. Outside
    BY <1>0, <1>6, <2>1, <2>3, <2>4, <2>5 DEF Outside
  <2> QED
    BY <2>6, <2>7, <2>8, OutsideKeeps DEF ChainOK
<1> QED
  BY <1>3, <1>4, <1>5, <1>6 DEF MineOther

LEMMA PendingQuiet ==
  ASSUME AgentTyped, AgentTyped', QuietInv, Revert \/ Drop
  PROVE  QuietInv'
<1>0. /\ head \in Nat /\ minted \in Nat
      /\ ChainOK /\ NotesKnown /\ MadeOnce /\ NoteLives /\ BlocksOrdered
  BY DEF AgentTyped, QuietInv, ChainOK
<1>1. UNCHANGED <<logs, head, minted, store, pass, command>>
  BY DEF Revert, Drop
<1>2. PICK tx \in pending :
        /\ pending' = pending \ {tx} /\ lost \subseteq lost' /\ tx.change \in lost'
        /\ (tx.call = "spend" /\ tx.note \in Burnt) \/ tx.note \in lost'
  BY DEF Revert, Drop
<1>3. \A e : Of(e)' = Of(e) /\ Notes(e)' = Notes(e)
  BY <1>1 DEF Of, Notes
<1>4. /\ LeafLogs' = LeafLogs /\ Landed' = Landed /\ Announcing' = Announcing
      /\ Announced' = Announced /\ Refunded' = Refunded /\ Burnt' = Burnt
  BY <1>3 DEF LeafLogs, Landed, Announcing, Announced, Refunded, Burnt
<1>5. Shields' = Shields \ {tx} /\ Spends' = Spends \ {tx}
  BY <1>2 DEF Shields, Spends
<1>6. /\ Shielding' \subseteq Shielding /\ Spending' \subseteq Spending
      /\ Changing' \subseteq Changing
      /\ Spending \subseteq Spending' \cup {tx.note}
      /\ Changing \subseteq Changing' \cup {tx.change}
  BY <1>5 DEF Shielding, Spending, Changing
<1>7. NotesKnown' /\ MadeOnce' /\ NoteLives' /\ BlocksOrdered'
  <2>1. NotesKnown' /\ NoteLives'
    BY <1>0, <1>1, <1>3, <1>4, <1>6 DEF NotesKnown, NoteLives
  <2>2. MadeOnce'
    BY <1>0, <1>4, <1>5, <1>6 DEF MadeOnce
  <2>3. BlocksOrdered'
    BY <1>0, <1>1, <1>3, <1>4 DEF BlocksOrdered
  <2> QED
    BY <2>1, <2>2, <2>3
<1>8. Outside
  BY <1>0, <1>1, <1>2, <1>3, <1>4, <1>6 DEF Outside
<1> QED
  BY <1>7, <1>8, OutsideKeeps DEF ChainOK

-----------------------------------------------------------------------------
(* What a command does *)

LEMMA ChainStays ==
  ASSUME ChainOK, UNCHANGED chain
  PROVE  /\ \A e : Of(e)' = Of(e)
         /\ LeafLogs' = LeafLogs /\ Landed' = Landed /\ Burnt' = Burnt /\ Refunded' = Refunded
         /\ Announcing' = Announcing /\ Spending' = Spending /\ Changing' = Changing
         /\ head' = head /\ minted' = minted /\ lost' = lost /\ ChainOK'
<1>1. UNCHANGED <<logs, head, pending, lost, minted>>
  BY DEF chain
<1>2. \A e : Of(e)' = Of(e) /\ Notes(e)' = Notes(e)
  BY <1>1 DEF Of, Notes
<1>3. /\ LeafLogs' = LeafLogs /\ Landed' = Landed /\ Burnt' = Burnt /\ Refunded' = Refunded
      /\ Announcing' = Announcing /\ Announced' = Announced
  BY <1>2 DEF LeafLogs, Landed, Burnt, Refunded, Announcing, Announced
<1>4. /\ Shields' = Shields /\ Spends' = Spends /\ Shielding' = Shielding
      /\ Spending' = Spending /\ Changing' = Changing
  BY <1>1 DEF Shields, Spends, Shielding, Spending, Changing
<1>5. NotesKnown' /\ MadeOnce' /\ NoteLives' /\ BlocksOrdered'
  BY <1>1, <1>2, <1>3, <1>4 DEF ChainOK, NotesKnown, MadeOnce, NoteLives, BlocksOrdered
<1> QED
  BY <1>1, <1>2, <1>3, <1>4, <1>5 DEF ChainOK

\* Neither the store nor the scans change, and no more notes are in use.
LEMMA CommandStepKeeps ==
  ASSUME AgentTyped, AgentTyped', QuietInv, ChainOK', CommandOK',
         UNCHANGED <<logs, head, lost, store, pass>>, minted' >= minted,
         Spending \subseteq Spending', Changing \subseteq Changing',
         \A n \in DOMAIN notes : n \in InUse' => n \in InUse \/ notes[n].leaf # None
  PROVE  QuietInv'
<1>0. minted \in Nat /\ minted' \in Nat
  BY DEF AgentTyped
<1>1. \A e : Of(e)' = Of(e)
  BY DEF Of
<1>2. /\ Landed' = Landed /\ Burnt' = Burnt /\ Refunded' = Refunded /\ Announcing' = Announcing
  BY <1>1 DEF Landed, Burnt, Refunded, Announcing, Notes
<1>3. /\ notes' = notes /\ cursor' = cursor /\ pass' = pass /\ lost' = lost /\ head' = head
  BY DEF store
<1>4. DOMAIN notes \subseteq 1 .. minted'
  BY <1>0 DEF QuietInv, RowsOK
<1>5. \A n \in DOMAIN notes : RowOK(n)'
  BY <1>2, <1>3 DEF QuietInv, RowsOK, RowOK, Stands
<1>6. \A l \in Of("NullifierUsed") : Stands(l.note, "spendable")' => l.block > cursor
  BY <1>3 DEF QuietInv, RowsOK, Stands
<1>7. \A l \in Announcing : l.note \in DOMAIN notes \/ Ahead(l)'
  BY <1>3 DEF QuietInv, RowsOK, Ahead, At
<1>8. RowsOK'
  BY <1>1, <1>2, <1>3, <1>4, <1>5, <1>6, <1>7 DEF RowsOK
<1>9. cursor' <= head' /\ \A p \in Passes : ScanOK(pass[p])'
  BY <1>2, <1>3 DEF QuietInv, ScanOK
<1> QED
  BY <1>8, <1>9 DEF QuietInv

LEMMA ShieldQuiet ==
  ASSUME AgentTyped, AgentTyped', QuietInv, Shield
  PROVE  QuietInv'
<1>0. /\ minted \in Nat
      /\ ChainOK /\ NotesKnown /\ MadeOnce /\ NoteLives /\ BlocksOrdered
  BY DEF AgentTyped, QuietInv, ChainOK
<1> DEFINE tx == [call |-> "shield", note |-> minted + 1, change |-> None]
<1>1. /\ minted' = minted + 1 /\ pending' = pending \cup {tx} /\ command = Idle
      /\ command' = [pc |-> "shielded", note |-> minted + 1]
      /\ UNCHANGED <<logs, head, lost, store, pass>>
  BY DEF Shield, Broadcast, ShieldIntent, Do
<1>2. \A e : Of(e)' = Of(e) /\ Notes(e)' = Notes(e)
  BY <1>1 DEF Of, Notes
<1>3. /\ LeafLogs' = LeafLogs /\ Landed' = Landed /\ Burnt' = Burnt /\ Refunded' = Refunded
      /\ Announcing' = Announcing /\ Announced' = Announced
  BY <1>2 DEF LeafLogs, Landed, Burnt, Refunded, Announcing, Announced
<1>4. Shields' = Shields \cup {tx} /\ Spends' = Spends
  BY <1>1 DEF Shields, Spends
<1>5. Shielding' = Shielding \cup {minted + 1} /\ Spending' = Spending /\ Changing' = Changing
  <2>1. tx.note = minted + 1
    OBVIOUS
  <2> HIDE DEF tx
  <2> QED
    BY <1>4, <2>1 DEF Shielding, Spending, Changing
<1>6. /\ minted + 1 \in 1 .. minted' /\ minted + 1 \notin 1 .. minted
      /\ 1 .. minted \subseteq 1 .. minted'
  BY <1>0, <1>1
<1>7. minted + 1 \notin Landed \cup Announced \cup Burnt \cup Spending \cup Changing \cup Shielding
  BY <1>0, <1>6 DEF NotesKnown, NoteLives
<1>8. ChainOK'
  <2>1. NotesKnown' /\ NoteLives'
    BY <1>0, <1>2, <1>3, <1>5, <1>6 DEF NotesKnown, NoteLives
  <2>2. MadeOnce'
    <3>1. \A ty \in Shields : ty.note # minted + 1
      BY <1>7 DEF Shielding
    <3> QED
      BY <1>0, <1>3, <1>4, <1>5, <1>7, <3>1 DEF MadeOnce
  <2>3. BlocksOrdered'
    BY <1>0, <1>1, <1>2, <1>3 DEF BlocksOrdered
  <2> QED
    BY <2>1, <2>2, <2>3 DEF ChainOK
<1>9. CommandOK'
  BY <1>1, <1>3, <1>5, <1>6, <1>7 DEF CommandOK
<1>10. InUse' \subseteq InUse
  BY <1>1, <1>3, <1>5 DEF InUse
<1>11. minted' >= minted
  BY <1>0, <1>1
<1> QED
  BY <1>1, <1>5, <1>8, <1>9, <1>10, <1>11, CommandStepKeeps

LEMMA SendSpendQuiet ==
  ASSUME AgentTyped, AgentTyped', QuietInv, SendSpend
  PROVE  QuietInv'
<1>0. /\ minted \in Nat
      /\ ChainOK /\ NotesKnown /\ MadeOnce /\ NoteLives /\ BlocksOrdered
  BY DEF AgentTyped, QuietInv, ChainOK
<1>1. /\ command.pc = "proving" /\ command.leaf # None
      /\ UNCHANGED <<logs, head, lost, store, pass>>
  BY DEF SendSpend
<1>2. command.note \in Landed /\ command.note \in 1 .. minted
  BY <1>1 DEF QuietInv, CommandOK
<1>3. CASE command' = Idle /\ UNCHANGED <<pending, minted>>
  <2>1. UNCHANGED chain
    BY <1>1, <1>3 DEF chain
  <2>2. ChainOK' /\ InUse' \subseteq InUse /\ Spending' = Spending /\ Changing' = Changing
    BY <1>0, <1>3, <2>1, ChainStays DEF InUse, Idle
  <2>3. CommandOK' /\ minted' >= minted
    BY <1>0, <1>3 DEF CommandOK, Idle
  <2> QED
    BY <1>1, <2>2, <2>3, CommandStepKeeps
<1>4. ASSUME NEW change \in Changes, Broadcast(SpendIntent(command.note, change)),
             minted' = IF change = None THEN minted ELSE change,
             command' = [pc |-> "sent", note |-> command.note, change |-> change]
      PROVE  QuietInv'
  <2> DEFINE tx == [call |-> "spend", note |-> command.note, change |-> change]
             kept == IF change = None THEN {} ELSE {change}
  <2>1. pending' = pending \cup {tx} /\ (change = None \/ change = minted + 1)
    BY <1>4 DEF Broadcast, SpendIntent, Changes
  <2>2. \A e : Of(e)' = Of(e) /\ Notes(e)' = Notes(e)
    BY <1>1 DEF Of, Notes
  <2>3. /\ LeafLogs' = LeafLogs /\ Landed' = Landed /\ Burnt' = Burnt /\ Refunded' = Refunded
        /\ Announcing' = Announcing /\ Announced' = Announced
    BY <2>2 DEF LeafLogs, Landed, Burnt, Refunded, Announcing, Announced
  <2>4. Shields' = Shields /\ Spends' = Spends \cup {tx} /\ Shielding' = Shielding
    BY <2>1 DEF Shields, Spends, Shielding
  <2>5. Spending' = Spending \cup {command.note} /\ Changing' = Changing \cup kept
    <3>1. tx.note = command.note /\ tx.change = change
      OBVIOUS
    <3> HIDE DEF tx
    <3> QED
      BY <2>4, <3>1 DEF Spending, Changing
  <2>6. /\ minted' \in Nat /\ minted' >= minted /\ 1 .. minted \subseteq 1 .. minted'
        /\ kept \subseteq 1 .. minted' /\ kept \cap 1 .. minted = {}
    BY <1>0, <1>4, <2>1
  <2>7. kept \cap (Landed \cup Announced \cup Burnt \cup Spending \cup Changing \cup Shielding) = {}
    BY <1>0, <2>6 DEF NotesKnown, NoteLives
  <2>8. ChainOK'
    <3>1. NotesKnown' /\ NoteLives'
      BY <1>0, <1>2, <2>2, <2>3, <2>4, <2>5, <2>6 DEF NotesKnown, NoteLives
    <3>2. MadeOnce'
      <4>1. \A ty \in Spends : change # None => ty.change # change
        BY <2>7 DEF Changing
      <4> QED
        BY <1>0, <2>3, <2>4, <2>5, <2>7, <4>1 DEF MadeOnce
    <3>3. BlocksOrdered'
      BY <1>0, <1>1, <2>2, <2>3 DEF BlocksOrdered
    <3> QED
      BY <3>1, <3>2, <3>3 DEF ChainOK
  <2>9. CommandOK'
    <3>1. change # None => change # command.note
      BY <1>2, <2>6
    <3> QED
      BY <1>2, <1>4, <2>3, <2>5, <2>6, <2>7, <3>1 DEF CommandOK
  <2>10. InUse' \subseteq InUse
    BY <1>1, <1>2, <1>4, <2>3, <2>5 DEF InUse
  <2> QED
    BY <1>1, <2>5, <2>6, <2>8, <2>9, <2>10, CommandStepKeeps
<1> QED
  BY <1>3, <1>4 DEF SendSpend, Do

LEMMA SelectQuiet ==
  ASSUME AgentTyped', LeafInv, QuietInv, Select \/ ProvingFails \/ Kill
  PROVE  QuietInv'
<1>0. AgentTyped /\ ChainOK /\ minted \in Nat
  BY DEF LeafInv, QuietInv, AgentTyped
<1>1. UNCHANGED <<chain, store, pass>>
  BY DEF Select, ProvingFails, Kill
<1>2. /\ ChainOK' /\ Landed' = Landed /\ Burnt' = Burnt /\ minted' = minted
      /\ Spending' = Spending /\ Changing' = Changing
  BY <1>0, <1>1, ChainStays
<1>3. CommandOK' /\ \A n \in DOMAIN notes : n \in InUse' => n \in InUse \/ notes[n].leaf # None
  <2>1. CASE ProvingFails \/ Kill
    BY <1>2, <2>1 DEF ProvingFails, Kill, Do, CommandOK, InUse, Idle
  <2>2. CASE Select
    <3>1. PICK note \in DOMAIN notes :
            /\ Selectable(note)
            /\ command' = [pc |-> "proving", note |-> note, leaf |-> notes[note].leaf]
      BY <2>2 DEF Select, Do
    <3>2. note \in 1 .. minted
      BY <3>1 DEF QuietInv, RowsOK
    <3>3. notes[note].leaf # None => note \in Landed
      <4> SUFFICES ASSUME notes[note].leaf # None PROVE note \in Landed
        OBVIOUS
      <4>1. Placed(note, notes[note].leaf)
        BY <3>1 DEF LeafInv, RowsPlaced
      <4>2. PICK w \in 0 .. head : ReadTo(w)
        BY DEF LeafInv
      <4>3. \E l \in LeafLogs : l.leaf = notes[note].leaf /\ leaves[l.leaf] = l.note
        BY <4>1, <4>2 DEF ReadTo, HoldsTo, Placed
      <4> QED
        BY <1>0, <3>2, <4>1, <4>3 DEF Placed, Landed, Notes, LeafLogs, Foreign
    <3> QED
      BY <1>2, <3>1, <3>2, <3>3 DEF CommandOK, InUse
  <2> QED
    BY <2>1, <2>2
<1>4. UNCHANGED <<logs, head, lost, store, pass>> /\ minted' >= minted
  BY <1>0, <1>1, <1>2 DEF chain
<1> QED
  BY <1>0, <1>2, <1>3, <1>4, CommandStepKeeps

\* The rows change and the scans do not.
LEMMA RecordQuiet ==
  ASSUME AgentTyped, QuietInv, RecordShield \/ RecordSpend
  PROVE  QuietInv'
<1>0. ChainOK /\ CommandOK /\ RowsOK /\ minted \in Nat
  BY DEF QuietInv, AgentTyped
<1>1. UNCHANGED <<chain, leaves, cursor, pass>> /\ command' = Idle
  BY DEF RecordShield, RecordSpend, Do
<1>2. /\ \A e : Of(e)' = Of(e)
      /\ Landed' = Landed /\ Burnt' = Burnt /\ Refunded' = Refunded
      /\ Announcing' = Announcing /\ Spending' = Spending /\ Changing' = Changing
      /\ head' = head /\ minted' = minted /\ lost' = lost /\ ChainOK'
  BY <1>0, <1>1, ChainStays
<1>3. CommandOK'
  BY <1>1 DEF CommandOK, Idle
<1>4. InUse' = Burnt \cup Spending /\ InUse' \subseteq InUse
  BY <1>1, <1>2 DEF InUse, Idle
<1>5. /\ DOMAIN notes \subseteq DOMAIN notes' /\ DOMAIN notes' \subseteq 1 .. minted
      /\ \A n \in DOMAIN notes' : RowOK(n)'
      /\ \A n \in Burnt : Stands(n, "spendable")' => Stands(n, "spendable")
  <2>1. CASE RecordShield
    <3>1. /\ command.note \in 1 .. minted
          /\ notes' = Put(notes, command.note, [state |-> "queued", leaf |-> None])
      BY <1>0, <2>1 DEF RecordShield, UpsertNote, CommandOK
    <3>2. /\ DOMAIN notes' = DOMAIN notes \cup {command.note}
          /\ \A n \in DOMAIN notes' : n # command.note => notes'[n] = notes[n]
          /\ notes'[command.note].state = "queued"
      BY <3>1 DEF Put
    <3> QED
      BY <1>0, <1>2, <1>4, <3>1, <3>2 DEF RowsOK, RowOK, Stands
  <2>2. CASE RecordSpend
    <3>1. /\ command.pc = "sent"
          /\ notes' = WithChange([notes EXCEPT ![command.note].state = "spent"], command.change)
      BY <2>2 DEF RecordSpend, Patched
    <3>2. \A n \in DOMAIN notes : [notes[n] EXCEPT !.state = "spent"].state = "spent"
      BY DEF AgentTyped, NoteRow
    <3>3. command.note \in Burnt \cup Spending \cup lost
      BY <1>0, <3>1 DEF CommandOK
    <3>4. CASE command.change = None
      <4>1. /\ DOMAIN notes' = DOMAIN notes
            /\ \A n \in DOMAIN notes \ {command.note} : notes'[n] = notes[n]
            /\ command.note \in DOMAIN notes => notes'[command.note].state = "spent"
        BY <3>1, <3>2, <3>4 DEF WithChange
      <4>2. ASSUME NEW n \in DOMAIN notes' PROVE RowOK(n)'
        <5>1. CASE n = command.note
          BY <1>2, <3>3, <4>1, <5>1 DEF RowOK, Stands
        <5>2. CASE n # command.note
          BY <1>0, <1>2, <1>4, <4>1, <5>2 DEF RowsOK, RowOK, Stands
        <5> QED
          BY <5>1, <5>2
      <4> QED
        BY <1>0, <4>1, <4>2 DEF RowsOK, Stands
    <3>5. CASE command.change # None
      <4>1. /\ DOMAIN notes' = DOMAIN notes \cup {command.change}
            /\ \A n \in DOMAIN notes' \ {command.change} :
                 /\ n # command.note => notes'[n] = notes[n]
                 /\ n = command.note => notes'[n].state = "spent"
            /\ notes'[command.change].state = "spendable"
        BY <3>1, <3>2, <3>5 DEF WithChange, Put
      <4>2. /\ command.change \in 1 .. minted
            /\ command.change \in Landed \cup Changing \cup lost
            /\ command.change \notin Burnt \cup Spending
        BY <1>0, <3>1, <3>5 DEF CommandOK
      <4>3. ASSUME NEW n \in DOMAIN notes' PROVE RowOK(n)'
        <5>1. CASE n = command.change
          BY <1>2, <1>4, <4>1, <4>2, <5>1 DEF RowOK, Stands
        <5>2. CASE n # command.change /\ n = command.note
          BY <1>2, <3>3, <4>1, <5>2 DEF RowOK, Stands
        <5>3. CASE n # command.change /\ n # command.note
          <6>1. n \in DOMAIN notes /\ notes'[n] = notes[n] /\ RowOK(n)
            BY <1>0, <4>1, <5>3 DEF RowsOK
          <6> QED
            BY <1>2, <1>4, <6>1 DEF RowOK, Stands
        <5> QED
          BY <5>1, <5>2, <5>3
      <4>4. \A n \in Burnt : Stands(n, "spendable")' => Stands(n, "spendable")
        BY <4>1, <4>2 DEF Stands
      <4> QED
        BY <1>0, <4>1, <4>2, <4>3, <4>4 DEF RowsOK
    <3> QED
      BY <3>4, <3>5
  <2> QED
    BY <2>1, <2>2
<1>6. \A l \in Of("NullifierUsed") : Stands(l.note, "spendable")' => l.block > cursor
  <2>1. ASSUME NEW l \in Of("NullifierUsed"), Stands(l.note, "spendable")'
        PROVE  l.block > cursor
    <3>1. l.note \in DOMAIN notes'
      BY <2>1 DEF Stands
    <3>2. l.note # Foreign
      BY <1>5, <3>1 DEF Foreign
    <3>3. l.note \in Burnt
      BY <3>2 DEF Burnt, Notes
    <3> QED
      BY <1>0, <1>5, <2>1, <3>3 DEF RowsOK
  <2> QED
    BY <2>1
<1>7. \A l \in Announcing : l.note \in DOMAIN notes' \/ Ahead(l)'
  BY <1>0, <1>1, <1>5 DEF RowsOK, Ahead, At
<1>8. RowsOK'
  BY <1>1, <1>2, <1>5, <1>6, <1>7 DEF RowsOK
<1>9. cursor' <= head' /\ \A p \in Passes : ScanOK(pass[p])'
  BY <1>1, <1>2 DEF QuietInv, ScanOK
<1> QED
  BY <1>2, <1>3, <1>8, <1>9 DEF QuietInv

-----------------------------------------------------------------------------
(* What a scan does *)

LEMMA StartStopQuiet ==
  ASSUME AgentTyped, QuietInv, NEW p \in Passes, Begin(p) \/ Abort(p)
  PROVE  QuietInv'
<1>0. ChainOK /\ CommandOK /\ RowsOK /\ cursor \in Nat
  BY DEF QuietInv, AgentTyped
<1>1. /\ UNCHANGED <<chain, store, command>>
      /\ \/ pass' = [pass EXCEPT ![p] = [pc |-> "begun", from |-> cursor + 1]]
         \/ pass' = [pass EXCEPT ![p] = Idle]
  BY DEF Begin, Abort, Goto
<1>2. /\ \A e : Of(e)' = Of(e)
      /\ Landed' = Landed /\ Burnt' = Burnt /\ Refunded' = Refunded
      /\ Announcing' = Announcing /\ Spending' = Spending /\ Changing' = Changing
      /\ head' = head /\ minted' = minted /\ lost' = lost /\ ChainOK'
  BY <1>0, <1>1, ChainStays
<1>3. notes' = notes /\ cursor' = cursor /\ command' = command
  BY <1>1 DEF store
<1>4. CommandOK' /\ InUse' = InUse
  BY <1>0, <1>2, <1>3 DEF CommandOK, InUse
<1>5. \A q \in Passes : pass'[q] = pass[q] \/ (pass'[q].pc # "handling" /\ ScanOK(pass[q])')
  <2>1. \A q \in Passes \ {p} : pass'[q] = pass[q]
    BY <1>1 DEF AgentTyped
  <2>2. CASE pass' = [pass EXCEPT ![p] = [pc |-> "begun", from |-> cursor + 1]]
    <3>1. pass'[p] = [pc |-> "begun", from |-> cursor + 1]
      BY <2>2 DEF AgentTyped
    <3>2. pass'[p].pc = "begun" /\ pass'[p].from = cursor' + 1
      BY <1>3, <3>1
    <3> QED
      BY <2>1, <3>2 DEF ScanOK
  <2>3. CASE pass' = [pass EXCEPT ![p] = Idle]
    <3>1. pass'[p].pc = "idle"
      BY <2>3 DEF AgentTyped, Idle
    <3> QED
      BY <2>1, <3>1 DEF ScanOK
  <2> QED
    BY <1>1, <2>2, <2>3
<1>6. \A q \in Passes : ScanOK(pass[q])'
  BY <1>2, <1>3, <1>5 DEF QuietInv, ScanOK
<1>7. \A l \in Announcing : Ahead(l) => Ahead(l)'
  BY <1>3, <1>5 DEF Ahead, At
<1>8. RowsOK'
  BY <1>0, <1>2, <1>3, <1>4, <1>7 DEF RowsOK, RowOK, Stands
<1> QED
  BY <1>2, <1>3, <1>4, <1>6, <1>8 DEF QuietInv

LEMMA GatherQuiet ==
  ASSUME AgentTyped, QuietInv, NEW p \in Passes, Gather(p)
  PROVE  QuietInv'
<1>0. /\ ChainOK /\ CommandOK /\ RowsOK /\ cursor \in Nat /\ head \in Nat
      /\ At(p, "begun") /\ pass[p].from = cursor + 1
  BY DEF QuietInv, AgentTyped, Gather, ScanOK, At
<1> DEFINE from == pass[p].from
           todo(to) == InRange("ShieldQueued", from, to) \cup InRange("NotePayload", from, to)
           reads(to) == [pc |-> "handling", from |-> from, to |-> to, todo |-> todo(to)]
<1>1. /\ UNCHANGED <<chain, notes, cursor, command>>
      /\ \/ pass' = [pass EXCEPT ![p] = Idle]
         \/ \E to \in from .. head : pass' = [pass EXCEPT ![p] = reads(to)]
  BY DEF Gather, Goto
<1>2. /\ \A e : Of(e)' = Of(e)
      /\ Landed' = Landed /\ Burnt' = Burnt /\ Refunded' = Refunded
      /\ Announcing' = Announcing /\ Spending' = Spending /\ Changing' = Changing
      /\ head' = head /\ minted' = minted /\ lost' = lost /\ ChainOK'
  BY <1>0, <1>1, ChainStays
<1>3. CommandOK' /\ InUse' = InUse
  BY <1>0, <1>1, <1>2 DEF CommandOK, InUse
<1>4. \A to : todo(to) = {l \in Announcing : l.block \in from .. to}
  BY DEF InRange, Announcing
<1> HIDE DEF todo
<1>5. \A q \in Passes \ {p} : pass'[q] = pass[q]
  BY <1>1 DEF AgentTyped
<1>6. pass'[p] = Idle \/ \E to \in from .. head : pass'[p] = reads(to)
  BY <1>1 DEF AgentTyped
<1>7. ScanOK(pass[p])'
  <2>1. CASE pass'[p] = Idle
    BY <2>1 DEF ScanOK, Idle
  <2>2. ASSUME NEW to \in from .. head, pass'[p] = reads(to)
        PROVE  ScanOK(pass[p])'
    BY <1>0, <1>1, <1>2, <1>4, <2>2 DEF ScanOK
  <2> QED
    BY <1>6, <2>1, <2>2
<1>8. \A l \in Announcing : Ahead(l) => Ahead(l)'
  <2> SUFFICES ASSUME NEW l \in Announcing, Ahead(l) PROVE Ahead(l)'
    OBVIOUS
  <2>1. l.block \in Int /\ l.block > cursor
    BY LogsAreSequence DEF Ahead, Announcing, LogRow
  <2>2. At(p, "handling")' => l.block > pass'[p].to \/ l \in pass'[p].todo
    <3>1. CASE pass'[p] = Idle
      BY <3>1 DEF At, Idle
    <3>2. ASSUME NEW to \in from .. head, pass'[p] = reads(to)
          PROVE  l.block > pass'[p].to \/ l \in pass'[p].todo
      BY <1>0, <1>4, <2>1, <3>2
    <3> QED
      BY <1>6, <3>1, <3>2
  <2>3. \A q \in Passes \ {p} : At(q, "handling")' => l.block > pass'[q].to \/ l \in pass'[q].todo
    BY <1>5 DEF Ahead, At
  <2> QED
    BY <1>1, <2>1, <2>2, <2>3 DEF Ahead
<1>9. RowsOK'
  BY <1>0, <1>1, <1>2, <1>3, <1>8 DEF RowsOK, RowOK, Stands
<1>10. \A q \in Passes : ScanOK(pass[q])'
  BY <1>1, <1>2, <1>5, <1>7 DEF QuietInv, ScanOK
<1> QED
  BY <1>1, <1>2, <1>3, <1>9, <1>10 DEF QuietInv

\* What a scan writes of a note is what the chain says of it, and a note that is
\* shown as spendable again will be seen burnt again.
LEMMA HandleQuiet ==
  ASSUME LeafInv, QuietInv, NEW p \in Passes, Handle(p)
  PROVE  QuietInv'
<1>0. /\ AgentTyped /\ LeavesNumbered /\ ChainOK /\ CommandOK /\ RowsOK
      /\ cursor \in Nat /\ head \in Nat
      /\ At(p, "handling") /\ UNCHANGED <<chain, leaves, cursor, command>>
  BY DEF LeafInv, QuietInv, AgentTyped, Handle
<1>1. PICK l \in pass[p].todo :
        /\ UpsertNote(l.note,
             IF l.event = "ShieldQueued" THEN ShieldState(p, l.note) ELSE "spendable",
             LeafIndex(p, l.note))
        /\ pass' = [pass EXCEPT ![p] = [pass[p] EXCEPT !.todo = @ \ {l}]]
  BY DEF Handle, Goto
<1> DEFINE state == IF l.event = "ShieldQueued" THEN ShieldState(p, l.note) ELSE "spendable"
           index == LeafIndex(p, l.note)
<1>2. /\ \A e : Of(e)' = Of(e)
      /\ Landed' = Landed /\ Burnt' = Burnt /\ Refunded' = Refunded
      /\ Announcing' = Announcing /\ Spending' = Spending /\ Changing' = Changing
      /\ head' = head /\ minted' = minted /\ lost' = lost /\ ChainOK'
  BY <1>0, ChainStays
<1>3. CommandOK' /\ InUse' = InUse
  BY <1>0, <1>2 DEF CommandOK, InUse
<1>4. /\ pass[p] \in [pc : {"handling"}, from : Nat, to : Nat, todo : SUBSET LogRow]
      /\ pass \in [Passes -> PassState]
      /\ pass[p].from = cursor + 1 /\ pass[p].to \in pass[p].from .. head
      /\ pass[p].todo \subseteq Announcing
      /\ \A x \in pass[p].todo : x.block \in pass[p].from .. pass[p].to
  BY <1>0 DEF AgentTyped, PassState, At, Idle, QuietInv, ScanOK
<1>5. l \in Announcing /\ l.block \in pass[p].from .. pass[p].to /\ l.block \in Nat
  BY <1>1, <1>4
<1>6. l.note \in 1 .. minted
  BY <1>0, <1>5 DEF ChainOK, NotesKnown, Announced, Announcing, Notes
<1>7. /\ state = "cancelled" => l.note \in Notes("ShieldCancelled")
      /\ state = "contested" => l.note \in Notes("ShieldContested")
      /\ state = "spendable" => Has(p, "LeafInserted", l.note)
      /\ state # "spent"
  <2>1. \A e, n : Has(p, e, n) => n \in Notes(e)
    BY DEF Has, Found, InRange, Notes
  <2>2. CASE l.event = "ShieldQueued"
    BY <2>1, <2>2 DEF ShieldState
  <2>3. CASE l.event # "ShieldQueued"
    <3>1. l \in Of("NotePayload")
      BY <1>5, <2>3 DEF Announcing, Of
    <3>2. \E m \in LeafLogs : m.note = l.note /\ m.block = l.block
      BY <1>0, <3>1 DEF ChainOK, BlocksOrdered
    <3>3. Has(p, "LeafInserted", l.note)
      BY <1>5, <3>2 DEF Has, Found, InRange, LeafLogs
    <3> QED
      BY <2>3, <3>3
  <2> QED
    BY <2>2, <2>3
<1>8. state = "spendable" => l.note \in Landed /\ index # None
  <2> SUFFICES ASSUME Has(p, "LeafInserted", l.note)
               PROVE  l.note \in Landed /\ index # None
    BY <1>7
  <2> DEFINE m == CHOOSE x \in Found(p, "LeafInserted") : x.note = l.note
  <2>1. m \in Found(p, "LeafInserted") /\ m.note = l.note /\ index = m.leaf
    BY DEF Has, LeafIndex
  <2> HIDE DEF m, index
  <2>2. m \in LeafLogs
    BY <2>1 DEF Found, InRange, LeafLogs
  <2>3. m.leaf \in Nat
    BY <1>0, <2>2, LeavesFinite DEF LeavesNumbered
  <2> QED
    BY <1>6, <2>1, <2>2, <2>3 DEF Landed, Notes, LeafLogs, Foreign, None
<1>9. /\ \A n : n \in DOMAIN notes' <=> n \in DOMAIN notes \/ n = l.note
      /\ \A n \in DOMAIN notes \ {l.note} : notes'[n] = notes[n]
      /\ notes'[l.note].state = state /\ notes'[l.note].leaf = index
  <2> HIDE DEF state, index
  <2>1. notes' = Put(notes, l.note, [state |-> state, leaf |-> index])
    BY <1>1 DEF UpsertNote, state, index
  <2> QED
    BY <2>1 DEF Put
<1> HIDE DEF state, index
<1>10. ASSUME NEW n \in DOMAIN notes' PROVE RowOK(n)'
  <2>1. CASE n = l.note
    BY <1>2, <1>7, <1>8, <1>9, <2>1 DEF RowOK, Stands, Refunded
  <2>2. CASE n # l.note
    <3>1. n \in DOMAIN notes /\ notes'[n] = notes[n] /\ RowOK(n)
      BY <1>0, <1>9, <2>2 DEF RowsOK
    <3> QED
      BY <1>2, <1>3, <3>1 DEF RowOK, Stands
  <2> QED
    BY <2>1, <2>2
<1>11. ASSUME NEW b \in Of("NullifierUsed"), Stands(b.note, "spendable")' PROVE b.block > cursor
  <2>1. CASE b.note = l.note
    <3>1. l.block <= b.block
      BY <1>0, <1>5, <2>1 DEF ChainOK, BlocksOrdered
    <3>2. b.block \in Int
      BY <1>0, LogsAreSequence DEF LogRow
    <3> QED
      BY <1>0, <1>4, <1>5, <3>1, <3>2
  <2>2. CASE b.note # l.note
    BY <1>0, <1>9, <1>11, <2>2 DEF RowsOK, Stands
  <2> QED
    BY <2>1, <2>2
<1> DEFINE r == [pass[p] EXCEPT !.todo = @ \ {l}]
<1>12. r.pc = "handling" /\ r.from = pass[p].from /\ r.to = pass[p].to /\ r.todo = pass[p].todo \ {l}
  BY <1>4
<1> HIDE DEF r
<1>13. pass'[p] = r /\ \A q \in Passes \ {p} : pass'[q] = pass[q]
  BY <1>1, <1>4 DEF r
<1>14. \A q \in Passes : ScanOK(pass[q])'
  <2>1. ScanOK(pass[p])'
    BY <1>0, <1>2, <1>4, <1>12, <1>13 DEF ScanOK
  <2>2. \A q \in Passes \ {p} : ScanOK(pass[q])'
    BY <1>0, <1>2, <1>13 DEF QuietInv, ScanOK
  <2> QED
    BY <2>1, <2>2
<1>15. \A x \in Announcing : x.note \in DOMAIN notes' \/ Ahead(x)'
  <2> SUFFICES ASSUME NEW x \in Announcing, x # l, Ahead(x) PROVE Ahead(x)'
    BY <1>0, <1>9 DEF RowsOK
  <2>1. At(p, "handling")' => x.block > pass'[p].to \/ x \in pass'[p].todo
    BY <1>0, <1>12, <1>13 DEF Ahead, At
  <2>2. \A q \in Passes \ {p} : At(q, "handling")' => x.block > pass'[q].to \/ x \in pass'[q].todo
    BY <1>13 DEF Ahead, At
  <2> QED
    BY <1>0, <2>1, <2>2 DEF Ahead
<1>16. RowsOK'
  <2>1. DOMAIN notes' \subseteq 1 .. minted'
    BY <1>0, <1>2, <1>6, <1>9 DEF RowsOK
  <2> QED
    BY <1>0, <1>2, <1>10, <1>11, <1>15, <2>1 DEF RowsOK
<1> QED
  BY <1>0, <1>2, <1>3, <1>14, <1>16 DEF QuietInv

\* The one scan there is does not move the cursor over a nullifier it has not
\* acted on, nor over a log it has not handled.
LEMMA FinishQuiet ==
  ASSUME AgentTyped, QuietInv, NEW p \in Passes, \A q \in Passes : q = p, Finish(p)
  PROVE  QuietInv'
<1>0. /\ ChainOK /\ CommandOK /\ RowsOK /\ cursor \in Nat /\ head \in Nat
      /\ At(p, "handling") /\ pass[p].todo = {} /\ UNCHANGED <<chain, leaves, command>>
  BY DEF QuietInv, AgentTyped, Finish
<1>1. /\ \A e : Of(e)' = Of(e)
      /\ Landed' = Landed /\ Burnt' = Burnt /\ Refunded' = Refunded
      /\ Announcing' = Announcing /\ Spending' = Spending /\ Changing' = Changing
      /\ head' = head /\ minted' = minted /\ lost' = lost /\ ChainOK'
  BY <1>0, ChainStays
<1>2. CommandOK' /\ InUse' = InUse
  BY <1>0, <1>1 DEF CommandOK, InUse
<1>3. /\ pass[p].from = cursor + 1 /\ pass[p].to \in pass[p].from .. head /\ pass[p].to \in Nat
  BY <1>0 DEF QuietInv, ScanOK, At
<1>4. \A n \in DOMAIN notes : Patched(notes, n)[n] = [notes[n] EXCEPT !.state = "spent"]
  BY DEF Patched, AgentTyped
<1>5. \A n \in DOMAIN notes : /\ [notes[n] EXCEPT !.state = "spent"].state = "spent"
                              /\ [notes[n] EXCEPT !.state = "spent"].leaf = notes[n].leaf
  BY DEF AgentTyped, NoteRow
<1>14. PICK seen \in SUBSET Seen(p) :
         /\ Mark(seen)
         /\ cursor' = cursor \/ (cursor' = pass[p].to /\ seen = Seen(p))
  BY DEF Finish, ScannedTo
<1>6. /\ DOMAIN notes' = DOMAIN notes
      /\ \A n \in seen : notes'[n].state = "spent"
      /\ \A n \in DOMAIN notes \ seen : notes'[n] = notes[n]
  BY <1>4, <1>5, <1>14 DEF Mark, Seen
<1>7. seen \subseteq Burnt
  <2>1. \A n \in DOMAIN notes : n # Foreign
    BY <1>0 DEF RowsOK, Foreign
  <2> QED
    BY <1>14, <2>1 DEF Seen, Has, Found, InRange, Burnt, Notes
<1>8. ASSUME NEW n \in DOMAIN notes PROVE RowOK(n)'
  <2>1. CASE n \in seen
    BY <1>1, <1>6, <1>7, <2>1 DEF RowOK, Stands
  <2>2. CASE n \notin seen
    <3>1. RowOK(n) /\ notes'[n] = notes[n] /\ n \in DOMAIN notes'
      BY <1>0, <1>6, <2>2 DEF RowsOK
    <3> QED
      BY <1>1, <1>2, <3>1 DEF RowOK, Stands
  <2> QED
    BY <2>1, <2>2
<1>9. ASSUME NEW b \in Of("NullifierUsed"), Stands(b.note, "spendable")' PROVE b.block > cursor'
  <2>1. b.note \in DOMAIN notes /\ b.note \notin seen /\ Stands(b.note, "spendable")
    BY <1>6, <1>9 DEF Stands
  <2>2. b.block > cursor /\ b.block \in Int
    BY <1>0, <2>1, LogsAreSequence DEF RowsOK, LogRow
  <2>3. b.note \in InUse
    <3>1. b.note # Foreign
      BY <1>0, <2>1 DEF RowsOK, Foreign
    <3> QED
      BY <3>1 DEF InUse, Burnt, Notes
  <2>4. MaySpend(b.note) /\ b.note \notin Leafless
    BY <1>0, <2>1, <2>3 DEF RowsOK, RowOK, Stands, MaySpend, Leafless
  <2>5. CASE cursor' = cursor
    BY <2>2, <2>5
  <2>6. CASE cursor' = pass[p].to /\ seen = Seen(p)
    <3>1. b.block \notin pass[p].from .. pass[p].to
      BY <2>1, <2>4, <2>6 DEF Seen, Has, Found, InRange
    <3> QED
      BY <1>0, <1>3, <2>2, <2>6, <3>1
  <2> QED
    BY <1>14, <2>5, <2>6
<1>10. pass'[p] = Idle
  BY DEF Finish, Goto, AgentTyped
<1>11. \A l \in Announcing : l.note \in DOMAIN notes \/ Ahead(l)'
  <2> SUFFICES ASSUME NEW l \in Announcing, Ahead(l) PROVE Ahead(l)'
    BY <1>0 DEF RowsOK
  <2>1. l.block > pass[p].to /\ l.block > cursor
    BY <1>0 DEF Ahead
  <2> QED
    BY <1>0, <1>10, <1>14, <2>1 DEF Ahead, At, Idle
<1>12. RowsOK'
  BY <1>0, <1>1, <1>6, <1>8, <1>9, <1>11 DEF RowsOK
<1>13. cursor' <= head' /\ \A q \in Passes : ScanOK(pass[q])'
  BY <1>0, <1>1, <1>3, <1>10, <1>14 DEF QuietInv, ScanOK, Idle
<1> QED
  BY <1>1, <1>2, <1>12, <1>13 DEF QuietInv

-----------------------------------------------------------------------------
(* The invariant of one scan at a time *)

LEMMA InitQuiet ==
  ASSUME Init
  PROVE  QuietInv
<1>1. \A e : Of(e) = {} /\ Notes(e) = {}
  BY DEF Init, Of, Notes
<1>2. /\ Landed = {} /\ Burnt = {} /\ Refunded = {} /\ Announced = {} /\ Announcing = {}
      /\ Shields = {} /\ Spends = {}
  BY <1>1 DEF Init, Landed, Burnt, Refunded, Announced, Announcing, Shields, Spends
<1>3. Shielding = {} /\ Spending = {} /\ Changing = {}
  BY <1>2 DEF Shielding, Spending, Changing
<1>4. ChainOK
  BY <1>1, <1>2, <1>3 DEF ChainOK, NotesKnown, MadeOnce, NoteLives, BlocksOrdered
<1>5. CommandOK
  BY DEF Init, CommandOK, Idle
<1>6. RowsOK
  BY <1>1, <1>2 DEF Init, RowsOK
<1>7. cursor <= head /\ \A p \in Passes : ScanOK(pass[p])
  BY DEF Init, ScanOK, Idle
<1> QED
  BY <1>4, <1>5, <1>6, <1>7 DEF QuietInv

LEMMA StepQuiet ==
  ASSUME \A p, q \in Passes : p = q, LeafInv, LeafInv', QuietInv, [Next]_vars
  PROVE  QuietInv'
<1>0. AgentTyped /\ AgentTyped'
  BY DEF LeafInv
<1>1. CASE MineShield
  BY <1>0, <1>1, MineShieldQuiet
<1>2. CASE MineSpend
  BY <1>0, <1>2, MineSpendQuiet
<1>3. CASE MineOther
  BY <1>0, <1>3, MineOtherQuiet
<1>4. CASE Revert \/ Drop
  BY <1>0, <1>4, PendingQuiet
<1>5. ASSUME NEW p \in Passes, Scan(p) \/ Abort(p)
      PROVE  QuietInv'
  <2>1. CASE Begin(p) \/ Abort(p)
    BY <1>0, <2>1, StartStopQuiet
  <2>2. CASE Gather(p)
    BY <1>0, <2>2, GatherQuiet
  <2>3. CASE Handle(p)
    BY <2>3, HandleQuiet
  <2>4. CASE Finish(p)
    BY <1>0, <2>4, FinishQuiet
  <2> QED
    BY <1>5, <2>1, <2>2, <2>3, <2>4 DEF Scan
<1>6. CASE Shield
  BY <1>0, <1>6, ShieldQuiet
<1>7. CASE SendSpend
  BY <1>0, <1>7, SendSpendQuiet
<1>8. CASE Select \/ ProvingFails \/ Kill
  BY <1>0, <1>8, SelectQuiet
<1>9. CASE RecordShield \/ RecordSpend
  BY <1>0, <1>9, RecordQuiet
<1>10. CASE UNCHANGED vars
  <2>1. UNCHANGED <<chain, store, pass, command>>
    BY <1>10 DEF vars
  <2>2. ChainOK /\ minted \in Nat
    BY <1>0 DEF QuietInv, AgentTyped
  <2>3. /\ ChainOK' /\ Landed' = Landed /\ Burnt' = Burnt /\ minted' = minted
        /\ Spending' = Spending /\ Changing' = Changing /\ lost' = lost /\ head' = head
    BY <2>1, <2>2, ChainStays
  <2>4. CommandOK' /\ InUse' = InUse
    BY <2>1, <2>3 DEF QuietInv, CommandOK, InUse
  <2>5. UNCHANGED <<logs, head, lost, store, pass>> /\ minted' >= minted
    BY <2>1, <2>2, <2>3 DEF chain
  <2> QED
    BY <1>0, <2>3, <2>4, <2>5, CommandStepKeeps
<1> QED
  BY <1>1, <1>2, <1>3, <1>4, <1>5, <1>6, <1>7, <1>8, <1>9, <1>10 DEF Next

LEMMA QuietShows ==
  ASSUME AgentTyped, QuietInv
  PROVE  QuietBalance
<1> SUFFICES ASSUME Quiet, NEW note \in Own \ lost
             PROVE  \/ note \in Landed /\ Stands(note, "queued")
                    \/ Stands(note, "spendable") <=> note \in Landed \ Burnt
  BY DEF QuietBalance
<1>0. /\ ChainOK /\ NotesKnown /\ MadeOnce /\ NoteLives /\ BlocksOrdered /\ RowsOK
      /\ cursor = head /\ head \in Nat
  BY DEF QuietInv, ChainOK, AgentTyped, Quiet
<1>1. Spending = {} /\ Changing = {}
  BY DEF Quiet, Spending, Changing, Spends
<1>2. \A e \in Events : \A l \in Of(e) : l.block \in Nat /\ ~(l.block > cursor)
  BY <1>0 DEF BlocksOrdered
<1>3. ASSUME Stands(note, "spendable") PROVE note \in Landed \ Burnt
  <2>1. note \in Landed
    BY <1>0, <1>1, <1>3 DEF RowsOK, RowOK, Stands
  <2>2. note \notin Burnt
    BY <1>0, <1>2, <1>3 DEF RowsOK, Burnt, Notes, Events
  <2> QED
    BY <2>1, <2>2
<1>4. ASSUME note \in Landed \ Burnt, ~Stands(note, "queued") PROVE Stands(note, "spendable")
  <2>1. PICK l \in Announcing : l.note = note
    BY <1>0, <1>4 DEF NoteLives, Announced, Announcing, Notes
  <2>2. ~(l.block > cursor)
    BY <1>2 DEF Announcing, Events
  <2>3. note \in DOMAIN notes
    BY <1>0, <2>1, <2>2 DEF RowsOK, Ahead
  <2>4. ~Stands(note, "spent") /\ ~Stands(note, "cancelled") /\ ~Stands(note, "contested")
    BY <1>0, <1>1, <1>4, <2>3 DEF RowsOK, RowOK, NoteLives
  <2>5. notes[note].state \in States
    BY <2>3 DEF AgentTyped, NoteRow
  <2> QED
    BY <1>4, <2>3, <2>4, <2>5 DEF Stands, States
<1> QED
  BY <1>3, <1>4

\* If scans do not overlap: whatever commands, calls, kills, aborts and drops
\* happen while they run, once the chain is read to its head and nothing is under
\* way the balance that the agent shows is the notes that landed and were not
\* burnt, but for a shield still shown as queued and for what a lost transaction
\* spent or was to make (account.ts, sync.ts).
THEOREM QuietBalanceHolds ==
  ASSUME \A p, q \in Passes : p = q
  PROVE  Spec => []QuietBalance
<1>1. Init => LeafInv /\ QuietInv
  BY InitLeaf, InitQuiet
<1>2. LeafInv /\ QuietInv /\ [Next]_vars => LeafInv' /\ QuietInv'
  BY StepLeaf, StepQuiet
<1>3. LeafInv /\ QuietInv => QuietBalance
  BY QuietShows DEF LeafInv
<1> QED
  BY <1>1, <1>2, <1>3, PTL DEF Spec

=============================================================================
