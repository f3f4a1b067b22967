---------------------------- MODULE PampaloProofs ----------------------------
(***************************************************************************)
(* Theorems about Pampalo, for every value of its constants.               *)
(*                                                                         *)
(* First types, the contest window and the budget views; then the life of  *)
(* a shield: the invariant Inv of PampaloLifecycle is inductive, no        *)
(* commitment enters the tree twice, no escrowed or refunded note is in    *)
(* it, and Pampalo implements ShieldLifecycle.                             *)
(*                                                                         *)
(* Then the books: what Pampalo holds is what it owes (but for what spends *)
(* forfeited), nobody but the owner of a burnt note gets poorer, and no    *)
(* monthly budget shows more used than was queued in its month.  The first *)
(* two are claims about sums over the queue and over the unspent notes,    *)
(* each note counted with a weight: its amount of one asset, or its amount *)
(* of one asset if one user owns it.  The effect of every action on these  *)
(* two sums is proved once, for any weight.                                *)
(*                                                                         *)
(* Last, exits are charged what they are worth, to their sender.           *)
(*                                                                         *)
(* The theorems about value are about the spends that Builds admits: those *)
(* the wallet, the SDK and the helpers of the repository make.             *)
(***************************************************************************)
EXTENDS PampaloLifecycle, Integers, FiniteSets, FiniteSetsExt, Functions, FiniteSetTheorems,
        WellFoundedInduction, TLAPS

-----------------------------------------------------------------------------
(* Type correctness *)

LEMMA MonthKeyType ==
  ASSUME NEW t \in Nat
  PROVE  MonthKey(t) \in Nat \ {0}
BY PampaloAssumption DEF MonthKey

LEMMA CentsType ==
  ASSUME TypeOK, NEW a \in Assets, NEW n \in Nat
  PROVE  PriceUsdCents(a, n) \in Nat
<1>1. price[a] \in Nat
  BY PampaloAssumption DEF TypeOK
<1>2. n * price[a] \in Nat
  BY <1>1
<1>3. PriceScale \in Nat \ {0}
  BY PampaloAssumption
<1> QED
  BY <1>2, <1>3 DEF PriceUsdCents

LEMMA EmptyFunction ==
  ASSUME NEW S
  PROVE  << >> \in [{} -> S] /\ DOMAIN << >> = {}
<1>1. << >> = [x \in {} |-> 0]
  OBVIOUS
<1> QED
  BY <1>1

LEMMA InitTypeOK == Init => TypeOK
<1> SUFFICES ASSUME Init PROVE TypeOK
  OBVIOUS
<1> USE DEF Init
<1>1. /\ pendingShields \in [DOMAIN pendingShields -> PendingShield]
      /\ DOMAIN pendingShields = {}
  BY EmptyFunction
<1>2. queuedAs \in [0 .. nextPendingId - 1 -> QueuedAs]
  <2>1. 0 .. nextPendingId - 1 = {}
    OBVIOUS
  <2> QED
    BY <2>1, EmptyFunction
<1>3. /\ shieldUsage \in [Users -> MonthlyVolume]
      /\ unshieldUsage \in [Users -> MonthlyVolume]
  BY DEF NoVolume, MonthlyVolume
<1>4. /\ Funds \in Nat /\ DefaultCap \in Nat
      /\ DefaultWait \in Nat /\ DefaultWait >= MinShieldWaitTime
  BY PampaloAssumption
<1>5. leaves \in Seq(Note)
  OBVIOUS
<1>6. DOMAIN pendingShields \subseteq 0 .. nextPendingId - 1
  BY <1>1
<1>7. wallet \in [Users \X Assets -> Nat]
  BY <1>4
<1> QED
  BY <1>1, <1>2, <1>3, <1>4, <1>5, <1>6, <1>7 DEF TypeOK

LEMMA TickTypeOK == TypeOK /\ Tick => TypeOK'
BY DEF TypeOK, Tick, admin, usage, queue, tree, funds, client

LEMMA AdminTypeOK ==
  ASSUME TypeOK,
         \/ Admin
         \/ \E a \in Assets, p \in Prices : PriceMoves(a, p)
  PROVE  TypeOK'
<1> USE DEF TypeOK, usage, queue, tree, funds, client
<1>1. CASE \E a \in Assets, p \in Prices : PriceMoves(a, p)
  BY <1>1 DEF PriceMoves
<1>2. CASE \E a \in Assets : AddSupportedAsset(a) \/ DisableSupportedAsset(a)
  BY <1>2 DEF AddSupportedAsset, DisableSupportedAsset
<1>3. CASE \E c \in Caps : SetDefaultMonthlyCap(c)
  BY <1>3, PampaloAssumption DEF SetDefaultMonthlyCap
<1>4. CASE \E u \in Users, c \in Caps : SetAddressMonthlyCap(u, c)
  <2>1. PICK u \in Users, c \in Caps : SetAddressMonthlyCap(u, c)
    BY <1>4
  <2>2. c \in Nat
    BY PampaloAssumption
  <2>3. addressMonthlyCap' \in [Users -> Nat]
    BY <2>1, <2>2 DEF SetAddressMonthlyCap
  <2> QED
    BY <2>1, <2>3 DEF SetAddressMonthlyCap
<1>5. CASE \E u \in Users, allowed \in BOOLEAN : SetFastTrackAllowed(u, allowed)
  BY <1>5, MonthKeyType DEF SetFastTrackAllowed
<1>6. CASE \E w \in Waits : SetShieldWaitTime(w)
  BY <1>6, PampaloAssumption DEF SetShieldWaitTime, WaitAllowed
<1>7. CASE WeAreFull \/ WeFoundRoom
  BY <1>7 DEF WeAreFull, WeFoundRoom, SetDepositsHalted
<1> QED
  BY <1>1, <1>2, <1>3, <1>4, <1>5, <1>6, <1>7 DEF Admin

LEMMA CapsType ==
  ASSUME NEW vol \in MonthlyVolume, NEW mk \in Nat, NEW cents \in Nat
  PROVE  /\ Bumped(vol, mk, cents) \in MonthlyVolume
         /\ Refunded(vol, mk, cents) \in MonthlyVolume
BY DEF Bumped, Refunded, UsedIn, MonthlyVolume

LEMMA UpdateType ==
  ASSUME NEW D, NEW R, NEW f \in [D -> R], NEW x \in D, NEW v \in R
  PROVE  [f EXCEPT ![x] = v] \in [D -> R]
OBVIOUS

LEMMA UnlockTimeType ==
  ASSUME TypeOK, NEW u \in Users
  PROVE  UnlockTime(u) \in Nat
BY DEF TypeOK, UnlockTime

LEMMA ShieldTypeOK ==
  ASSUME TypeOK, NEW u \in Users, NEW a \in Assets, NEW amount \in Amounts,
         Shield(u, a, amount)
  PROVE  TypeOK'
<1> DEFINE id    == nextPendingId
           note  == [owner |-> u, asset |-> a, amount |-> amount,
                     secret |-> nextSecret]
           cents == PriceUsdCents(a, amount)
           entry == [shielder |-> u, asset |-> a, amount |-> amount,
                     leafCommitment |-> note, unlockTime |-> UnlockTime(u),
                     usdCentsCharged |-> cents, cancelled |-> FALSE]
           was   == [shielder |-> u, note |-> note, at |-> now,
                     cents |-> cents,
                     vouched |-> fastTrackAllowedMonth[u] = MonthKey(now)]
<1>0. amount \in Nat /\ now \in Nat /\ nextSecret \in Nat
  BY PampaloAssumption DEF TypeOK
<1>1. cents \in Nat /\ UnlockTime(u) \in Nat /\ MonthKey(now) \in Nat
  BY <1>0, CentsType, MonthKeyType, UnlockTimeType
<1>2. note \in Note /\ nextSecret' \in Nat
  <2>1. nextSecret' = nextSecret + 1
    BY DEF Shield
  <2>2. note \in Note
    BY <1>0 DEF Note
  <2> QED
    BY <1>0, <2>1, <2>2
<1>3. entry \in PendingShield /\ was \in QueuedAs
  BY <1>0, <1>1, <1>2 DEF PendingShield, QueuedAs
<1>4. /\ nextPendingId' = id + 1 /\ id \in Nat
      /\ pendingShields' = [i \in DOMAIN pendingShields \cup {id} |->
                              IF i = id THEN entry ELSE pendingShields[i]]
      /\ queuedAs' = [i \in 0 .. id |-> IF i = id THEN was ELSE queuedAs[i]]
  BY DEF Shield, TypeOK
<1> HIDE DEF id, note, cents, entry, was
<1>5. /\ DOMAIN pendingShields' \subseteq 0 .. nextPendingId' - 1
      /\ pendingShields' \in [DOMAIN pendingShields' -> PendingShield]
  <2>1. DOMAIN pendingShields \subseteq 0 .. id
    BY DEF TypeOK, id
  <2> QED
    BY <1>3, <1>4, <2>1 DEF TypeOK
<1>6. queuedAs' \in [0 .. nextPendingId' - 1 -> QueuedAs]
  <2>1. \A i \in 0 .. id : i # id => i \in 0 .. nextPendingId - 1
    BY <1>4 DEF id
  <2>2. nextPendingId' - 1 = id
    BY <1>4
  <2> QED
    BY <1>3, <1>4, <2>1, <2>2 DEF TypeOK
<1>7. /\ balance' \in [Assets -> Nat]
      /\ wallet' \in [Users \X Assets -> Nat]
  <2>1. /\ balance' = [balance EXCEPT ![a] = balance[a] + amount]
        /\ wallet' = [wallet EXCEPT ![<<u, a>>] = wallet[<<u, a>>] - amount]
        /\ wallet[<<u, a>>] >= amount
    BY DEF Shield
  <2>2. <<u, a>> \in Users \X Assets
    OBVIOUS
  <2>3. wallet[<<u, a>>] - amount \in Nat
    BY <1>0, <2>1, <2>2 DEF TypeOK
  <2>4. balance[a] + amount \in Nat
    BY <1>0 DEF TypeOK
  <2>5. balance' \in [Assets -> Nat]
    BY <2>1, <2>4, UpdateType DEF TypeOK
  <2> QED
    BY <2>1, <2>2, <2>3, <2>5, UpdateType DEF TypeOK
<1>8. shieldUsage' \in [Users -> MonthlyVolume]
  <2>1. shieldUsage[u] \in MonthlyVolume
    BY DEF TypeOK
  <2>2. Bumped(shieldUsage[u], MonthKey(now), cents) \in MonthlyVolume
    BY <1>1, <2>1, CapsType
  <2> QED
    BY <2>2 DEF Shield, TypeOK, cents
<1>9. nextPendingId' \in Nat
  BY <1>4
<1>10. UNCHANGED <<now, admin, unshieldUsage, tree, proved>>
  BY DEF Shield
<1> QED
  BY <1>2, <1>5, <1>6, <1>7, <1>8, <1>9, <1>10 DEF TypeOK, admin, tree

LEMMA LandTypeOK ==
  ASSUME TypeOK, NEW id, Land(id)
  PROVE  TypeOK'
<1>1. id \in DOMAIN pendingShields /\ pendingShields[id] \in PendingShield
  BY DEF Land, Live, TypeOK
<1>2. leaves' \in Seq(Note)
  BY <1>1 DEF Land, TypeOK, PendingShield
<1>3. /\ DOMAIN pendingShields' = DOMAIN pendingShields \ {id}
      /\ pendingShields' \in [DOMAIN pendingShields' -> PendingShield]
  BY <1>1 DEF Land, Deleted, Restrict, TypeOK
<1> QED
  BY <1>2, <1>3 DEF Land, TypeOK, admin, usage, funds, client

LEMMA RefundTypeOK ==
  ASSUME TypeOK, NEW id, Refund(id)
  PROVE  TypeOK'
<1> DEFINE p == pendingShields[id]
<1>1. id \in DOMAIN pendingShields /\ p \in PendingShield
  BY DEF Refund, Live, TypeOK
<1>2. /\ p.shielder \in Users /\ p.asset \in Assets /\ p.amount \in Nat
      /\ p.usdCentsCharged \in Nat
  BY <1>1, PampaloAssumption DEF PendingShield
<1>3. [p EXCEPT !.cancelled = TRUE] \in PendingShield
  BY <1>1 DEF PendingShield
<1>4. /\ DOMAIN pendingShields' = DOMAIN pendingShields
      /\ pendingShields' \in [DOMAIN pendingShields' -> PendingShield]
  BY <1>1, <1>3 DEF Refund, Marked, TypeOK
<1>5. Refunded(shieldUsage[p.shielder], MonthKey(now), p.usdCentsCharged)
        \in MonthlyVolume
  BY <1>2, CapsType, MonthKeyType DEF TypeOK
<1>6. shieldUsage' \in [Users -> MonthlyVolume]
  BY <1>5 DEF Refund, TypeOK
<1>7. /\ balance' \in [Assets -> Nat]
      /\ wallet' \in [Users \X Assets -> Nat]
  <2> DEFINE ua == <<p.shielder, p.asset>>
  <2>1. /\ balance' = [balance EXCEPT ![p.asset] = balance[p.asset] - p.amount]
        /\ wallet' = [wallet EXCEPT ![ua] = wallet[ua] + p.amount]
        /\ balance[p.asset] >= p.amount
    BY DEF Refund, PaidBack
  <2>2. ua \in Users \X Assets
    BY <1>2
  <2>3. balance \in [Assets -> Nat] /\ wallet \in [Users \X Assets -> Nat]
    BY DEF TypeOK
  <2>4. p.asset \in Assets /\ p.amount \in Nat
    BY <1>2
  <2> HIDE DEF p, ua
  <2>5. balance[p.asset] \in Nat /\ wallet[ua] \in Nat
    BY <2>2, <2>3, <2>4
  <2>6. balance[p.asset] - p.amount \in Nat /\ wallet[ua] + p.amount \in Nat
    BY <2>1, <2>4, <2>5
  <2>7. balance' \in [Assets -> Nat]
    BY <2>1, <2>3, <2>4, <2>6, UpdateType
  <2>8. wallet' \in [Users \X Assets -> Nat]
    BY <2>1, <2>2, <2>3, <2>6, UpdateType
  <2> QED
    BY <2>7, <2>8
<1>8. UNCHANGED <<now, admin, unshieldUsage, nextPendingId, queuedAs, tree, client>>
  BY DEF Refund
<1> QED
  BY <1>4, <1>6, <1>7, <1>8 DEF TypeOK, admin, tree, client

LEMMA PaymentsType ==
  ASSUME NEW n \in Nat, NEW to, NEW slots \in Payments(n, to)
  PROVE  \E k \in 0 .. n :
            slots \in [1 .. k -> [to : to, asset : Assets, amount : Amounts]]
BY DEF Payments

LEMMA NoPayments ==
  ASSUME NEW n \in Nat, NEW to
  PROVE  << >> \in Payments(n, to)
<1>1. << >> \in [1 .. 0 -> [to : to, asset : Assets, amount : Amounts]]
  <2>1. 1 .. 0 = {}
    OBVIOUS
  <2> QED
    BY <2>1, EmptyFunction
<1>2. 0 \in 0 .. n
  OBVIOUS
<1> QED
  BY <1>1, <1>2 DEF Payments

\* What a proof may name: outputs to users, exits to users or to nobody.
LEMMA SlotsTyped ==
  ASSUME NEW circuit
  PROVE  /\ OutsOf(circuit) \subseteq Payments(MaxOutputs, Users)
         /\ ExitsOf(circuit) \subseteq Payments(MaxExits, Users \cup {NoAddress})
         /\ circuit = "withdraw" => OutsOf(circuit) = {<< >>}
         /\ circuit \in {"transfer", "swap"} => ExitsOf(circuit) = {<< >>}
<1>1. MaxOutputs \in Nat /\ MaxExits \in Nat
  BY PampaloAssumption
<1>2. << >> \in Payments(MaxOutputs, Users)
      /\ << >> \in Payments(MaxExits, Users \cup {NoAddress})
  BY <1>1, NoPayments
<1>3. Payments(MaxExits, Users) \subseteq Payments(MaxExits, Users \cup {NoAddress})
  <2> SUFFICES ASSUME NEW slots \in Payments(MaxExits, Users)
               PROVE  slots \in Payments(MaxExits, Users \cup {NoAddress})
    OBVIOUS
  <2>1. PICK k \in 0 .. MaxExits :
           slots \in [1 .. k -> [to : Users, asset : Assets, amount : Amounts]]
    BY <1>1, PaymentsType
  <2>2. slots \in [1 .. k -> [to : Users \cup {NoAddress}, asset : Assets,
                             amount : Amounts]]
    BY <2>1
  <2> QED
    BY <2>2 DEF Payments
<1> QED
  BY <1>2, <1>3 DEF OutsOf, ExitsOf

LEMMA PositionType ==
  ASSUME NEW n \in Landed
  PROVE  Position(n) \in DOMAIN leaves /\ leaves[Position(n)] = n
BY DEF Landed, Range, Position

LEMMA RootOfType ==
  ASSUME TypeOK, NEW S \in SUBSET Landed, S # {}
  PROVE  RootOf(S) \in 0 .. Len(leaves)
<1> DEFINE n == CHOOSE n \in S : TRUE
           e == EpochOf(Position(n))
<1>1. n \in Landed
  OBVIOUS
<1>2. Position(n) \in DOMAIN leaves
  BY <1>1, PositionType
<1> HIDE DEF n
<1>3. Len(leaves) \in Nat /\ DOMAIN leaves = 1 .. Len(leaves)
  BY DEF TypeOK
<1>4. EpochSize \in Nat \ {0}
  BY PampaloAssumption
<1>5. e \in Nat
  BY <1>2, <1>3, <1>4 DEF EpochOf
<1> HIDE DEF e
<1>6. (e + 1) * EpochSize \in Nat
  BY <1>4, <1>5
<1>7. RootOf(S) = IF (e + 1) * EpochSize < Len(leaves)
                  THEN (e + 1) * EpochSize ELSE Len(leaves)
  BY DEF RootOf, e, n
<1> QED
  BY <1>3, <1>6, <1>7

LEMMA FreshType ==
  ASSUME TypeOK, NEW outs \in Payments(MaxOutputs, Users)
  PROVE  /\ FreshOf(outs) \in Seq(Note)
         /\ Len(outs) \in Nat /\ DOMAIN outs = 1 .. Len(outs)
         /\ DOMAIN FreshOf(outs) = 1 .. Len(outs)
         /\ \A i \in 1 .. Len(outs) : FreshOf(outs)[i].secret = nextSecret + i - 1
<1>1. MaxOutputs \in Nat /\ nextSecret \in Nat
  BY PampaloAssumption DEF TypeOK
<1>2. PICK k \in 0 .. MaxOutputs :
         outs \in [1 .. k -> [to : Users, asset : Assets, amount : Amounts]]
  BY <1>1, PaymentsType
<1>3. k \in Nat /\ Len(outs) = k /\ DOMAIN outs = 1 .. k
  BY <1>1, <1>2
<1>4. ASSUME NEW i \in 1 .. k
      PROVE  FreshOf(outs)[i] \in Note
  <2>1. outs[i] \in [to : Users, asset : Assets, amount : Amounts]
    BY <1>2
  <2>2. nextSecret + i - 1 \in Nat
    BY <1>1, <1>3
  <2>3. FreshOf(outs)[i] =
          [owner |-> outs[i].to, asset |-> outs[i].asset,
           amount |-> outs[i].amount, secret |-> nextSecret + i - 1]
    BY <1>3 DEF FreshOf
  <2> QED
    BY <2>1, <2>2, <2>3 DEF Note
<1>5. FreshOf(outs) \in [1 .. k -> Note]
  BY <1>3, <1>4 DEF FreshOf
<1>6. FreshOf(outs) \in Seq(Note)
  BY <1>3, <1>5
<1> QED
  BY <1>3, <1>6 DEF FreshOf

LEMMA ExitsType ==
  ASSUME NEW exits \in Payments(MaxExits, Users \cup {NoAddress})
  PROVE  exits \in Seq(Exit)
<1>1. MaxExits \in Nat
  BY PampaloAssumption
<1>2. PICK k \in 0 .. MaxExits : exits \in [1 .. k -> Exit]
  BY <1>1, PaymentsType DEF Exit
<1>3. k \in Nat
  BY <1>1
<1> QED
  BY <1>2, <1>3

LEMMA ProveTypeOK ==
  ASSUME TypeOK, NEW u \in Users, NEW circuit \in Circuits,
         NEW ins \in SUBSET Spendable(u),
         NEW outs \in OutsOf(circuit), NEW exits \in ExitsOf(circuit),
         Prove(u, circuit, ins, outs, exits)
  PROVE  TypeOK'
<1> DEFINE p == [circuit |-> circuit, root |-> RootOf(ins), ins |-> ins,
                 outs |-> FreshOf(outs), exits |-> exits,
                 swapIn |-> SwapIn(circuit, ins, outs)]
<1>1. proved' = proved \cup {p} /\ nextSecret' = nextSecret + Len(outs)
  BY DEF Prove
<1>2. ins # {} /\ ins \in SUBSET Landed
  BY DEF Prove, Spendable
<1>3. RootOf(ins) \in Nat
  <2>1. RootOf(ins) \in 0 .. Len(leaves)
    BY <1>2, RootOfType
  <2>2. Len(leaves) \in Nat
    BY DEF TypeOK
  <2> QED
    BY <2>1, <2>2
<1>4. ins \subseteq Note
  BY <1>2 DEF Landed, Range, TypeOK
<1>5. p \in Spend
  <2>1. SwapIn(circuit, ins, outs) \in Nat
    BY DEF Prove
  <2>2. FreshOf(outs) \in Seq(Note) /\ exits \in Seq(Exit)
    BY SlotsTyped, FreshType, ExitsType
  <2> QED
    BY <1>3, <1>4, <2>1, <2>2 DEF Spend
<1> HIDE DEF p
<1>6. proved' \subseteq Spend /\ nextSecret' \in Nat
  BY <1>1, <1>5, SlotsTyped, FreshType DEF TypeOK
<1>7. UNCHANGED <<now, admin, usage, queue, tree, funds>>
  BY DEF Prove
<1> QED
  BY <1>6, <1>7 DEF TypeOK, admin, usage, queue, tree, funds

LEMMA BurnInsertType ==
  ASSUME TypeOK, NEW p \in proved, BurnInsertCheck(p)
  PROVE  leaves' \in Seq(Note) /\ nullifierUsed' \subseteq Note
BY DEF TypeOK, BurnInsertCheck, Spend

LEMMA ElementType ==
  ASSUME NEW S, NEW s \in Seq(S), NEW i \in DOMAIN s
  PROVE  s[i] \in S
OBVIOUS

LEMMA ExitAmountType ==
  ASSUME TypeOK, NEW p \in proved, NEW i, NEW u, NEW a
  PROVE  /\ ExitAmount(p, i, a) \in Nat
         /\ ExitTo(p, i, u, a) \in Nat
         /\ ExitCents(p, i) \in Nat
<1>1. p.exits \in Seq(Exit)
  BY DEF TypeOK, Spend
<1>2. Paid(p, i) =>
        p.exits[i].asset \in Assets /\ p.exits[i].amount \in Nat
  <2> SUFFICES ASSUME Paid(p, i)
               PROVE  p.exits[i].asset \in Assets /\ p.exits[i].amount \in Nat
    OBVIOUS
  <2>1. p.exits[i] \in Exit
    BY <1>1, ElementType DEF Paid
  <2>2. Amounts \subseteq Nat
    BY PampaloAssumption
  <2> QED
    BY <2>1, <2>2 DEF Exit
<1>3. Paid(p, i) =>
        PriceUsdCents(p.exits[i].asset, p.exits[i].amount) \in Nat
  BY <1>2, CentsType
<1>4. ExitAmount(p, i, a) \in Nat
  BY <1>2 DEF ExitAmount
<1>5. ExitTo(p, i, u, a) \in Nat
  BY <1>4 DEF ExitTo
<1>6. ExitCents(p, i) \in Nat
  BY <1>3 DEF ExitCents
<1> QED
  BY <1>4, <1>5, <1>6

LEMMA ProcessExitsType ==
  ASSUME TypeOK, NEW p \in proved, NEW sender \in Users,
         ProcessExitsAndCharge(p, sender)
  PROVE  /\ balance' \in [Assets -> Nat]
         /\ wallet' \in [Users \X Assets -> Nat]
         /\ unshieldUsage' \in [Users -> MonthlyVolume]
<1>1. ASSUME NEW a
      PROVE  TotalOut(p, a) \in Nat
  BY ExitAmountType DEF TotalOut
<1>2. ASSUME NEW u, NEW a
      PROVE  TotalTo(p, u, a) \in Nat
  BY ExitAmountType DEF TotalTo
<1>3. TotalCents(p) \in Nat
  BY ExitAmountType DEF TotalCents
<1>4. balance' \in [Assets -> Nat]
  <2>1. \A a \in Assets : balance[a] \in Nat /\ balance[a] >= TotalOut(p, a)
    BY DEF ProcessExitsAndCharge, TypeOK
  <2>2. \A a \in Assets : balance[a] - TotalOut(p, a) \in Nat
    BY <1>1, <2>1
  <2>3. balance' = [a \in Assets |-> balance[a] - TotalOut(p, a)]
    BY DEF ProcessExitsAndCharge
  <2> QED
    BY <2>2, <2>3
<1>5. wallet' \in [Users \X Assets -> Nat]
  <2>1. \A ua \in Users \X Assets : wallet[ua] + TotalTo(p, ua[1], ua[2]) \in Nat
    BY <1>2 DEF TypeOK
  <2>2. wallet' = [ua \in Users \X Assets |->
                     wallet[ua] + TotalTo(p, ua[1], ua[2])]
    BY DEF ProcessExitsAndCharge
  <2> QED
    BY <2>1, <2>2
<1>6. unshieldUsage' \in [Users -> MonthlyVolume]
  <2>1. CASE UNCHANGED unshieldUsage
    BY <2>1 DEF TypeOK
  <2>2. CASE unshieldUsage' = [unshieldUsage EXCEPT ![sender] =
               Bumped(unshieldUsage[sender], MonthKey(now), TotalCents(p))]
    <3>1. unshieldUsage[sender] \in MonthlyVolume /\ MonthKey(now) \in Nat
      BY MonthKeyType DEF TypeOK
    <3>2. Bumped(unshieldUsage[sender], MonthKey(now), TotalCents(p))
            \in MonthlyVolume
      BY <1>3, <3>1, CapsType
    <3> QED
      BY <2>2, <3>2, UpdateType DEF TypeOK
  <2> QED
    BY <2>1, <2>2 DEF ProcessExitsAndCharge
<1> QED
  BY <1>4, <1>5, <1>6

LEMMA SpendTypeOK ==
  ASSUME TypeOK, NEW p \in proved, NEW sender \in Users,
         \/ Transfer(p)
         \/ Unshield(p, sender)
         \/ UnshieldBundled(p, sender)
  PROVE  TypeOK'
<1>1. leaves' \in Seq(Note) /\ nullifierUsed' \subseteq Note
  BY BurnInsertType DEF Transfer, Unshield, UnshieldBundled
<1>2. CASE Transfer(p)
  BY <1>1, <1>2 DEF Transfer, TypeOK, admin, usage, queue, funds, client
<1>3. CASE Unshield(p, sender) \/ UnshieldBundled(p, sender)
  <2>1. /\ balance' \in [Assets -> Nat]
        /\ wallet' \in [Users \X Assets -> Nat]
        /\ unshieldUsage' \in [Users -> MonthlyVolume]
    BY <1>3, ProcessExitsType DEF Unshield, UnshieldBundled
  <2>2. UNCHANGED <<now, admin, shieldUsage, queue, client>>
    BY <1>3 DEF Unshield, UnshieldBundled
  <2> QED
    BY <1>1, <2>1, <2>2 DEF TypeOK, admin, queue, client
<1> QED
  BY <1>2, <1>3

LEMMA SwapTypeOK ==
  ASSUME TypeOK, NEW p \in proved, NEW got \in Fills, PrivateSwap(p, got)
  PROVE  TypeOK'
<1>1. leaves' \in Seq(Note) /\ nullifierUsed' \subseteq Note
  BY BurnInsertType DEF PrivateSwap
<1>2. balance' \in [Assets -> Nat]
  <2>1. got \in Nat /\ p.swapIn \in Nat
    BY PampaloAssumption DEF TypeOK, Spend
  <2>2. \A a \in Assets : balance[a] \in Nat /\ balance[a] >= Given(p, a)
    BY DEF PrivateSwap, TypeOK
  <2>3. \A a \in Assets : Given(p, a) \in Nat /\ Taken(p, a, got) \in Nat
    BY <2>1 DEF Given, Taken
  <2>4. \A a \in Assets : balance[a] - Given(p, a) + Taken(p, a, got) \in Nat
    BY <2>2, <2>3
  <2>5. balance' = [a \in Assets |-> balance[a] - Given(p, a) + Taken(p, a, got)]
    BY DEF PrivateSwap
  <2> QED
    BY <2>4, <2>5
<1>3. UNCHANGED <<now, admin, usage, queue, wallet, client>>
  BY DEF PrivateSwap
<1> QED
  BY <1>1, <1>2, <1>3 DEF TypeOK, admin, usage, queue, client

LEMMA NextTypeOK == TypeOK /\ [Next]_vars => TypeOK'
<1> SUFFICES ASSUME TypeOK, [Next]_vars PROVE TypeOK'
  OBVIOUS
<1>1. CASE Environment
  BY <1>1, TickTypeOK, AdminTypeOK DEF Environment
<1>2. CASE Admin
  BY <1>2, AdminTypeOK
<1>3. CASE Queueing
  BY <1>3, ShieldTypeOK, LandTypeOK, RefundTypeOK
  DEF Queueing, ExecuteShield, ExecuteShieldImmediate, CancelShield, ContestShield
<1>4. CASE Spending
  <2>1. ASSUME NEW p \in proved, Transfer(p) PROVE TypeOK'
    <3>1. CASE Users = {}
      BY <2>1, <3>1, BurnInsertType
      DEF Transfer, TypeOK, admin, usage, queue, funds, client
    <3> QED
      BY <2>1, <3>1, SpendTypeOK
  <2> QED
    BY <1>4, <2>1, ProveTypeOK, SpendTypeOK, SwapTypeOK DEF Spending
<1>5. CASE UNCHANGED vars
  BY <1>5 DEF vars, TypeOK, admin, usage, queue, tree, funds, client
<1> QED
  BY <1>1, <1>2, <1>3, <1>4, <1>5 DEF Next

\* Every variable keeps its type: no balance, wallet or bucket ever goes below
\* zero and no admin call takes the wait under its floor.
THEOREM TypeCorrect == Spec => []TypeOK
<1>1. Init => TypeOK
  BY InitTypeOK
<1>2. TypeOK /\ [Next]_vars => TypeOK'
  BY NextTypeOK
<1> QED
  BY <1>1, <1>2, PTL DEF Spec

-----------------------------------------------------------------------------
(* The contest window and the budget views *)

\* An entry not vouched for at queueing unlocks MinShieldWaitTime after it, or
\* later: the knobs turned since are not consulted again.
WaitKept ==
  \A id \in DOMAIN pendingShields :
     \/ queuedAs[id].vouched
     \/ pendingShields[id].unlockTime >= queuedAs[id].at + MinShieldWaitTime

WindowInv == TypeOK /\ WaitKept

LEMMA InitWindow == Init => WindowInv
<1> SUFFICES ASSUME Init PROVE WindowInv
  OBVIOUS
<1>1. DOMAIN pendingShields = {}
  BY EmptyFunction DEF Init
<1> QED
  BY <1>1, InitTypeOK DEF WindowInv, WaitKept

LEMMA ShieldWindow ==
  ASSUME WindowInv, NEW u \in Users, NEW a \in Assets, NEW amount \in Amounts,
         Shield(u, a, amount)
  PROVE  WaitKept'
<1> DEFINE note  == [owner |-> u, asset |-> a, amount |-> amount,
                     secret |-> nextSecret]
           entry == [shielder |-> u, asset |-> a, amount |-> amount,
                     leafCommitment |-> note, unlockTime |-> UnlockTime(u),
                     usdCentsCharged |-> PriceUsdCents(a, amount),
                     cancelled |-> FALSE]
           was   == [shielder |-> u, note |-> note, at |-> now,
                     cents |-> PriceUsdCents(a, amount),
                     vouched |-> fastTrackAllowedMonth[u] = MonthKey(now)]
<1>0. PICK new \in Nat : new = nextPendingId
  BY DEF WindowInv, TypeOK
<1>1. /\ pendingShields' = [i \in DOMAIN pendingShields \cup {new} |->
                              IF i = new THEN entry ELSE pendingShields[i]]
      /\ queuedAs' = [i \in 0 .. new |-> IF i = new THEN was ELSE queuedAs[i]]
  BY <1>0 DEF Shield
<1>2. /\ entry.unlockTime = UnlockTime(u) /\ was.at = now
      /\ was.vouched = (fastTrackAllowedMonth[u] = MonthKey(now))
  OBVIOUS
<1>3. DOMAIN pendingShields \subseteq 0 .. new - 1
  BY <1>0 DEF WindowInv, TypeOK
<1> HIDE DEF entry, was, note
<1>4. was.vouched \/ entry.unlockTime >= was.at + MinShieldWaitTime
  <2>1. CASE fastTrackAllowedMonth[u] = MonthKey(now)
    BY <1>2, <2>1
  <2>2. CASE fastTrackAllowedMonth[u] # MonthKey(now)
    <3>1. UnlockTime(u) = now + shieldWaitTime
      BY <2>2 DEF UnlockTime, IsFastTracked
    <3>2. /\ now \in Nat /\ shieldWaitTime \in Nat
          /\ shieldWaitTime >= MinShieldWaitTime
      BY DEF WindowInv, TypeOK
    <3>3. MinShieldWaitTime \in Nat
      BY PampaloAssumption
    <3> QED
      BY <1>2, <3>1, <3>2, <3>3
  <2> QED
    BY <2>1, <2>2
<1>5. ASSUME NEW id \in DOMAIN pendingShields, id # new
      PROVE  pendingShields'[id] = pendingShields[id] /\ queuedAs'[id] = queuedAs[id]
  BY <1>0, <1>1, <1>3, <1>5
<1>6. /\ DOMAIN pendingShields' = DOMAIN pendingShields \cup {new}
      /\ pendingShields'[new] = entry /\ queuedAs'[new] = was
  BY <1>0, <1>1
<1>7. \A id \in DOMAIN pendingShields : id # new
  BY <1>0, <1>3
<1> QED
  BY <1>4, <1>5, <1>6, <1>7 DEF WindowInv, WaitKept

LEMMA NextWindow == WindowInv /\ [Next]_vars => WindowInv'
<1> SUFFICES ASSUME WindowInv, [Next]_vars PROVE WindowInv'
  OBVIOUS
<1>1. TypeOK'
  BY NextTypeOK DEF WindowInv
<1> SUFFICES WaitKept'
  BY <1>1 DEF WindowInv
<1>2. ASSUME UNCHANGED queue PROVE WaitKept'
  BY <1>2 DEF queue, WindowInv, WaitKept
<1>3. CASE Environment \/ Admin
  BY <1>2, <1>3
  DEF Admin, Environment, Tick, PriceMoves, AddSupportedAsset,
      DisableSupportedAsset, SetDefaultMonthlyCap, SetAddressMonthlyCap,
      SetFastTrackAllowed, SetShieldWaitTime, WeAreFull, WeFoundRoom,
      SetDepositsHalted
<1>4. ASSUME NEW id, Land(id) PROVE WaitKept'
  <2>1. /\ DOMAIN pendingShields' = DOMAIN pendingShields \ {id}
        /\ \A jd \in DOMAIN pendingShields \ {id} :
              pendingShields'[jd] = pendingShields[jd]
        /\ queuedAs' = queuedAs
    BY <1>4 DEF Land, Deleted, Restrict
  <2> QED
    BY <2>1 DEF WindowInv, WaitKept
<1>5. ASSUME NEW id, Refund(id) PROVE WaitKept'
  <2>1. /\ pendingShields' = [pendingShields EXCEPT ![id] =
                                [pendingShields[id] EXCEPT !.cancelled = TRUE]]
        /\ queuedAs' = queuedAs
    BY <1>5 DEF Refund, Marked, Live
  <2>2. \A jd \in DOMAIN pendingShields : pendingShields[jd] \in PendingShield
    BY DEF WindowInv, TypeOK
  <2>3. DOMAIN pendingShields' = DOMAIN pendingShields
    BY <2>1
  <2>4. ASSUME NEW jd \in DOMAIN pendingShields
        PROVE  pendingShields'[jd].unlockTime = pendingShields[jd].unlockTime
    BY <2>1, <2>2 DEF PendingShield
  <2> QED
    BY <2>1, <2>3, <2>4 DEF WindowInv, WaitKept
<1>6. CASE Queueing
  BY <1>4, <1>5, <1>6, ShieldWindow
  DEF Queueing, ExecuteShield, ExecuteShieldImmediate, CancelShield, ContestShield
<1>7. CASE Spending
  BY <1>2, <1>7 DEF Spending, Prove, Transfer, Unshield, UnshieldBundled, PrivateSwap
<1>8. CASE UNCHANGED vars
  BY <1>2, <1>8 DEF vars
<1> QED
  BY <1>3, <1>6, <1>7, <1>8 DEF Next

LEMMA WindowInvariant == Spec => []WindowInv
<1>1. Init => WindowInv
  BY InitWindow
<1>2. WindowInv /\ [Next]_vars => WindowInv'
  BY NextWindow
<1> QED
  BY <1>1, <1>2, PTL DEF Spec

LEMMA ExecuteNeedsWait ==
  ASSUME WindowInv, NEW id \in Ids, ExecuteShield(id)
  PROVE  queuedAs[id].vouched \/ now >= queuedAs[id].at + MinShieldWaitTime
<1>1. id \in DOMAIN pendingShields /\ now >= pendingShields[id].unlockTime
  BY DEF ExecuteShield, Live, WaitOver
<1>2. /\ pendingShields[id].unlockTime \in Nat /\ now \in Nat
      /\ queuedAs[id].at \in Nat
  BY <1>1 DEF WindowInv, TypeOK, PendingShield, QueuedAs, Ids
<1>3. MinShieldWaitTime \in Nat
  BY PampaloAssumption
<1> QED
  BY <1>1, <1>2, <1>3 DEF WindowInv, WaitKept

\* executeShield lands no entry before MIN_SHIELD_WAIT_TIME has passed since it
\* was queued, unless its shielder was vouched for in that month.
THEOREM WindowHolds == Spec => ContestWindow
<1>1. WindowInv => (\A id \in Ids : ExecuteShield(id) =>
                      \/ queuedAs[id].vouched
                      \/ now >= queuedAs[id].at + MinShieldWaitTime)
  BY ExecuteNeedsWait
<1> QED
  BY <1>1, WindowInvariant, PTL DEF ContestWindow

\* The budget views tell exactly what a charge will be let through, in every
\* reachable state.
THEOREM BudgetViewsAgree == Spec => []BudgetViewAgrees
<1>1. TypeOK => BudgetViewAgrees
  <2> SUFFICES ASSUME TypeOK, NEW u \in Users,
                      NEW vol \in {shieldUsage[u], unshieldUsage[u]},
                      NEW a \in Assets, NEW n \in Amounts,
                      PriceUsdCents(a, n) # 0
               PROVE  Fits(vol, MonthKey(now), CapOf(u), PriceUsdCents(a, n))
                        <=> PriceUsdCents(a, n) <= Remaining(vol, MonthKey(now), CapOf(u))
    BY DEF BudgetViewAgrees
  <2>1. PriceUsdCents(a, n) \in Nat
    BY CentsType, PampaloAssumption
  <2>2. CapOf(u) \in Nat
    BY DEF CapOf, EffectiveCap, TypeOK
  <2>3. UsedIn(vol, MonthKey(now)) \in Nat
    BY DEF UsedIn, MonthlyVolume, TypeOK
  <2> QED
    BY <2>1, <2>2, <2>3 DEF Fits, Remaining
<1> QED
  BY <1>1, TypeCorrect, PTL

-----------------------------------------------------------------------------
(* Sequences that grow *)

LEMMA AppendRange ==
  ASSUME NEW S, NEW s \in Seq(S), NEW x \in S
  PROVE  Range(Append(s, x)) = Range(s) \cup {x}
<1>1. /\ DOMAIN s = 1 .. Len(s) /\ Len(s) \in Nat
      /\ DOMAIN Append(s, x) = 1 .. (Len(s) + 1)
      /\ \A i \in 1 .. Len(s) : Append(s, x)[i] = s[i]
      /\ Append(s, x)[Len(s) + 1] = x
  OBVIOUS
<1>2. 1 .. (Len(s) + 1) = 1 .. Len(s) \cup {Len(s) + 1}
  BY <1>1
<1> QED
  BY <1>1, <1>2 DEF Range

LEMMA ConcatRange ==
  ASSUME NEW S, NEW s \in Seq(S), NEW t \in Seq(S)
  PROVE  Range(s \o t) = Range(s) \cup Range(t)
<1>1. /\ DOMAIN s = 1 .. Len(s) /\ Len(s) \in Nat
      /\ DOMAIN t = 1 .. Len(t) /\ Len(t) \in Nat
      /\ DOMAIN (s \o t) = 1 .. (Len(s) + Len(t))
      /\ \A i \in 1 .. Len(s) : (s \o t)[i] = s[i]
      /\ \A i \in 1 .. Len(t) : (s \o t)[Len(s) + i] = t[i]
  OBVIOUS
<1>2. \A i \in 1 .. (Len(s) + Len(t)) : i \in 1 .. Len(s) \/ i - Len(s) \in 1 .. Len(t)
  BY <1>1
<1>3. \A i \in 1 .. (Len(s) + Len(t)) :
         \/ i \in 1 .. Len(s) /\ (s \o t)[i] = s[i]
         \/ i - Len(s) \in 1 .. Len(t) /\ (s \o t)[i] = t[i - Len(s)]
  BY <1>1, <1>2
<1>4. Range(s \o t) \subseteq Range(s) \cup Range(t)
  BY <1>1, <1>3 DEF Range
<1>5. ASSUME NEW x \in Range(s) \cup Range(t)
      PROVE  x \in Range(s \o t)
  <2>1. CASE x \in Range(s)
    <3>1. PICK i \in 1 .. Len(s) : s[i] = x
      BY <1>1, <2>1 DEF Range
    <3> QED
      BY <1>1, <3>1 DEF Range
  <2>2. CASE x \in Range(t)
    <3>1. PICK i \in 1 .. Len(t) : t[i] = x
      BY <1>1, <2>2 DEF Range
    <3>2. Len(s) + i \in DOMAIN (s \o t) /\ (s \o t)[Len(s) + i] = x
      BY <1>1, <3>1
    <3> QED
      BY <3>2 DEF Range
  <2> QED
    BY <2>1, <2>2
<1> QED
  BY <1>4, <1>5

LEMMA AppendInjective ==
  ASSUME NEW S, NEW s \in Seq(S), NEW x \in S, IsInjective(s), x \notin Range(s)
  PROVE  IsInjective(Append(s, x))
<1>1. /\ DOMAIN s = 1 .. Len(s) /\ Len(s) \in Nat
      /\ DOMAIN Append(s, x) = 1 .. (Len(s) + 1)
      /\ \A i \in 1 .. Len(s) : Append(s, x)[i] = s[i]
      /\ Append(s, x)[Len(s) + 1] = x
  OBVIOUS
<1>2. \A i \in 1 .. Len(s) : s[i] # x
  BY <1>1 DEF Range
<1>3. \A i, j \in 1 .. Len(s) : s[i] = s[j] => i = j
  BY <1>1 DEF IsInjective
<1>4. \A i \in 1 .. (Len(s) + 1) : i \in 1 .. Len(s) \/ i = Len(s) + 1
  BY <1>1
<1> QED
  BY <1>1, <1>2, <1>3, <1>4 DEF IsInjective

LEMMA ConcatInjective ==
  ASSUME NEW S, NEW s \in Seq(S), NEW t \in Seq(S),
         IsInjective(s), IsInjective(t), Range(s) \cap Range(t) = {}
  PROVE  IsInjective(s \o t)
<1>1. /\ DOMAIN s = 1 .. Len(s) /\ Len(s) \in Nat
      /\ DOMAIN t = 1 .. Len(t) /\ Len(t) \in Nat
      /\ DOMAIN (s \o t) = 1 .. (Len(s) + Len(t))
  OBVIOUS
<1>2. ASSUME NEW i \in 1 .. (Len(s) + Len(t))
      PROVE  \/ i \in 1 .. Len(s) /\ (s \o t)[i] = s[i]
             \/ i - Len(s) \in 1 .. Len(t) /\ (s \o t)[i] = t[i - Len(s)]
  BY <1>1
<1>3. \A i \in 1 .. Len(s), j \in 1 .. Len(t) : s[i] # t[j]
  BY <1>1 DEF Range
<1>4. \A i, j \in 1 .. Len(s) : s[i] = s[j] => i = j
  BY <1>1 DEF IsInjective
<1>5. \A i, j \in 1 .. Len(t) : t[i] = t[j] => i = j
  BY <1>1 DEF IsInjective
<1>6. ASSUME NEW i \in 1 .. (Len(s) + Len(t)), NEW j \in 1 .. (Len(s) + Len(t)),
             (s \o t)[i] = (s \o t)[j]
      PROVE  i = j
  <2>1. CASE i \in 1 .. Len(s) /\ (s \o t)[i] = s[i]
    BY <1>2, <1>3, <1>4, <1>6, <2>1
  <2>2. CASE i - Len(s) \in 1 .. Len(t) /\ (s \o t)[i] = t[i - Len(s)]
    <3>1. CASE j \in 1 .. Len(s) /\ (s \o t)[j] = s[j]
      BY <1>3, <1>6, <2>2, <3>1
    <3>2. CASE j - Len(s) \in 1 .. Len(t) /\ (s \o t)[j] = t[j - Len(s)]
      <4>1. i - Len(s) = j - Len(s)
        BY <1>5, <1>6, <2>2, <3>2
      <4> QED
        BY <1>1, <4>1
    <3> QED
      BY <1>2, <3>1, <3>2
  <2> QED
    BY <1>2, <2>1, <2>2
<1> QED
  BY <1>1, <1>6 DEF IsInjective

-----------------------------------------------------------------------------
(* The invariant *)

LEMMA InitInv == Init => Inv
<1> SUFFICES ASSUME Init PROVE Inv
  OBVIOUS
<1>1. TypeOK
  BY InitTypeOK
<1>2. /\ DOMAIN pendingShields = {} /\ Ids = {}
      /\ Landed = {} /\ DOMAIN leaves = {}
      /\ proved = {} /\ nullifierUsed = {}
  BY EmptyFunction DEF Init, Ids, Landed, Range
<1> QED
  BY <1>1, <1>2
  DEF Inv, EntriesFaithful, QueuedFresh, LeavesFresh, OutputsFresh,
      SpendsPending, EscrowOrNote, LandedOnce, IsInjective

\* A step that leaves the queue, the tree and the proved spends alone.
LEMMA QuietInv ==
  ASSUME Inv, TypeOK', UNCHANGED <<queue, tree, client>>
  PROVE  Inv'
BY DEF Inv, EntriesFaithful, QueuedFresh, LeavesFresh, OutputsFresh,
       SpendsPending, EscrowOrNote, LandedOnce,
       queue, tree, client, NoteOf, Ids, Landed

LEMMA AdminQuiet ==
  ASSUME Admin \/ Environment
  PROVE  UNCHANGED <<queue, tree, client>>
BY DEF Admin, Environment, Tick, PriceMoves, AddSupportedAsset,
       DisableSupportedAsset, SetDefaultMonthlyCap, SetAddressMonthlyCap,
       SetFastTrackAllowed, SetShieldWaitTime, WeAreFull, WeFoundRoom,
       SetDepositsHalted

LEMMA IdsType ==
  ASSUME TypeOK
  PROVE  /\ Ids = 0 .. nextPendingId - 1 /\ nextPendingId \in Nat
         /\ nextPendingId \notin Ids
         /\ DOMAIN pendingShields \subseteq Ids
         /\ \A id \in Ids : NoteOf(id) \in Note
<1>1. Ids = 0 .. nextPendingId - 1 /\ nextPendingId \in Nat
  BY DEF TypeOK, Ids
<1>2. DOMAIN pendingShields \subseteq Ids
  BY <1>1 DEF TypeOK
<1>3. \A id \in Ids : NoteOf(id) \in Note
  BY DEF TypeOK, Ids, NoteOf, QueuedAs
<1> QED
  BY <1>1, <1>2, <1>3

LEMMA SecretsType ==
  ASSUME TypeOK
  PROVE  /\ nextSecret \in Nat
         /\ \A n \in Note : n.secret \in Nat
         /\ Landed \subseteq Note
         /\ \A p \in proved : p.outs \in Seq(Note) /\ Range(p.outs) \subseteq Note
<1>1. nextSecret \in Nat /\ leaves \in Seq(Note) /\ proved \subseteq Spend
  BY DEF TypeOK
<1>2. \A s \in Seq(Note) : Range(s) \subseteq Note
  BY DEF Range
<1>3. \A p \in proved : p.outs \in Seq(Note)
  BY <1>1 DEF Spend
<1> QED
  BY <1>1, <1>2, <1>3 DEF Landed, Note

\* What a shield writes: a new id, a note with the next secret.
LEMMA ShieldEffect ==
  ASSUME TypeOK, NEW u \in Users, NEW a \in Assets, NEW amount \in Amounts,
         Shield(u, a, amount)
  PROVE  \E new \in Nat, note \in Note :
           /\ note = [owner |-> u, asset |-> a, amount |-> amount,
                      secret |-> nextSecret]
           /\ nextSecret' = nextSecret + 1
           /\ Ids = 0 .. new - 1 /\ Ids' = Ids \cup {new} /\ new \notin Ids
           /\ NoteOf(new)' = note
           /\ \A id \in Ids : NoteOf(id)' = NoteOf(id)
           /\ DOMAIN pendingShields' = DOMAIN pendingShields \cup {new}
           /\ pendingShields'[new] =
                [shielder |-> u, asset |-> a, amount |-> amount,
                 leafCommitment |-> note, unlockTime |-> UnlockTime(u),
                 usdCentsCharged |-> PriceUsdCents(a, amount),
                 cancelled |-> FALSE]
           /\ note.secret = nextSecret
           /\ pendingShields'[new].leafCommitment = note
           /\ ~pendingShields'[new].cancelled
           /\ \A id \in DOMAIN pendingShields : pendingShields'[id] = pendingShields[id]
           /\ UNCHANGED <<leaves, nullifierUsed, proved>>
<1> DEFINE note == [owner |-> u, asset |-> a, amount |-> amount,
                    secret |-> nextSecret]
           entry == [shielder |-> u, asset |-> a, amount |-> amount,
                     leafCommitment |-> note, unlockTime |-> UnlockTime(u),
                     usdCentsCharged |-> PriceUsdCents(a, amount),
                     cancelled |-> FALSE]
           was   == [shielder |-> u, note |-> note, at |-> now,
                     cents |-> PriceUsdCents(a, amount),
                     vouched |-> fastTrackAllowedMonth[u] = MonthKey(now)]
<1>0. PICK new \in Nat : new = nextPendingId
  BY IdsType
<1>1. /\ pendingShields' = [i \in DOMAIN pendingShields \cup {new} |->
                              IF i = new THEN entry ELSE pendingShields[i]]
      /\ queuedAs' = [i \in 0 .. new |-> IF i = new THEN was ELSE queuedAs[i]]
      /\ nextSecret' = nextSecret + 1
      /\ UNCHANGED <<leaves, nullifierUsed, proved>>
  BY <1>0 DEF Shield, tree
<1>2. note \in Note /\ note.secret = nextSecret
  BY SecretsType DEF Note
<1>3. entry.leafCommitment = note /\ ~entry.cancelled /\ was.note = note
  OBVIOUS
<1>4. /\ Ids = 0 .. new - 1 /\ new \in Nat /\ new \notin Ids
      /\ DOMAIN pendingShields \subseteq Ids
  BY <1>0, IdsType
<1> HIDE DEF entry, was, note
<1>5. Ids' = Ids \cup {new}
  BY <1>1, <1>4 DEF Ids
<1>6. /\ NoteOf(new)' = note
      /\ \A id \in Ids : NoteOf(id)' = NoteOf(id)
  BY <1>1, <1>3, <1>4 DEF NoteOf
<1>7. /\ DOMAIN pendingShields' = DOMAIN pendingShields \cup {new}
      /\ pendingShields'[new] = entry
      /\ \A id \in DOMAIN pendingShields : pendingShields'[id] = pendingShields[id]
  BY <1>1, <1>4
<1>8. /\ note = [owner |-> u, asset |-> a, amount |-> amount, secret |-> nextSecret]
      /\ entry = [shielder |-> u, asset |-> a, amount |-> amount,
                  leafCommitment |-> note, unlockTime |-> UnlockTime(u),
                  usdCentsCharged |-> PriceUsdCents(a, amount),
                  cancelled |-> FALSE]
  BY DEF note, entry
<1> QED
  BY <1>1, <1>2, <1>3, <1>4, <1>5, <1>6, <1>7, <1>8

LEMMA ShieldInv ==
  ASSUME Inv, TypeOK', NEW u \in Users, NEW a \in Assets, NEW amount \in Amounts,
         Shield(u, a, amount)
  PROVE  Inv'
<1>0. TypeOK
  BY DEF Inv
<1>1. PICK new \in Nat, note \in Note :
           /\ note.secret = nextSecret /\ nextSecret' = nextSecret + 1
           /\ Ids' = Ids \cup {new} /\ new \notin Ids
           /\ NoteOf(new)' = note
           /\ \A id \in Ids : NoteOf(id)' = NoteOf(id)
           /\ DOMAIN pendingShields' = DOMAIN pendingShields \cup {new}
           /\ pendingShields'[new].leafCommitment = note
           /\ \A id \in DOMAIN pendingShields : pendingShields'[id] = pendingShields[id]
           /\ UNCHANGED <<leaves, nullifierUsed, proved>>
  BY <1>0, ShieldEffect
<1>2. /\ DOMAIN pendingShields \subseteq Ids
      /\ \A id \in Ids : NoteOf(id) \in Note
  BY <1>0, IdsType
<1>3. /\ nextSecret \in Nat /\ \A n \in Note : n.secret \in Nat
      /\ Landed \subseteq Note
      /\ \A p \in proved : Range(p.outs) \subseteq Note
  BY <1>0, SecretsType
<1>4. Landed' = Landed
  BY <1>1 DEF Landed
<1>5. EntriesFaithful'
  BY <1>1, <1>2 DEF Inv, EntriesFaithful
<1>6. QueuedFresh'
  <2>1. ASSUME NEW id \in Ids
        PROVE  NoteOf(id)' # note /\ NoteOf(id)'.secret < nextSecret'
    BY <1>1, <1>2, <1>3 DEF Inv, QueuedFresh
  <2>2. note.secret < nextSecret'
    BY <1>1, <1>3
  <2> QED
    BY <1>1, <2>1, <2>2 DEF Inv, QueuedFresh
<1>7. LeavesFresh'
  BY <1>1, <1>3, <1>4 DEF Inv, LeavesFresh
<1>8. OutputsFresh'
  <2>1. ASSUME NEW p \in proved, NEW n \in Range(p.outs)
        PROVE  n.secret < nextSecret' /\ n # note /\ \A id \in Ids : n # NoteOf(id)
    BY <1>1, <1>3 DEF Inv, OutputsFresh
  <2> QED
    BY <1>1, <2>1 DEF Inv, OutputsFresh
<1>9. SpendsPending'
  BY <1>1, <1>4 DEF Inv, SpendsPending
<1>10. EscrowOrNote'
  <2>1. note \notin Landed
    BY <1>1, <1>3 DEF Inv, LeavesFresh
  <2> QED
    BY <1>1, <1>4, <2>1 DEF Inv, EscrowOrNote
<1>11. LandedOnce'
  BY <1>1, <1>4 DEF Inv, LandedOnce
<1> QED
  BY <1>5, <1>6, <1>7, <1>8, <1>9, <1>10, <1>11 DEF Inv

LEMMA LandEffect ==
  ASSUME Inv, NEW id, Land(id)
  PROVE  /\ id \in DOMAIN pendingShields /\ ~pendingShields[id].cancelled
         /\ DOMAIN pendingShields' = DOMAIN pendingShields \ {id}
         /\ \A jd \in DOMAIN pendingShields \ {id} :
               pendingShields'[jd] = pendingShields[jd]
         /\ NoteOf(id) \in Note /\ NoteOf(id) \notin Landed
         /\ Landed' = Landed \cup {NoteOf(id)}
         /\ leaves' = Append(leaves, NoteOf(id))
         /\ UNCHANGED <<queuedAs, nullifierUsed, proved, nextSecret>>
<1>1. TypeOK
  BY DEF Inv
<1>2. id \in DOMAIN pendingShields /\ ~pendingShields[id].cancelled
  BY DEF Land, Live
<1>3. pendingShields[id].leafCommitment = NoteOf(id)
  BY <1>2 DEF Inv, EntriesFaithful
<1>4. NoteOf(id) \in Note /\ NoteOf(id) \notin Landed
  BY <1>1, <1>2, <1>3, IdsType DEF Inv, EscrowOrNote
<1>5. leaves' = Append(leaves, NoteOf(id))
  BY <1>3 DEF Land
<1>6. Landed' = Landed \cup {NoteOf(id)}
  BY <1>1, <1>4, <1>5, AppendRange DEF Landed, TypeOK
<1>7. /\ DOMAIN pendingShields' = DOMAIN pendingShields \ {id}
      /\ \A jd \in DOMAIN pendingShields \ {id} :
            pendingShields'[jd] = pendingShields[jd]
  BY DEF Land, Deleted, Restrict
<1>8. UNCHANGED <<queuedAs, nullifierUsed, proved, nextSecret>>
  BY DEF Land, client
<1> QED
  BY <1>2, <1>4, <1>5, <1>6, <1>7, <1>8

LEMMA LandInv ==
  ASSUME Inv, TypeOK', NEW id, Land(id)
  PROVE  Inv'
<1>0. TypeOK
  BY DEF Inv
<1>1. /\ id \in DOMAIN pendingShields
      /\ DOMAIN pendingShields' = DOMAIN pendingShields \ {id}
      /\ \A jd \in DOMAIN pendingShields \ {id} :
            pendingShields'[jd] = pendingShields[jd]
      /\ NoteOf(id) \in Note /\ NoteOf(id) \notin Landed
      /\ Landed' = Landed \cup {NoteOf(id)}
      /\ leaves' = Append(leaves, NoteOf(id))
      /\ UNCHANGED <<queuedAs, nullifierUsed, proved, nextSecret>>
  BY LandEffect
<1>2. Ids' = Ids /\ \A jd : NoteOf(jd)' = NoteOf(jd)
  BY <1>1 DEF Ids, NoteOf
<1>3. DOMAIN pendingShields \subseteq Ids
  BY <1>0, IdsType
<1>4. EntriesFaithful'
  BY <1>1, <1>2 DEF Inv, EntriesFaithful
<1>5. QueuedFresh'
  BY <1>1, <1>2 DEF Inv, QueuedFresh
<1>6. LeavesFresh'
  BY <1>1, <1>3 DEF Inv, LeavesFresh, QueuedFresh
<1>7. OutputsFresh'
  BY <1>1, <1>2 DEF Inv, OutputsFresh
<1>8. SpendsPending'
  <2>1. \A p \in proved : NoteOf(id) \notin Range(p.outs)
    BY <1>1, <1>3 DEF Inv, OutputsFresh
  <2> QED
    BY <1>1, <2>1 DEF Inv, SpendsPending
<1>9. EscrowOrNote'
  <2>1. ASSUME NEW jd \in DOMAIN pendingShields \ {id}
        PROVE  /\ pendingShields[jd].leafCommitment \notin Landed
               /\ pendingShields[jd].leafCommitment # NoteOf(id)
    BY <1>1, <1>3, <2>1 DEF Inv, EscrowOrNote, EntriesFaithful, QueuedFresh
  <2> QED
    BY <1>1, <2>1 DEF EscrowOrNote
<1>10. LandedOnce'
  BY <1>0, <1>1, AppendInjective DEF Inv, LandedOnce, Landed, TypeOK
<1> QED
  BY <1>4, <1>5, <1>6, <1>7, <1>8, <1>9, <1>10 DEF Inv

LEMMA RefundEffect ==
  ASSUME TypeOK, NEW id, Refund(id)
  PROVE  /\ id \in DOMAIN pendingShields /\ ~pendingShields[id].cancelled
         /\ DOMAIN pendingShields' = DOMAIN pendingShields
         /\ \A jd \in DOMAIN pendingShields :
               /\ pendingShields'[jd].leafCommitment
                     = pendingShields[jd].leafCommitment
               /\ pendingShields'[jd].cancelled
                     = (jd = id \/ pendingShields[jd].cancelled)
         /\ UNCHANGED <<queuedAs, leaves, nullifierUsed, proved, nextSecret>>
<1>1. id \in DOMAIN pendingShields /\ ~pendingShields[id].cancelled
  BY DEF Refund, Live
<1>2. pendingShields' = [pendingShields EXCEPT ![id] =
                           [pendingShields[id] EXCEPT !.cancelled = TRUE]]
  BY <1>1 DEF Refund, Marked
<1>3. \A jd \in DOMAIN pendingShields :
         pendingShields[jd] \in PendingShield
  BY DEF TypeOK
<1>4. DOMAIN pendingShields' = DOMAIN pendingShields
  BY <1>2
<1>5. ASSUME NEW jd \in DOMAIN pendingShields
      PROVE  /\ pendingShields'[jd].leafCommitment
                   = pendingShields[jd].leafCommitment
             /\ pendingShields'[jd].cancelled
                   = (jd = id \/ pendingShields[jd].cancelled)
  <2>1. CASE jd = id
    BY <1>1, <1>2, <1>3, <2>1 DEF PendingShield
  <2>2. CASE jd # id
    <3>1. pendingShields'[jd] = pendingShields[jd]
      BY <1>2, <2>2
    <3>2. pendingShields[jd].cancelled \in BOOLEAN
      BY <1>3 DEF PendingShield
    <3> QED
      BY <2>2, <3>1, <3>2
  <2> QED
    BY <2>1, <2>2
<1>6. UNCHANGED <<queuedAs, leaves, nullifierUsed, proved, nextSecret>>
  BY DEF Refund, tree, client
<1> QED
  BY <1>1, <1>4, <1>5, <1>6

LEMMA RefundInv ==
  ASSUME Inv, TypeOK', NEW id, Refund(id)
  PROVE  Inv'
<1>0. TypeOK
  BY DEF Inv
<1>1. /\ DOMAIN pendingShields' = DOMAIN pendingShields
      /\ \A jd \in DOMAIN pendingShields :
            pendingShields'[jd].leafCommitment = pendingShields[jd].leafCommitment
      /\ UNCHANGED <<queuedAs, leaves, nullifierUsed, proved, nextSecret>>
  BY <1>0, RefundEffect
<1>2. Ids' = Ids /\ Landed' = Landed /\ \A jd : NoteOf(jd)' = NoteOf(jd)
  BY <1>1 DEF Ids, NoteOf, Landed
<1>3. EntriesFaithful' /\ EscrowOrNote'
  BY <1>1, <1>2 DEF Inv, EntriesFaithful, EscrowOrNote
<1>4. QueuedFresh' /\ LeavesFresh' /\ OutputsFresh'
  BY <1>1, <1>2 DEF Inv, QueuedFresh, LeavesFresh, OutputsFresh
<1>5. SpendsPending' /\ LandedOnce'
  BY <1>1, <1>2 DEF Inv, SpendsPending, LandedOnce
<1> QED
  BY <1>3, <1>4, <1>5 DEF Inv

LEMMA FreshSecrets ==
  ASSUME TypeOK, NEW outs \in Payments(MaxOutputs, Users)
  PROVE  /\ Range(FreshOf(outs)) \subseteq Note
         /\ \A n \in Range(FreshOf(outs)) :
               nextSecret <= n.secret /\ n.secret < nextSecret + Len(outs)
         /\ IsInjective(FreshOf(outs))
<1> DEFINE f == FreshOf(outs)
<1>1. /\ f \in Seq(Note) /\ Len(outs) \in Nat
      /\ DOMAIN f = 1 .. Len(outs) /\ nextSecret \in Nat
      /\ \A i \in 1 .. Len(outs) : f[i].secret = nextSecret + i - 1
  BY FreshType DEF TypeOK
<1> HIDE DEF f
<1>2. Range(f) \subseteq Note
  BY <1>1 DEF Range
<1>3. ASSUME NEW n \in Range(f)
      PROVE  nextSecret <= n.secret /\ n.secret < nextSecret + Len(outs)
  <2>1. PICK i \in 1 .. Len(outs) : n = f[i]
    BY <1>1 DEF Range
  <2> QED
    BY <1>1, <2>1
<1>4. ASSUME NEW i \in DOMAIN f, NEW j \in DOMAIN f, f[i] = f[j]
      PROVE  i = j
  <2>1. nextSecret + i - 1 = nextSecret + j - 1
    BY <1>1, <1>4
  <2> QED
    BY <1>1, <2>1
<1>5. IsInjective(f)
  BY <1>4 DEF IsInjective
<1> QED
  BY <1>2, <1>3, <1>5 DEF f

LEMMA ProveInv ==
  ASSUME Inv, TypeOK', NEW u \in Users, NEW circuit \in Circuits,
         NEW ins \in SUBSET Spendable(u),
         NEW outs \in OutsOf(circuit), NEW exits \in ExitsOf(circuit),
         Prove(u, circuit, ins, outs, exits)
  PROVE  Inv'
<1> DEFINE p == [circuit |-> circuit, root |-> RootOf(ins), ins |-> ins,
                 outs |-> FreshOf(outs), exits |-> exits,
                 swapIn |-> SwapIn(circuit, ins, outs)]
<1>0. TypeOK
  BY DEF Inv
<1>1. /\ proved' = proved \cup {p} /\ nextSecret' = nextSecret + Len(outs)
      /\ UNCHANGED <<queuedAs, pendingShields, leaves, nullifierUsed>>
      /\ ins # {} /\ ins \subseteq Landed
  BY DEF Prove, Spendable, queue, tree
<1>2. p.ins = ins /\ p.outs = FreshOf(outs)
  OBVIOUS
<1> HIDE DEF p
<1>3. /\ Range(p.outs) \subseteq Note
      /\ \A n \in Range(p.outs) :
            nextSecret <= n.secret /\ n.secret < nextSecret'
      /\ IsInjective(p.outs)
  BY <1>0, <1>1, <1>2, SlotsTyped, FreshSecrets
<1>4. /\ nextSecret \in Nat /\ nextSecret' \in Nat /\ nextSecret <= nextSecret'
      /\ \A n \in Note : n.secret \in Nat
      /\ Landed \subseteq Note
      /\ \A q \in proved : Range(q.outs) \subseteq Note
      /\ \A id \in Ids : NoteOf(id) \in Note
  BY <1>0, <1>1, SlotsTyped, SecretsType, IdsType, FreshType
<1>5. Ids' = Ids /\ Landed' = Landed /\ \A id : NoteOf(id)' = NoteOf(id)
  BY <1>1 DEF Ids, NoteOf, Landed
<1>6. \A n \in Note : n.secret < nextSecret => n \notin Range(p.outs) /\ n.secret < nextSecret'
  BY <1>3, <1>4
<1>7. /\ \A id \in Ids : NoteOf(id) \notin Range(p.outs)
      /\ Range(p.outs) \cap Landed = {}
      /\ \A q \in proved : Range(p.outs) \cap Range(q.outs) = {}
  BY <1>4, <1>6 DEF Inv, QueuedFresh, LeavesFresh, OutputsFresh
<1>8. EntriesFaithful' /\ EscrowOrNote'
  BY <1>1, <1>5 DEF Inv, EntriesFaithful, EscrowOrNote
<1>9. QueuedFresh' /\ LeavesFresh'
  BY <1>4, <1>5, <1>6 DEF Inv, QueuedFresh, LeavesFresh
<1>10. OutputsFresh'
  <2>1. ASSUME NEW q \in proved'
        PROVE  /\ \A n \in Range(q.outs) : n.secret < nextSecret'
               /\ \A n \in Range(q.outs), id \in Ids : n # NoteOf(id)
               /\ IsInjective(q.outs)
    <3>1. CASE q = p
      BY <1>3, <1>7, <3>1
    <3>2. CASE q \in proved
      BY <1>4, <1>6, <3>2 DEF Inv, OutputsFresh
    <3> QED
      BY <1>1, <2>1, <3>1, <3>2
  <2>2. ASSUME NEW q \in proved', NEW r \in proved',
               Range(q.outs) \cap Range(r.outs) # {}
        PROVE  q = r
    <3>1. (q \in proved /\ r \in proved) \/ (q = p /\ r = p)
      BY <1>1, <1>7, <2>2
    <3> QED
      BY <2>2, <3>1 DEF Inv, OutputsFresh
  <2> QED
    BY <1>5, <2>1, <2>2 DEF OutputsFresh
<1>11. SpendsPending'
  <2>1. ASSUME NEW q \in proved'
        PROVE  /\ q.ins # {} /\ q.ins \subseteq Landed
               /\ q.ins \cap nullifierUsed = {} => Range(q.outs) \cap Landed = {}
    <3>1. CASE q = p
      BY <1>1, <1>2, <1>7, <3>1
    <3>2. CASE q \in proved
      BY <3>2 DEF Inv, SpendsPending
    <3> QED
      BY <1>1, <2>1, <3>1, <3>2
  <2> QED
    BY <1>1, <1>5, <2>1 DEF SpendsPending
<1>12. LandedOnce'
  BY <1>1, <1>5 DEF Inv, LandedOnce
<1> QED
  BY <1>8, <1>9, <1>10, <1>11, <1>12 DEF Inv

LEMMA BurnInsertEffect ==
  ASSUME Inv, NEW p \in proved, BurnInsertCheck(p)
  PROVE  /\ leaves' = leaves \o p.outs /\ Landed' = Landed \cup Range(p.outs)
         /\ nullifierUsed' = nullifierUsed \cup p.ins
         /\ Range(p.outs) \cap Landed = {}
         /\ \A id \in Ids : NoteOf(id) \notin Range(p.outs)
<1>1. TypeOK
  BY DEF Inv
<1>2. /\ leaves' = leaves \o p.outs /\ nullifierUsed' = nullifierUsed \cup p.ins
      /\ p.ins \cap nullifierUsed = {}
  BY DEF BurnInsertCheck, Unspent
<1>3. Landed' = Landed \cup Range(p.outs)
  <2>1. leaves \in Seq(Note) /\ p.outs \in Seq(Note)
    BY <1>1, SecretsType DEF TypeOK
  <2> QED
    BY <1>2, <2>1, ConcatRange DEF Landed
<1>4. Range(p.outs) \cap Landed = {}
  BY <1>2 DEF Inv, SpendsPending
<1>5. \A id \in Ids : NoteOf(id) \notin Range(p.outs)
  BY DEF Inv, OutputsFresh
<1> QED
  BY <1>2, <1>3, <1>4, <1>5

LEMMA BurnInsertInv ==
  ASSUME Inv, TypeOK', NEW p \in proved, BurnInsertCheck(p), UNCHANGED <<queue, client>>
  PROVE  Inv'
<1>0. TypeOK
  BY DEF Inv
<1>1. /\ leaves' = leaves \o p.outs /\ Landed' = Landed \cup Range(p.outs)
      /\ nullifierUsed' = nullifierUsed \cup p.ins
      /\ Range(p.outs) \cap Landed = {}
      /\ \A id \in Ids : NoteOf(id) \notin Range(p.outs)
  BY BurnInsertEffect
<1>2. UNCHANGED <<queuedAs, pendingShields, proved, nextSecret>>
  BY DEF queue, client
<1>3. Ids' = Ids /\ \A id : NoteOf(id)' = NoteOf(id)
  BY <1>2 DEF Ids, NoteOf
<1>4. DOMAIN pendingShields \subseteq Ids
  BY <1>0, IdsType
<1>5. EntriesFaithful' /\ QueuedFresh' /\ OutputsFresh'
  BY <1>2, <1>3 DEF Inv, EntriesFaithful, QueuedFresh, OutputsFresh
<1>6. LeavesFresh'
  BY <1>1, <1>2 DEF Inv, LeavesFresh, OutputsFresh
<1>7. SpendsPending'
  <2>1. ASSUME NEW q \in proved, q.ins \cap (nullifierUsed \cup p.ins) = {}
        PROVE  Range(q.outs) \cap (Landed \cup Range(p.outs)) = {}
    <3>1. q # p
      BY <2>1 DEF Inv, SpendsPending
    <3>2. Range(q.outs) \cap Range(p.outs) = {}
      BY <3>1 DEF Inv, OutputsFresh
    <3>3. Range(q.outs) \cap Landed = {}
      BY <2>1 DEF Inv, SpendsPending
    <3> QED
      BY <3>2, <3>3
  <2> QED
    BY <1>1, <1>2, <2>1 DEF Inv, SpendsPending
<1>8. EscrowOrNote'
  <2>1. ASSUME NEW id \in DOMAIN pendingShields
        PROVE  pendingShields[id].leafCommitment \notin Landed'
    BY <1>1, <1>4 DEF Inv, EscrowOrNote, EntriesFaithful
  <2> QED
    BY <1>2, <2>1 DEF EscrowOrNote
<1>9. LandedOnce'
  <2>1. leaves \in Seq(Note) /\ p.outs \in Seq(Note)
    BY <1>0, SecretsType DEF TypeOK
  <2>2. IsInjective(leaves) /\ IsInjective(p.outs)
    BY DEF Inv, LandedOnce, OutputsFresh
  <2>3. Range(leaves) \cap Range(p.outs) = {}
    BY <1>1 DEF Landed
  <2>4. IsInjective(leaves \o p.outs)
    BY <2>1, <2>2, <2>3, ConcatInjective
  <2> QED
    BY <1>1, <2>4 DEF LandedOnce
<1> QED
  BY <1>5, <1>6, <1>7, <1>8, <1>9 DEF Inv

LEMMA NextInv == Inv /\ [Next]_vars => Inv'
<1> SUFFICES ASSUME Inv, [Next]_vars PROVE Inv'
  OBVIOUS
<1>0. TypeOK'
  BY NextTypeOK DEF Inv
<1>1. CASE Environment \/ Admin
  BY <1>0, <1>1, AdminQuiet, QuietInv
<1>2. CASE Queueing
  BY <1>0, <1>2, ShieldInv, LandInv, RefundInv
  DEF Queueing, ExecuteShield, ExecuteShieldImmediate, CancelShield, ContestShield
<1>3. CASE Spending
  <2>1. CASE \E u \in Users, circuit \in Circuits :
               \E ins \in SUBSET Spendable(u) \ {{}},
                  outs \in OutsOf(circuit), exits \in ExitsOf(circuit) :
               Prove(u, circuit, ins, outs, exits)
    BY <1>0, <2>1, ProveInv
  <2>2. CASE \E p \in proved : Transfer(p)
    BY <1>0, <2>2, BurnInsertInv DEF Transfer
  <2>3. CASE \E p \in proved, sender \in Users : Unshield(p, sender)
    BY <1>0, <2>3, BurnInsertInv DEF Unshield
  <2>4. CASE \E p \in proved, sender \in Users : UnshieldBundled(p, sender)
    BY <1>0, <2>4, BurnInsertInv DEF UnshieldBundled
  <2>5. CASE \E p \in proved, got \in Fills : PrivateSwap(p, got)
    BY <1>0, <2>5, BurnInsertInv DEF PrivateSwap
  <2> QED
    BY <1>3, <2>1, <2>2, <2>3, <2>4, <2>5 DEF Spending
<1>4. CASE UNCHANGED vars
  BY <1>0, <1>4, QuietInv DEF vars
<1> QED
  BY <1>1, <1>2, <1>3, <1>4 DEF Next

\* Inv is an inductive invariant of the contract.
THEOREM Invariance == Spec => []Inv
<1>1. Init => Inv
  BY InitInv
<1>2. Inv /\ [Next]_vars => Inv'
  BY NextInv
<1> QED
  BY <1>1, <1>2, PTL DEF Spec

\* No commitment enters the tree twice, however executeShield,
\* executeShieldImmediate and re-sent spends interleave.
THEOREM LandsOnce == Spec => []LandedOnce
<1>1. Inv => LandedOnce
  BY DEF Inv
<1> QED
  BY <1>1, Invariance, PTL

\* A queued, cancelled or contested entry has no note in the tree: the tokens
\* are in escrow (or refunded) or there is a note for them, never both.
THEOREM NoNoteInEscrow == Spec => []EscrowOrNote
<1>1. Inv => EscrowOrNote
  BY DEF Inv
<1> QED
  BY <1>1, Invariance, PTL

-----------------------------------------------------------------------------
(* Pampalo implements ShieldLifecycle *)

LEMMA InitRefines == Init => Lifecycle!Init
<1> SUFFICES ASSUME Init PROVE Lifecycle!Init
  OBVIOUS
<1>1. Ids = {} /\ Landed = {}
  BY EmptyFunction DEF Init, Ids, Landed, Range
<1>2. stages = << >> /\ notes = << >>
  BY <1>1 DEF stages, notes
<1> QED
  BY <1>1, <1>2 DEF Lifecycle!Init, stages, notes

\* Steps that the abstract specification does not see.
LEMMA Stutters ==
  ASSUME UNCHANGED <<pendingShields, queuedAs, leaves>>
  PROVE  UNCHANGED Lifecycle!vars
<1>1. Ids' = Ids /\ Landed' = Landed
  BY DEF Ids, Landed
<1>2. \A id : StageOf(id)' = StageOf(id) /\ NoteOf(id)' = NoteOf(id)
  BY DEF StageOf, NoteOf
<1>3. stages' = stages /\ notes' = notes
  BY <1>1, <1>2 DEF stages, notes
<1> QED
  BY <1>1, <1>3 DEF Lifecycle!vars

LEMMA ShieldRefines ==
  ASSUME Inv, NEW u \in Users, NEW a \in Assets, NEW amount \in Amounts,
         Shield(u, a, amount)
  PROVE  Lifecycle!Next
<1>0. TypeOK
  BY DEF Inv
<1>1. PICK new \in Nat, note \in Note :
         /\ note.secret = nextSecret
         /\ Ids = 0 .. new - 1 /\ Ids' = Ids \cup {new} /\ new \notin Ids
         /\ NoteOf(new)' = note
         /\ \A id \in Ids : NoteOf(id)' = NoteOf(id)
         /\ DOMAIN pendingShields' = DOMAIN pendingShields \cup {new}
         /\ ~pendingShields'[new].cancelled
         /\ \A id \in DOMAIN pendingShields : pendingShields'[id] = pendingShields[id]
         /\ leaves' = leaves
  BY <1>0, ShieldEffect
<1>2. note \notin Landed /\ \A id \in Ids : NoteOf(id) # note
  BY <1>0, <1>1, SecretsType, IdsType DEF Inv, QueuedFresh, LeavesFresh
<1>3. Ids' = 0 .. new
  BY <1>1
<1>4. StageOf(new)' = "queued" /\ \A id \in Ids : StageOf(id)' = StageOf(id)
  BY <1>1 DEF StageOf
<1>5. Landed' = Landed
  BY <1>1 DEF Landed
<1>6. stages' = [i \in 0 .. new |-> IF i = new THEN "queued" ELSE stages[i]]
  BY <1>1, <1>3, <1>4 DEF stages
<1>7. notes' = [i \in 0 .. new |-> IF i = new THEN note ELSE notes[i]]
  BY <1>1, <1>3 DEF notes
<1>8. note \notin {notes[id] : id \in DOMAIN notes}
  BY <1>2 DEF notes
<1>9. Lifecycle!Queue(new, notes'[new])
  BY <1>1, <1>2, <1>3, <1>5, <1>6, <1>7, <1>8
  DEF Lifecycle!Queue, Lifecycle!Queued, stages, notes
<1> QED
  BY <1>3, <1>9 DEF Lifecycle!Next, notes

LEMMA LandRefines ==
  ASSUME Inv, NEW id \in Ids, Land(id)
  PROVE  Lifecycle!Next
<1>1. /\ id \in DOMAIN pendingShields /\ ~pendingShields[id].cancelled
      /\ DOMAIN pendingShields' = DOMAIN pendingShields \ {id}
      /\ \A jd \in DOMAIN pendingShields \ {id} :
            pendingShields'[jd] = pendingShields[jd]
      /\ NoteOf(id) \notin Landed /\ Landed' = Landed \cup {NoteOf(id)}
      /\ queuedAs' = queuedAs
  BY LandEffect
<1>2. Ids' = Ids /\ \A jd : NoteOf(jd)' = NoteOf(jd)
  BY <1>1 DEF Ids, NoteOf
<1>3. /\ StageOf(id) = "queued" /\ StageOf(id)' = "landed"
      /\ \A jd \in Ids : jd # id => StageOf(jd)' = StageOf(jd)
  BY <1>1 DEF StageOf
<1>4. stages' = [stages EXCEPT ![id] = "landed"] /\ notes' = notes
  BY <1>2, <1>3 DEF stages, notes
<1>5. Lifecycle!Land(id)
  BY <1>1, <1>3, <1>4 DEF Lifecycle!Land, stages, notes
<1>6. id \in DOMAIN stages
  BY DEF stages
<1> QED
  BY <1>5, <1>6 DEF Lifecycle!Next

LEMMA RefundRefines ==
  ASSUME Inv, NEW id \in Ids, Refund(id)
  PROVE  Lifecycle!Next
<1>0. TypeOK
  BY DEF Inv
<1>1. /\ id \in DOMAIN pendingShields /\ ~pendingShields[id].cancelled
      /\ DOMAIN pendingShields' = DOMAIN pendingShields
      /\ \A jd \in DOMAIN pendingShields :
            pendingShields'[jd].cancelled = (jd = id \/ pendingShields[jd].cancelled)
      /\ queuedAs' = queuedAs /\ leaves' = leaves
  BY <1>0, RefundEffect
<1>2. Ids' = Ids /\ Landed' = Landed /\ \A jd : NoteOf(jd)' = NoteOf(jd)
  BY <1>1 DEF Ids, NoteOf, Landed
<1>3. /\ StageOf(id) = "queued" /\ StageOf(id)' = "refunded"
      /\ \A jd \in Ids : jd # id => StageOf(jd)' = StageOf(jd)
  BY <1>1 DEF StageOf
<1>4. NoteOf(id) \notin Landed
  BY <1>1 DEF Inv, EscrowOrNote, EntriesFaithful
<1>5. stages' = [stages EXCEPT ![id] = "refunded"] /\ notes' = notes
  BY <1>2, <1>3 DEF stages, notes
<1>6. Lifecycle!Refund(id)
  BY <1>2, <1>3, <1>4, <1>5 DEF Lifecycle!Refund, stages, notes
<1>7. id \in DOMAIN stages
  BY DEF stages
<1> QED
  BY <1>6, <1>7 DEF Lifecycle!Next

LEMMA SpendRefines ==
  ASSUME Inv, NEW p \in proved, BurnInsertCheck(p), UNCHANGED queue
  PROVE  Lifecycle!Next
<1>1. /\ Landed' = Landed \cup Range(p.outs)
      /\ \A id \in Ids : NoteOf(id) \notin Range(p.outs)
  BY BurnInsertEffect
<1>2. /\ Ids' = Ids
      /\ \A id : StageOf(id)' = StageOf(id) /\ NoteOf(id)' = NoteOf(id)
  BY DEF Ids, NoteOf, StageOf, queue
<1>3. stages' = stages /\ notes' = notes
  BY <1>2 DEF stages, notes
<1>4. Lifecycle!Spend
  BY <1>1, <1>3 DEF Lifecycle!Spend, Lifecycle!Queued, stages, notes
<1> QED
  BY <1>4 DEF Lifecycle!Next

LEMMA StepRefines == Inv /\ [Next]_vars => [Lifecycle!Next]_(Lifecycle!vars)
<1> SUFFICES ASSUME Inv, [Next]_vars
             PROVE  Lifecycle!Next \/ UNCHANGED Lifecycle!vars
  OBVIOUS
<1>1. CASE Environment \/ Admin
  BY <1>1, AdminQuiet, Stutters DEF queue, tree
<1>2. CASE Queueing
  BY <1>2, ShieldRefines, LandRefines, RefundRefines
  DEF Queueing, ExecuteShield, ExecuteShieldImmediate, CancelShield, ContestShield
<1>3. CASE Spending
  <2>1. CASE \E u \in Users, circuit \in Circuits :
               \E ins \in SUBSET Spendable(u) \ {{}},
                  outs \in OutsOf(circuit), exits \in ExitsOf(circuit) :
               Prove(u, circuit, ins, outs, exits)
    BY <2>1, Stutters DEF Prove, queue, tree
  <2>2. CASE \E p \in proved : Transfer(p)
    BY <2>2, SpendRefines DEF Transfer
  <2>3. CASE \E p \in proved, sender \in Users : Unshield(p, sender)
    BY <2>3, SpendRefines DEF Unshield
  <2>4. CASE \E p \in proved, sender \in Users : UnshieldBundled(p, sender)
    BY <2>4, SpendRefines DEF UnshieldBundled
  <2>5. CASE \E p \in proved, got \in Fills : PrivateSwap(p, got)
    BY <2>5, SpendRefines DEF PrivateSwap
  <2> QED
    BY <1>3, <2>1, <2>2, <2>3, <2>4, <2>5 DEF Spending
<1>4. CASE UNCHANGED vars
  BY <1>4, Stutters DEF vars, queue, tree
<1> QED
  BY <1>1, <1>2, <1>3, <1>4 DEF Next

\* Every behaviour of the contract, seen through the stages of its entries, is
\* a behaviour of ShieldLifecycle: queued, then landed once or refunded, never
\* both, and no spend puts a queued note into the tree.
THEOREM Refinement == Spec => ImplementsLifecycle
<1>1. Init => Lifecycle!Init
  BY InitRefines
<1>2. Inv /\ [Next]_vars => [Lifecycle!Next]_(Lifecycle!vars)
  BY StepRefines
<1> QED
  BY <1>1, <1>2, Invariance, PTL DEF Spec, ImplementsLifecycle, Lifecycle!Spec

-----------------------------------------------------------------------------
(* Induction on finite sets and on numbers.  No prover here instantiates   *)
(* an induction theorem that takes an operator: the family Good of the     *)
(* sets for which a claim holds takes its place.                           *)

\* A family that has the empty set, and every set all of whose subsets with one
\* element less it has, has every finite set.
LEMMA FiniteInduction ==
  ASSUME NEW S, IsFiniteSet(S), NEW Good, {} \in Good,
         \A X \in SUBSET S : X # {} /\ (\A x \in X : X \ {x} \in Good) => X \in Good
  PROVE  S \in Good
<1> DEFINE Bad == {X \in SUBSET S : X \notin Good}
<1>1. SUFFICES ASSUME S \notin Good PROVE FALSE
  OBVIOUS
<1>2. Bad \subseteq FiniteSubsetsOf(S) /\ Bad # {}
  BY <1>1, FS_FiniteSubsetsOfFinite
<1>3. PICK X \in Bad : \A Y \in Bad : <<Y, X>> \notin StrictSubsetOrdering(S)
  <2>1. IsWellFoundedOn(StrictSubsetOrdering(S), FiniteSubsetsOf(S))
    BY FS_StrictSubsetOrderingWellFounded
  <2> HIDE DEF Bad
  <2> QED
    BY <1>2, <2>1, WFMin
<1>4. X # {} /\ X \subseteq S /\ X \notin Good
  OBVIOUS
<1>5. PICK x \in X : X \ {x} \notin Good
  BY <1>4
<1>6. X \ {x} \in Bad
  BY <1>4, <1>5
<1>7. <<X \ {x}, X>> \in StrictSubsetOrdering(S)
  BY <1>4, <1>5 DEF StrictSubsetOrdering
<1> QED
  BY <1>3, <1>6, <1>7

\* A set with 0 and with every successor has all naturals.
LEMMA NatInductionOnSets ==
  ASSUME NEW N, 0 \in N, \A n \in Nat : n \in N => n + 1 \in N
  PROVE  Nat \subseteq N
<1> SUFFICES ASSUME NEW m \in Nat PROVE m \in N
  OBVIOUS
<1> DEFINE Good == {X \in SUBSET (1 .. m) : Cardinality(X) \in N}
<1>1. IsFiniteSet(1 .. m) /\ Cardinality(1 .. m) = m
  BY FS_Interval
<1>2. {} \in Good
  BY FS_EmptySet
<1>3. ASSUME NEW X \in SUBSET (1 .. m), X # {}, \A x \in X : X \ {x} \in Good
      PROVE  X \in Good
  <2> PICK x \in X : TRUE
    BY <1>3
  <2>1. IsFiniteSet(X) /\ IsFiniteSet(X \ {x})
    BY <1>1, FS_Subset
  <2>2. Cardinality(X \ {x}) = Cardinality(X) - 1
    BY <2>1, FS_RemoveElement
  <2>3. Cardinality(X) \in Nat /\ Cardinality(X \ {x}) \in Nat
    BY <2>1, FS_CardinalityType
  <2> QED
    BY <1>3, <2>2, <2>3
<1>4. 1 .. m \in Good
  <2> HIDE DEF Good
  <2> QED
    BY <1>1, <1>2, <1>3, FiniteInduction
<1> QED
  BY <1>1, <1>4

-----------------------------------------------------------------------------
(* Sums over finite sets: SumFunctionOnSet of the community modules is    *)
(* defined by recursion on the set, in an order left to CHOOSE.            *)
(*                                                                         *)
(* The recursion has a solution *)

\* The element that the sum over s adds first.
Pick(s) == CHOOSE x \in s : TRUE

\* g is the partial sums of f over the subsets of S.
IsSums(g, f, S) ==
  g = [s \in SUBSET S |-> IF s = {} THEN 0 ELSE f[Pick(s)] + g[s \ {Pick(s)}]]

LEMMA SumIsChosen ==
  ASSUME NEW f, NEW S
  PROVE  SumFunctionOnSet(f, S) = (CHOOSE g : IsSums(g, f, S))[S]
BY DEF SumFunctionOnSet, FoldFunctionOnSet, MapThenFoldSet, IsSums, Pick

\* One step of the recursion, with h for the smaller sets.
SumStep(h, f, s) == IF s = {} THEN 0 ELSE f[Pick(s)] + h[s \ {Pick(s)}]

LEMMA SumsExist ==
  ASSUME NEW S, IsFiniteSet(S), NEW f
  PROVE  \E g : IsSums(g, f, S)
<1> DEFINE Upto(n, h) == /\ h = [s \in SUBSET S |-> h[s]]
                         /\ \A s \in SUBSET S : Cardinality(s) <= n => h[s] = SumStep(h, f, s)
           N == {n \in Nat : \E h : Upto(n, h)}
<1>0. \A s \in SUBSET S : IsFiniteSet(s) /\ Cardinality(s) \in Nat
  BY FS_Subset, FS_CardinalityType
<1>p. \A s \in SUBSET S : s # {} => Pick(s) \in s
  BY DEF Pick
<1>1. 0 \in N
  <2>1. Upto(0, [s \in SUBSET S |-> 0])
    <3>1. \A s \in SUBSET S : Cardinality(s) <= 0 => s = {}
      BY <1>0, FS_EmptySet
    <3> QED
      BY <3>1 DEF SumStep
  <2> QED
    BY <2>1
<1>2. ASSUME NEW n \in Nat, n \in N PROVE n + 1 \in N
  <2>1. PICK h : Upto(n, h)
    BY <1>2
  <2> DEFINE k == [s \in SUBSET S |-> IF Cardinality(s) <= n THEN h[s] ELSE SumStep(h, f, s)]
  <2>2. ASSUME NEW s \in SUBSET S, Cardinality(s) <= n + 1 PROVE k[s] = SumStep(k, f, s)
    <3>1. CASE s = {}
      BY <3>1, <2>1, FS_EmptySet DEF SumStep
    <3>2. CASE s # {}
      <4>1. Pick(s) \in s /\ s \ {Pick(s)} \in SUBSET S
        BY <1>p, <3>2
      <4>2. Cardinality(s \ {Pick(s)}) = Cardinality(s) - 1
        BY <1>0, <4>1, FS_RemoveElement
      <4>3. Cardinality(s \ {Pick(s)}) <= n
        BY <2>2, <4>2, <1>0
      <4>4. k[s \ {Pick(s)}] = h[s \ {Pick(s)}]
        BY <4>1, <4>3
      <4>5. k[s] = SumStep(h, f, s)
        BY <2>1
      <4> QED
        BY <4>4, <4>5, <3>2 DEF SumStep
    <3> QED
      BY <3>1, <3>2
  <2>3. Upto(n + 1, k)
    BY <2>2
  <2>4. \E g : Upto(n + 1, g)
    <3> HIDE DEF k, Upto
    <3> QED
      BY <2>3
  <2> HIDE DEF Upto
  <2> QED
    BY <2>4
<1>3. Cardinality(S) \in N
  <2> HIDE DEF N
  <2>1. Nat \subseteq N
    BY <1>1, <1>2, NatInductionOnSets
  <2> QED
    BY <2>1, <1>0
<1>4. PICK h : Upto(Cardinality(S), h)
  BY <1>3
<1>5. \A s \in SUBSET S : Cardinality(s) <= Cardinality(S)
  BY FS_Subset
<1>6. \A s \in SUBSET S : h[s] = SumStep(h, f, s)
  BY <1>4, <1>5
<1> QED
  BY <1>4, <1>6 DEF IsSums, SumStep


LEMMA SumUnfolds ==
  ASSUME NEW S, IsFiniteSet(S), NEW f
  PROVE  \E g : /\ IsSums(g, f, S)
                /\ SumFunctionOnSet(f, S) = g[S]
BY SumsExist, SumIsChosen

\* A sum over T does not depend on the set whose subsets are summed up.
LEMMA SumsAgree ==
  ASSUME NEW S, NEW f, NEW T, IsFiniteSet(T), T \subseteq S,
         NEW g, IsSums(g, f, S), NEW h, IsSums(h, f, T)
  PROVE  g[T] = h[T]
<1> DEFINE Good == {X \in SUBSET T : g[X] = h[X]}
<1>1. \A X \in SUBSET T : /\ g[X] = IF X = {} THEN 0 ELSE f[Pick(X)] + g[X \ {Pick(X)}]
                         /\ h[X] = IF X = {} THEN 0 ELSE f[Pick(X)] + h[X \ {Pick(X)}]
  <2> SUFFICES ASSUME NEW X \in SUBSET T
               PROVE  /\ g[X] = IF X = {} THEN 0 ELSE f[Pick(X)] + g[X \ {Pick(X)}]
                      /\ h[X] = IF X = {} THEN 0 ELSE f[Pick(X)] + h[X \ {Pick(X)}]
    OBVIOUS
  <2>1. X \in SUBSET S
    OBVIOUS
  <2> QED
    BY <2>1 DEF IsSums
<1>2. {} \in Good
  BY <1>1
<1>3. ASSUME NEW X \in SUBSET T, X # {}, \A x \in X : X \ {x} \in Good PROVE X \in Good
  <2>1. Pick(X) \in X
    BY <1>3 DEF Pick
  <2> QED
    BY <2>1, <1>1, <1>3
<1>4. T \in Good
  <2> HIDE DEF Good
  <2> QED
    BY <1>2, <1>3, FiniteInduction
<1> QED
  BY <1>4

-----------------------------------------------------------------------------
(* Elements in and out *)

LEMMA SumEmpty == \A f : SumFunctionOnSet(f, {}) = 0
<1> SUFFICES ASSUME NEW f PROVE SumFunctionOnSet(f, {}) = 0
  OBVIOUS
<1>1. PICK g : IsSums(g, f, {}) /\ SumFunctionOnSet(f, {}) = g[{}]
  BY SumUnfolds, FS_EmptySet
<1> QED
  BY <1>1 DEF IsSums

LEMMA SumPick ==
  ASSUME NEW S, IsFiniteSet(S), S # {}, NEW f
  PROVE  /\ Pick(S) \in S
         /\ SumFunctionOnSet(f, S) = f[Pick(S)] + SumFunctionOnSet(f, S \ {Pick(S)})
<1> DEFINE T == S \ {Pick(S)}
<1>1. Pick(S) \in S
  BY DEF Pick
<1>2. IsFiniteSet(T) /\ T \subseteq S
  BY FS_RemoveElement
<1>3. PICK g : IsSums(g, f, S) /\ SumFunctionOnSet(f, S) = g[S]
  BY SumUnfolds
<1>4. PICK h : IsSums(h, f, T) /\ SumFunctionOnSet(f, T) = h[T]
  BY <1>2, SumUnfolds
<1>5. g[T] = h[T]
  <2> HIDE DEF T
  <2> QED
    BY <1>2, <1>3, <1>4, SumsAgree
<1>6. g[S] = f[Pick(S)] + g[T]
  BY <1>3 DEF IsSums
<1> QED
  BY <1>1, <1>3, <1>4, <1>5, <1>6

LEMMA SumInt ==
  ASSUME NEW S, IsFiniteSet(S), NEW f, \A x \in S : f[x] \in Int
  PROVE  SumFunctionOnSet(f, S) \in Int
<1> DEFINE Good == {X \in SUBSET S : SumFunctionOnSet(f, X) \in Int}
<1>1. {} \in Good
  BY SumEmpty
<1>2. ASSUME NEW X \in SUBSET S, X # {}, \A x \in X : X \ {x} \in Good PROVE X \in Good
  <2>1. IsFiniteSet(X)
    BY FS_Subset
  <2>2. Pick(X) \in X
        /\ SumFunctionOnSet(f, X) = f[Pick(X)] + SumFunctionOnSet(f, X \ {Pick(X)})
    BY <1>2, <2>1, SumPick
  <2> QED
    BY <1>2, <2>2
<1>3. S \in Good
  <2> HIDE DEF Good
  <2> QED
    BY <1>1, <1>2, FiniteInduction
<1> QED
  BY <1>3

\* The order of the summands does not matter.
LEMMA SumRemove ==
  ASSUME NEW S, IsFiniteSet(S), NEW f, \A x \in S : f[x] \in Int, NEW y \in S
  PROVE  SumFunctionOnSet(f, S) = f[y] + SumFunctionOnSet(f, S \ {y})
<1> DEFINE Sum(X) == SumFunctionOnSet(f, X)
           Good == {X \in SUBSET S : \A x \in X : Sum(X) = f[x] + Sum(X \ {x})}
<1>1. {} \in Good
  OBVIOUS
<1>2. ASSUME NEW X \in SUBSET S, X # {}, \A x \in X : X \ {x} \in Good PROVE X \in Good
  <2> SUFFICES ASSUME NEW x \in X PROVE Sum(X) = f[x] + Sum(X \ {x})
    OBVIOUS
  <2> DEFINE p == Pick(X)
  <2>1. IsFiniteSet(X) /\ IsFiniteSet(X \ {x}) /\ IsFiniteSet(X \ {p})
        /\ IsFiniteSet((X \ {p}) \ {x})
    BY FS_Subset
  <2>2. p \in X /\ Sum(X) = f[p] + Sum(X \ {p})
    BY <1>2, <2>1, SumPick
  <2>3. CASE x = p
    BY <2>2, <2>3
  <2>4. CASE x # p
    <3>1. Sum(X \ {p}) = f[x] + Sum((X \ {p}) \ {x})
      BY <1>2, <2>2, <2>4
    <3>2. Sum(X \ {x}) = f[p] + Sum((X \ {x}) \ {p})
      BY <1>2, <2>2, <2>4
    <3>3. Sum((X \ {p}) \ {x}) = Sum((X \ {x}) \ {p})
      <4>1. (X \ {p}) \ {x} = (X \ {x}) \ {p}
        OBVIOUS
      <4> HIDE DEF Sum
      <4> QED
        BY <4>1
    <3>4. f[x] \in Int /\ f[p] \in Int /\ Sum((X \ {p}) \ {x}) \in Int
      BY <2>1, <2>2, SumInt
    <3> HIDE DEF Sum, p
    <3> QED
      BY <2>2, <3>1, <3>2, <3>3, <3>4
  <2> QED
    BY <2>3, <2>4
<1>3. S \in Good
  <2> HIDE DEF Good
  <2> QED
    BY <1>1, <1>2, FiniteInduction
<1> QED
  BY <1>3

LEMMA SumAdd ==
  ASSUME NEW S, IsFiniteSet(S), NEW f, NEW y, y \notin S,
         \A x \in S \cup {y} : f[x] \in Int
  PROVE  SumFunctionOnSet(f, S \cup {y}) = f[y] + SumFunctionOnSet(f, S)
<1> DEFINE T == S \cup {y}
<1>1. IsFiniteSet(T) /\ y \in T /\ T \ {y} = S
  BY FS_AddElement
<1>2. \A x \in T : f[x] \in Int
  OBVIOUS
<1> HIDE DEF T
<1>3. SumFunctionOnSet(f, T) = f[y] + SumFunctionOnSet(f, T \ {y})
  BY <1>1, <1>2, SumRemove
<1> QED
  BY <1>1, <1>3 DEF T

LEMMA SumNat ==
  ASSUME NEW S, IsFiniteSet(S), NEW f, \A x \in S : f[x] \in Nat
  PROVE  SumFunctionOnSet(f, S) \in Nat
<1> DEFINE Good == {X \in SUBSET S : SumFunctionOnSet(f, X) \in Nat}
<1>1. {} \in Good
  BY SumEmpty
<1>2. ASSUME NEW X \in SUBSET S, X # {}, \A x \in X : X \ {x} \in Good PROVE X \in Good
  <2>1. IsFiniteSet(X)
    BY FS_Subset
  <2>2. Pick(X) \in X
        /\ SumFunctionOnSet(f, X) = f[Pick(X)] + SumFunctionOnSet(f, X \ {Pick(X)})
    BY <1>2, <2>1, SumPick
  <2>3. f[Pick(X)] \in Nat /\ SumFunctionOnSet(f, X \ {Pick(X)}) \in Nat
    BY <1>2, <2>2
  <2> QED
    BY <2>2, <2>3
<1>3. S \in Good
  <2> HIDE DEF Good
  <2> QED
    BY <1>1, <1>2, FiniteInduction
<1> QED
  BY <1>3

LEMMA SumEqual ==
  ASSUME NEW S, IsFiniteSet(S), NEW f, NEW g, \A x \in S : f[x] = g[x]
  PROVE  SumFunctionOnSet(f, S) = SumFunctionOnSet(g, S)
<1> DEFINE Good == {X \in SUBSET S : SumFunctionOnSet(f, X) = SumFunctionOnSet(g, X)}
<1>1. {} \in Good
  BY SumEmpty
<1>2. ASSUME NEW X \in SUBSET S, X # {}, \A x \in X : X \ {x} \in Good PROVE X \in Good
  <2>1. IsFiniteSet(X)
    BY FS_Subset
  <2>2. /\ Pick(X) \in X
        /\ SumFunctionOnSet(f, X) = f[Pick(X)] + SumFunctionOnSet(f, X \ {Pick(X)})
        /\ SumFunctionOnSet(g, X) = g[Pick(X)] + SumFunctionOnSet(g, X \ {Pick(X)})
    BY <1>2, <2>1, SumPick
  <2>3. f[Pick(X)] = g[Pick(X)]
        /\ SumFunctionOnSet(f, X \ {Pick(X)}) = SumFunctionOnSet(g, X \ {Pick(X)})
    BY <1>2, <2>2
  <2> QED
    BY <2>2, <2>3
<1>3. S \in Good
  <2> HIDE DEF Good
  <2> QED
    BY <1>1, <1>2, FiniteInduction
<1> QED
  BY <1>3

LEMMA SumZero ==
  ASSUME NEW S, IsFiniteSet(S), NEW f, \A x \in S : f[x] = 0
  PROVE  SumFunctionOnSet(f, S) = 0
<1> DEFINE Good == {X \in SUBSET S : SumFunctionOnSet(f, X) = 0}
<1>1. {} \in Good
  BY SumEmpty
<1>2. ASSUME NEW X \in SUBSET S, X # {}, \A x \in X : X \ {x} \in Good PROVE X \in Good
  <2>1. IsFiniteSet(X)
    BY FS_Subset
  <2>2. Pick(X) \in X
        /\ SumFunctionOnSet(f, X) = f[Pick(X)] + SumFunctionOnSet(f, X \ {Pick(X)})
    BY <1>2, <2>1, SumPick
  <2>3. f[Pick(X)] = 0 /\ SumFunctionOnSet(f, X \ {Pick(X)}) = 0
    BY <1>2, <2>2
  <2> QED
    BY <2>2, <2>3
<1>3. S \in Good
  <2> HIDE DEF Good
  <2> QED
    BY <1>1, <1>2, FiniteInduction
<1> QED
  BY <1>3

LEMMA SumUnion ==
  ASSUME NEW S, IsFiniteSet(S), NEW T, IsFiniteSet(T), S \cap T = {},
         NEW f, \A x \in S \cup T : f[x] \in Int
  PROVE  SumFunctionOnSet(f, S \cup T) = SumFunctionOnSet(f, S) + SumFunctionOnSet(f, T)
<1> DEFINE Sum(X) == SumFunctionOnSet(f, X)
           Good == {X \in SUBSET S : Sum(X \cup T) = Sum(X) + Sum(T)}
<1>0. \A X \in SUBSET S : /\ IsFiniteSet(X) /\ IsFiniteSet(X \cup T)
                          /\ Sum(X) \in Int /\ Sum(X \cup T) \in Int
  <2> TAKE X \in SUBSET S
  <2>1. IsFiniteSet(X) /\ IsFiniteSet(X \cup T)
    BY FS_Subset, FS_Union
  <2>2. (\A x \in X : f[x] \in Int) /\ (\A x \in X \cup T : f[x] \in Int)
    OBVIOUS
  <2> QED
    BY <2>1, <2>2, SumInt
<1>t. Sum(T) \in Int
  <2>1. \A x \in T : f[x] \in Int
    OBVIOUS
  <2> QED
    BY <2>1, SumInt
<1>1. {} \in Good
  <2>1. Sum({}) = 0
    BY SumEmpty
  <2>2. {} \cup T = T
    OBVIOUS
  <2> HIDE DEF Sum
  <2> QED
    BY <2>1, <2>2, <1>t
<1>2. ASSUME NEW X \in SUBSET S, X # {}, \A x \in X : X \ {x} \in Good PROVE X \in Good
  <2> PICK x \in X : TRUE
    BY <1>2
  <2>1. Sum(X) = f[x] + Sum(X \ {x})
    BY <1>0, SumRemove
  <2>2. Sum(X \cup T) = f[x] + Sum((X \cup T) \ {x})
    <3>1. x \in X \cup T /\ (\A y \in X \cup T : f[y] \in Int)
      OBVIOUS
    <3>2. IsFiniteSet(X \cup T)
      BY <1>0
    <3> QED
      BY <3>1, <3>2, SumRemove
  <2>3. (X \cup T) \ {x} = (X \ {x}) \cup T /\ X \ {x} \in SUBSET S /\ f[x] \in Int
    OBVIOUS
  <2>4. Sum((X \ {x}) \cup T) = Sum(X \ {x}) + Sum(T)
    BY <1>2
  <2>5. Sum(X \ {x}) \in Int
    BY <1>0, <2>3
  <2>6. Sum(X \cup T) = f[x] + Sum((X \ {x}) \cup T)
    BY <2>2, <2>3
  <2>7. Sum(X \cup T) = Sum(X) + Sum(T)
    <3> HIDE DEF Sum
    <3> QED
      BY <2>1, <2>3, <2>4, <2>5, <2>6, <1>t
  <2> QED
    BY <2>7
<1>3. S \in Good
  <2> HIDE DEF Good
  <2> QED
    BY <1>1, <1>2, FiniteInduction
<1> QED
  BY <1>3

LEMMA SumWithout ==
  ASSUME NEW S, IsFiniteSet(S), NEW T \in SUBSET S,
         NEW f, \A x \in S : f[x] \in Int
  PROVE  SumFunctionOnSet(f, S) = SumFunctionOnSet(f, S \ T) + SumFunctionOnSet(f, T)
<1> DEFINE R == S \ T
<1>1. IsFiniteSet(R) /\ IsFiniteSet(T) /\ R \cap T = {} /\ R \cup T = S
  BY FS_Subset
<1>2. \A x \in R \cup T : f[x] \in Int
  BY <1>1
<1> HIDE DEF R
<1>3. SumFunctionOnSet(f, R \cup T) = SumFunctionOnSet(f, R) + SumFunctionOnSet(f, T)
  BY <1>1, <1>2, SumUnion
<1> QED
  BY <1>1, <1>3 DEF R

\* One summand changes.
LEMMA SumUpdate ==
  ASSUME NEW S, IsFiniteSet(S), NEW y \in S, NEW f, NEW g,
         \A x \in S : f[x] \in Int /\ g[x] \in Int,
         \A x \in S \ {y} : f[x] = g[x]
  PROVE  SumFunctionOnSet(g, S) = SumFunctionOnSet(f, S) - f[y] + g[y]
<1>1. IsFiniteSet(S \ {y})
  BY FS_Subset
<1>2. SumFunctionOnSet(f, S) = f[y] + SumFunctionOnSet(f, S \ {y})
  BY SumRemove
<1>3. SumFunctionOnSet(g, S) = g[y] + SumFunctionOnSet(g, S \ {y})
  BY SumRemove
<1>4. SumFunctionOnSet(f, S \ {y}) = SumFunctionOnSet(g, S \ {y})
  BY <1>1, SumEqual
<1>5. SumFunctionOnSet(f, S \ {y}) \in Int
  <2>1. \A x \in S \ {y} : f[x] \in Int
    OBVIOUS
  <2> QED
    BY <1>1, <2>1, SumInt
<1> QED
  BY <1>2, <1>3, <1>4, <1>5

-----------------------------------------------------------------------------
(* The same summands under other names *)

\* b lists the elements of its range without repetition.
LEMMA SumReindexed ==
  ASSUME NEW b, IsFiniteSet(DOMAIN b), IsInjective(b),
         NEW f, \A i \in DOMAIN b : f[i] \in Int,
         NEW g, \A i \in DOMAIN b : f[i] = g[b[i]]
  PROVE  /\ IsFiniteSet(Range(b))
         /\ SumFunctionOnSet(f, DOMAIN b) = SumFunctionOnSet(g, Range(b))
<1> DEFINE S == DOMAIN b
           Image(X) == {b[i] : i \in X}
           Good == {X \in SUBSET S :
                      /\ IsFiniteSet(Image(X))
                      /\ SumFunctionOnSet(f, X) = SumFunctionOnSet(g, Image(X))}
<1>1. {} \in Good
  <2>1. Image({}) = {}
    OBVIOUS
  <2>2. SumFunctionOnSet(f, {}) = 0 /\ SumFunctionOnSet(g, {}) = 0 /\ IsFiniteSet({})
    BY SumEmpty, FS_EmptySet
  <2> HIDE DEF Image
  <2> QED
    BY <2>1, <2>2
<1>2. ASSUME NEW X \in SUBSET S, X # {}, \A x \in X : X \ {x} \in Good PROVE X \in Good
  <2> PICK x \in X : TRUE
    BY <1>2
  <2>0. IsFiniteSet(X) /\ (\A i \in X : f[i] \in Int)
    BY FS_Subset
  <2>1. SumFunctionOnSet(f, X) = f[x] + SumFunctionOnSet(f, X \ {x})
    BY <2>0, SumRemove
  <2>2. /\ IsFiniteSet(Image(X \ {x}))
        /\ SumFunctionOnSet(f, X \ {x}) = SumFunctionOnSet(g, Image(X \ {x}))
    BY <1>2
  <2>3. Image(X) = Image(X \ {x}) \cup {b[x]} /\ b[x] \notin Image(X \ {x})
    BY DEF IsInjective
  <2>4. \A y \in Image(X \ {x}) \cup {b[x]} : g[y] \in Int
    OBVIOUS
  <2>5. f[x] = g[b[x]]
    OBVIOUS
  <2> HIDE DEF Image
  <2>6. SumFunctionOnSet(g, Image(X \ {x}) \cup {b[x]})
          = g[b[x]] + SumFunctionOnSet(g, Image(X \ {x}))
    BY <2>2, <2>3, <2>4, SumAdd
  <2>7. IsFiniteSet(Image(X))
    <3>1. IsFiniteSet(Image(X \ {x}) \cup {b[x]})
      BY <2>2, FS_AddElement
    <3> QED
      BY <2>3, <3>1
  <2> QED
    BY <2>1, <2>2, <2>3, <2>5, <2>6, <2>7
<1>3. S \in Good
  <2> HIDE DEF Good
  <2> QED
    BY <1>1, <1>2, FiniteInduction
<1> QED
  BY <1>3 DEF Range

LEMMA SumPlus ==
  ASSUME NEW S, IsFiniteSet(S), NEW f, NEW g, NEW h,
         \A x \in S : f[x] \in Int /\ g[x] \in Int /\ h[x] = f[x] + g[x]
  PROVE  SumFunctionOnSet(h, S) = SumFunctionOnSet(f, S) + SumFunctionOnSet(g, S)
<1> DEFINE Good == {X \in SUBSET S : SumFunctionOnSet(h, X)
                                       = SumFunctionOnSet(f, X) + SumFunctionOnSet(g, X)}
<1>1. {} \in Good
  BY SumEmpty
<1>2. ASSUME NEW X \in SUBSET S, X # {}, \A x \in X : X \ {x} \in Good PROVE X \in Good
  <2> PICK y : y = Pick(X)
    OBVIOUS
  <2>1. IsFiniteSet(X) /\ IsFiniteSet(X \ {y})
    BY FS_Subset
  <2>2. /\ y \in X
        /\ SumFunctionOnSet(f, X) = f[y] + SumFunctionOnSet(f, X \ {y})
        /\ SumFunctionOnSet(g, X) = g[y] + SumFunctionOnSet(g, X \ {y})
        /\ SumFunctionOnSet(h, X) = h[y] + SumFunctionOnSet(h, X \ {y})
    BY <1>2, <2>1, SumPick
  <2>3. /\ SumFunctionOnSet(f, X \ {y}) \in Int
        /\ SumFunctionOnSet(g, X \ {y}) \in Int
    BY <2>1, SumInt
  <2>4. SumFunctionOnSet(h, X \ {y})
          = SumFunctionOnSet(f, X \ {y}) + SumFunctionOnSet(g, X \ {y})
    BY <1>2, <2>2
  <2> QED
    BY <2>2, <2>3, <2>4
<1>3. S \in Good
  <2> HIDE DEF Good
  <2> QED
    BY <1>1, <1>2, FiniteInduction
<1> QED
  BY <1>3

LEMMA SumAtMost ==
  ASSUME NEW S, IsFiniteSet(S), NEW f, NEW g,
         \A x \in S : f[x] \in Int /\ g[x] \in Int /\ f[x] <= g[x]
  PROVE  SumFunctionOnSet(f, S) <= SumFunctionOnSet(g, S)
<1> DEFINE rest == [x \in S |-> g[x] - f[x]]
<1>1. \A x \in S : rest[x] \in Nat /\ g[x] = f[x] + rest[x]
  OBVIOUS
<1> HIDE DEF rest
<1>2. SumFunctionOnSet(g, S) = SumFunctionOnSet(f, S) + SumFunctionOnSet(rest, S)
  BY <1>1, SumPlus
<1>3. SumFunctionOnSet(rest, S) \in Nat /\ SumFunctionOnSet(f, S) \in Int
  BY <1>1, SumNat, SumInt
<1> QED
  BY <1>2, <1>3

LEMMA SumSingle ==
  ASSUME NEW S, IsFiniteSet(S), NEW y \in S, NEW f,
         f[y] \in Int, \A x \in S \ {y} : f[x] = 0
  PROVE  SumFunctionOnSet(f, S) = f[y]
<1>1. \A x \in S : f[x] \in Int
  OBVIOUS
<1>2. SumFunctionOnSet(f, S) = f[y] + SumFunctionOnSet(f, S \ {y})
  BY <1>1, SumRemove
<1>3. SumFunctionOnSet(f, S \ {y}) = 0
  BY FS_Subset, SumZero
<1> QED
  BY <1>2, <1>3

-----------------------------------------------------------------------------
(* The books: sums over the queue and over the unspent notes *)

Weights == [Note -> Nat]

\* The weight of the notes that wait in the queue, and of the unspent ones.
QueueWorth(w) ==
  SumFunction([id \in DOMAIN pendingShields |-> IF Live(id) THEN w[NoteOf(id)] ELSE 0])
NotesWorth(w) == SumFunctionOnSet(w, Landed \ nullifierUsed)

WorthIn(a) == [n \in Note |-> IF n.asset = a THEN n.amount ELSE 0]
WorthTo(u, a) == [n \in Note |-> IF n.owner = u /\ n.asset = a THEN n.amount ELSE 0]

-----------------------------------------------------------------------------
(* The inductive invariant *)

\* What the entry escrows is what its note is worth, and is its shielder's.
EntriesBacked ==
  \A id \in DOMAIN pendingShields :
     /\ pendingShields[id].shielder = NoteOf(id).owner
     /\ pendingShields[id].asset = NoteOf(id).asset
     /\ pendingShields[id].amount = NoteOf(id).amount

BurntLanded == nullifierUsed \subseteq Landed

\* What the spend p gives to a venue, and the least it takes from it.
ToVenue(p, a) == IF p.circuit = "swap" THEN Given(p, a) ELSE 0
Target(p, a) == IF p.circuit = "swap" THEN Taken(p, a, p.outs[1].amount) ELSE 0

\* The inputs of a proved spend and its target are worth its outputs, its exits
\* (those to nobody included) and what goes to the venue; the exit circuits, and
\* only they, have exits.
SpendsBalanced ==
  \A p \in proved :
     /\ \A a \in Assets :
          ValueOf(p.ins, a) + Target(p, a)
            = SumOf(p.outs, a) + SumOf(p.exits, a) + ToVenue(p, a)
     /\ p.exits \in Payments(MaxExits, Users \cup {NoAddress})
     /\ p.circuit \in {"transfer", "swap"} <=> p.exits = << >>
     /\ p.circuit = "swap" => 1 \in DOMAIN p.outs

Books == Inv /\ EntriesBacked /\ BurntLanded /\ SpendsBalanced

-----------------------------------------------------------------------------
(* The sums are over finite sets of naturals *)

LEMMA RangeFinite ==
  ASSUME NEW S, NEW s \in Seq(S)
  PROVE  IsFiniteSet(Range(s))
<1>1. DOMAIN s = 1 .. Len(s) /\ Len(s) \in Nat
  OBVIOUS
<1>2. IsFiniteSet(DOMAIN s)
  BY <1>1, FS_Interval
<1>3. s \in Surjection(DOMAIN s, Range(s))
  BY DEF Range, Surjection
<1> QED
  BY <1>2, <1>3, FS_Surjection

LEMMA FiniteBooks ==
  ASSUME TypeOK
  PROVE  /\ IsFiniteSet(DOMAIN pendingShields)
         /\ IsFiniteSet(Landed) /\ Landed \subseteq Note
         /\ IsFiniteSet(Landed \ nullifierUsed)
<1>1. IsFiniteSet(0 .. nextPendingId - 1)
  <2>1. 0 \in Int /\ nextPendingId - 1 \in Int
    BY DEF TypeOK
  <2> QED
    BY <2>1, FS_Interval
<1>2. IsFiniteSet(DOMAIN pendingShields)
  BY <1>1, FS_Subset DEF TypeOK
<1>3. IsFiniteSet(Landed)
  BY RangeFinite DEF Landed, TypeOK
<1>4. IsFiniteSet(Landed \ nullifierUsed)
  BY <1>3, FS_Subset
<1> QED
  BY <1>2, <1>3, <1>4, SecretsType

LEMMA WorthType ==
  ASSUME TypeOK, NEW w \in Weights
  PROVE  QueueWorth(w) \in Nat /\ NotesWorth(w) \in Nat
<1> DEFINE q == [id \in DOMAIN pendingShields |-> IF Live(id) THEN w[NoteOf(id)] ELSE 0]
<1>1. \A n \in Note : w[n] \in Nat
  BY DEF Weights
<1>2. \A id \in DOMAIN q : q[id] \in Nat
  BY <1>1, IdsType
<1>3. DOMAIN q = DOMAIN pendingShields
  OBVIOUS
<1> HIDE DEF q
<1>4. SumFunctionOnSet(q, DOMAIN q) \in Nat
  BY <1>2, <1>3, FiniteBooks, SumNat
<1>5. SumFunctionOnSet(w, Landed \ nullifierUsed) \in Nat
  BY <1>1, FiniteBooks, SumNat
<1> QED
  BY <1>4, <1>5 DEF q, QueueWorth, NotesWorth, SumFunction

-----------------------------------------------------------------------------
(* What each step does to the two sums *)

LEMMA ShieldWorth ==
  ASSUME Inv, TypeOK', NEW u \in Users, NEW a \in Assets, NEW amount \in Amounts,
         Shield(u, a, amount), NEW w \in Weights
  PROVE  /\ QueueWorth(w)' = QueueWorth(w)
              + w[[owner |-> u, asset |-> a, amount |-> amount, secret |-> nextSecret]]
         /\ NotesWorth(w)' = NotesWorth(w)
<1>0. TypeOK
  BY DEF Inv
<1>1. PICK new \in Nat, note \in Note :
           /\ note = [owner |-> u, asset |-> a, amount |-> amount,
                      secret |-> nextSecret]
           /\ nextSecret' = nextSecret + 1
           /\ Ids = 0 .. new - 1 /\ Ids' = Ids \cup {new} /\ new \notin Ids
           /\ NoteOf(new)' = note
           /\ \A id \in Ids : NoteOf(id)' = NoteOf(id)
           /\ DOMAIN pendingShields' = DOMAIN pendingShields \cup {new}
           /\ pendingShields'[new] =
                [shielder |-> u, asset |-> a, amount |-> amount,
                 leafCommitment |-> note, unlockTime |-> UnlockTime(u),
                 usdCentsCharged |-> PriceUsdCents(a, amount),
                 cancelled |-> FALSE]
           /\ note.secret = nextSecret
           /\ pendingShields'[new].leafCommitment = note
           /\ ~pendingShields'[new].cancelled
           /\ \A id \in DOMAIN pendingShields : pendingShields'[id] = pendingShields[id]
           /\ UNCHANGED <<leaves, nullifierUsed, proved>>
  BY <1>0, ShieldEffect
<1> DEFINE q == [id \in DOMAIN pendingShields |-> IF Live(id) THEN w[NoteOf(id)] ELSE 0]
           r == [id \in DOMAIN pendingShields' |-> IF Live(id)' THEN w[NoteOf(id)'] ELSE 0]
<1>2. DOMAIN pendingShields \subseteq Ids /\ (\A id \in Ids : NoteOf(id) \in Note)
      /\ \A n \in Note : w[n] \in Nat
  BY <1>0, IdsType DEF Weights
<1>3. DOMAIN r = DOMAIN q \cup {new} /\ new \notin DOMAIN q
  BY <1>1, <1>2
<1>4. r[new] = w[note]
  BY <1>1 DEF Live
<1>5. \A id \in DOMAIN q : r[id] = q[id] /\ q[id] \in Nat
  BY <1>1, <1>2 DEF Live
<1>6. w[note] \in Nat
  BY <1>2
<1>7. IsFiniteSet(DOMAIN q)
  BY <1>0, FiniteBooks
<1>8. QueueWorth(w) = SumFunctionOnSet(q, DOMAIN q)
      /\ QueueWorth(w)' = SumFunctionOnSet(r, DOMAIN r)
  BY DEF QueueWorth, SumFunction
<1>9. NotesWorth(w)' = NotesWorth(w)
  BY <1>1 DEF NotesWorth, Landed
<1> HIDE DEF q, r
<1>10. \A id \in DOMAIN q \cup {new} : r[id] \in Int
  BY <1>4, <1>5, <1>6
<1>11. SumFunctionOnSet(r, DOMAIN q \cup {new}) = r[new] + SumFunctionOnSet(r, DOMAIN q)
  BY <1>3, <1>7, <1>10, SumAdd
<1>12. SumFunctionOnSet(r, DOMAIN q) = SumFunctionOnSet(q, DOMAIN q)
  BY <1>5, <1>7, SumEqual
<1>13. SumFunctionOnSet(q, DOMAIN q) \in Nat
  BY <1>5, <1>7, SumNat
<1> QED
  BY <1>1, <1>3, <1>4, <1>6, <1>8, <1>9, <1>11, <1>12, <1>13

LEMMA LandWorth ==
  ASSUME Inv, BurntLanded, NEW id, Land(id), NEW w \in Weights
  PROVE  /\ NoteOf(id) \in Note
         /\ QueueWorth(w) = QueueWorth(w)' + w[NoteOf(id)]
         /\ NotesWorth(w)' = NotesWorth(w) + w[NoteOf(id)]
<1> DEFINE q == [jd \in DOMAIN pendingShields |-> IF Live(jd) THEN w[NoteOf(jd)] ELSE 0]
           r == [jd \in DOMAIN pendingShields' |-> IF Live(jd)' THEN w[NoteOf(jd)'] ELSE 0]
           n == NoteOf(id)
           unspent == Landed \ nullifierUsed
<1>0. TypeOK
  BY DEF Inv
<1>1. /\ id \in DOMAIN pendingShields /\ ~pendingShields[id].cancelled
      /\ DOMAIN pendingShields' = DOMAIN pendingShields \ {id}
      /\ \A jd \in DOMAIN pendingShields \ {id} :
            pendingShields'[jd] = pendingShields[jd]
      /\ n \in Note /\ n \notin Landed
      /\ Landed' = Landed \cup {n}
      /\ UNCHANGED <<queuedAs, nullifierUsed>>
  BY LandEffect
<1>2. DOMAIN pendingShields \subseteq Ids /\ (\A jd \in Ids : NoteOf(jd) \in Note)
      /\ \A m \in Note : w[m] \in Nat
  BY <1>0, IdsType DEF Weights
<1>3. DOMAIN r = DOMAIN q \ {id} /\ id \in DOMAIN q
  BY <1>1
<1>4. q[id] = w[n]
  BY <1>1 DEF Live
<1>5. \A jd \in DOMAIN r : r[jd] = q[jd]
  BY <1>1 DEF Live, NoteOf
<1>6. \A jd \in DOMAIN q : q[jd] \in Int
  BY <1>2
<1>7. IsFiniteSet(DOMAIN q) /\ IsFiniteSet(unspent) /\ unspent \subseteq Note
  BY <1>0, FiniteBooks
<1>8. QueueWorth(w) = SumFunctionOnSet(q, DOMAIN q)
      /\ QueueWorth(w)' = SumFunctionOnSet(r, DOMAIN r)
  BY DEF QueueWorth, SumFunction
<1>9. (Landed \ nullifierUsed)' = unspent \cup {n} /\ n \notin unspent
  BY <1>1 DEF BurntLanded
<1>10. NotesWorth(w) = SumFunctionOnSet(w, unspent)
       /\ NotesWorth(w)' = SumFunctionOnSet(w, unspent \cup {n})
  BY <1>9 DEF NotesWorth
<1> HIDE DEF q, r, unspent, n
<1>11. SumFunctionOnSet(q, DOMAIN q) = q[id] + SumFunctionOnSet(q, DOMAIN r)
  BY <1>3, <1>6, <1>7, SumRemove
<1>12. IsFiniteSet(DOMAIN r) /\ \A jd \in DOMAIN r : q[jd] \in Int
  BY <1>3, <1>6, <1>7, FS_Subset
<1>13. SumFunctionOnSet(r, DOMAIN r) = SumFunctionOnSet(q, DOMAIN r)
  BY <1>5, <1>12, SumEqual
<1>14. SumFunctionOnSet(q, DOMAIN r) \in Int
  BY <1>12, SumInt
<1>15. \A m \in unspent \cup {n} : w[m] \in Int
  BY <1>1, <1>2, <1>7
<1>16. SumFunctionOnSet(w, unspent \cup {n}) = w[n] + SumFunctionOnSet(w, unspent)
  BY <1>7, <1>9, <1>15, SumAdd
<1>17. SumFunctionOnSet(w, unspent) \in Int
  BY <1>7, <1>15, SumInt
<1>18. w[n] \in Nat
  BY <1>1, <1>2
<1> QED
  BY <1>1, <1>4, <1>8, <1>10, <1>11, <1>13, <1>14, <1>16, <1>17, <1>18 DEF n

LEMMA RefundWorth ==
  ASSUME Inv, NEW id, Refund(id), NEW w \in Weights
  PROVE  /\ NoteOf(id) \in Note
         /\ QueueWorth(w) = QueueWorth(w)' + w[NoteOf(id)]
         /\ NotesWorth(w)' = NotesWorth(w)
<1> DEFINE q == [jd \in DOMAIN pendingShields |-> IF Live(jd) THEN w[NoteOf(jd)] ELSE 0]
           r == [jd \in DOMAIN pendingShields' |-> IF Live(jd)' THEN w[NoteOf(jd)'] ELSE 0]
<1>0. TypeOK
  BY DEF Inv
<1>1. /\ id \in DOMAIN pendingShields /\ ~pendingShields[id].cancelled
      /\ DOMAIN pendingShields' = DOMAIN pendingShields
      /\ \A jd \in DOMAIN pendingShields :
            pendingShields'[jd].cancelled = (jd = id \/ pendingShields[jd].cancelled)
      /\ UNCHANGED <<queuedAs, leaves, nullifierUsed>>
  BY <1>0, RefundEffect
<1>2. DOMAIN pendingShields \subseteq Ids /\ (\A jd \in Ids : NoteOf(jd) \in Note)
      /\ \A m \in Note : w[m] \in Nat
  BY <1>0, IdsType DEF Weights
<1>3. DOMAIN r = DOMAIN q /\ id \in DOMAIN q
  BY <1>1
<1>4. q[id] = w[NoteOf(id)] /\ r[id] = 0
  BY <1>1 DEF Live
<1>5. \A jd \in DOMAIN q \ {id} : q[jd] = r[jd]
  BY <1>1 DEF Live, NoteOf
<1>6. \A jd \in DOMAIN q : q[jd] \in Int
  BY <1>2
<1>7. IsFiniteSet(DOMAIN q)
  BY <1>0, FiniteBooks
<1>8. QueueWorth(w) = SumFunctionOnSet(q, DOMAIN q)
      /\ QueueWorth(w)' = SumFunctionOnSet(r, DOMAIN r)
  BY DEF QueueWorth, SumFunction
<1>9. NotesWorth(w)' = NotesWorth(w)
  BY <1>1 DEF NotesWorth, Landed
<1>10. NoteOf(id) \in Note /\ w[NoteOf(id)] \in Nat
  BY <1>1, <1>2
<1> HIDE DEF q, r
<1>11. \A jd \in DOMAIN q : q[jd] \in Int /\ r[jd] \in Int
  BY <1>4, <1>5, <1>6
<1>12. SumFunctionOnSet(r, DOMAIN q) = SumFunctionOnSet(q, DOMAIN q) - q[id] + r[id]
  BY <1>3, <1>5, <1>7, <1>11, SumUpdate
<1>13. SumFunctionOnSet(q, DOMAIN q) \in Int
  BY <1>7, <1>11, SumInt
<1> QED
  BY <1>3, <1>4, <1>8, <1>9, <1>10, <1>12, <1>13

LEMMA BurnInsertWorth ==
  ASSUME Inv, BurntLanded, NEW p \in proved, BurnInsertCheck(p), NEW w \in Weights
  PROVE  /\ IsFiniteSet(p.ins) /\ p.ins \subseteq Note
         /\ IsFiniteSet(Range(p.outs)) /\ Range(p.outs) \subseteq Note
         /\ NotesWorth(w)' = NotesWorth(w) - SumFunctionOnSet(w, p.ins)
                               + SumFunctionOnSet(w, Range(p.outs))
<1> DEFINE R == Range(p.outs)
           unspent == Landed \ nullifierUsed
<1>0. TypeOK
  BY DEF Inv
<1>1. /\ Landed' = Landed \cup R
      /\ nullifierUsed' = nullifierUsed \cup p.ins
      /\ R \cap Landed = {}
  BY BurnInsertEffect
<1>2. p.ins \subseteq Landed /\ p.ins \cap nullifierUsed = {}
  BY DEF BurnInsertCheck, Unspent, Inv, SpendsPending
<1>3. IsFiniteSet(Landed) /\ Landed \subseteq Note /\ R \subseteq Note
      /\ IsFiniteSet(R)
  BY <1>0, FiniteBooks, SecretsType, RangeFinite
<1>4. /\ IsFiniteSet(unspent) /\ IsFiniteSet(p.ins) /\ IsFiniteSet(unspent \ p.ins)
      /\ unspent \subseteq Note
  BY <1>2, <1>3, FS_Subset
<1>5. (Landed \ nullifierUsed)' = (unspent \ p.ins) \cup R
      /\ (unspent \ p.ins) \cap R = {} /\ p.ins \in SUBSET unspent
  BY <1>1, <1>2 DEF BurntLanded
<1>6. \A m \in Note : w[m] \in Int
  BY DEF Weights
<1>7. NotesWorth(w) = SumFunctionOnSet(w, unspent)
      /\ NotesWorth(w)' = SumFunctionOnSet(w, (unspent \ p.ins) \cup R)
  BY <1>5 DEF NotesWorth
<1> HIDE DEF unspent, R
<1>8. /\ \A m \in unspent : w[m] \in Int
      /\ \A m \in (unspent \ p.ins) \cup R : w[m] \in Int
      /\ \A m \in p.ins : w[m] \in Int
      /\ \A m \in unspent \ p.ins : w[m] \in Int
      /\ \A m \in R : w[m] \in Int
  BY <1>3, <1>4, <1>5, <1>6
<1>9. SumFunctionOnSet(w, unspent)
        = SumFunctionOnSet(w, unspent \ p.ins) + SumFunctionOnSet(w, p.ins)
  BY <1>4, <1>5, <1>8, SumWithout
<1>10. SumFunctionOnSet(w, (unspent \ p.ins) \cup R)
         = SumFunctionOnSet(w, unspent \ p.ins) + SumFunctionOnSet(w, R)
  BY <1>3, <1>4, <1>5, <1>8, SumUnion
<1>11. /\ SumFunctionOnSet(w, unspent \ p.ins) \in Int
       /\ SumFunctionOnSet(w, p.ins) \in Int
       /\ SumFunctionOnSet(w, R) \in Int
  BY <1>3, <1>4, <1>8, SumInt
<1>12. p.ins \subseteq Note
  BY <1>2, <1>3
<1>13. NotesWorth(w)' = NotesWorth(w) - SumFunctionOnSet(w, p.ins)
                          + SumFunctionOnSet(w, R)
  BY <1>7, <1>9, <1>10, <1>11
<1> QED
  BY <1>3, <1>4, <1>12, <1>13 DEF R

-----------------------------------------------------------------------------
(* Values as weighted sums *)

LEMMA ValueIsWorth ==
  ASSUME NEW S \in SUBSET Note, IsFiniteSet(S), NEW a
  PROVE  ValueOf(S, a) = SumFunctionOnSet(WorthIn(a), S)
<1> DEFINE f == [n \in S |-> IF n.asset = a THEN n.amount ELSE 0]
<1>1. DOMAIN f = S /\ \A n \in S : f[n] = WorthIn(a)[n]
  BY DEF WorthIn
<1>2. ValueOf(S, a) = SumFunctionOnSet(f, DOMAIN f)
  BY DEF ValueOf, SumFunction
<1> HIDE DEF f
<1>3. SumFunctionOnSet(f, S) = SumFunctionOnSet(WorthIn(a), S)
  BY <1>1, SumEqual
<1> QED
  BY <1>1, <1>2, <1>3

LEMMA WorthInType ==
  ASSUME NEW a
  PROVE  WorthIn(a) \in Weights /\ \A u : WorthTo(u, a) \in Weights
<1>1. \A n \in Note : n.amount \in Nat
  BY PampaloAssumption DEF Note
<1> QED
  BY <1>1 DEF WorthIn, WorthTo, Weights

\* Slots that hold each note once are worth the set of their notes.
LEMMA SlotsWorth ==
  ASSUME NEW slots \in Seq(Note), IsInjective(slots), NEW a
  PROVE  SumOf(slots, a) = SumFunctionOnSet(WorthIn(a), Range(slots))
<1> DEFINE f == [i \in DOMAIN slots |-> IF slots[i].asset = a THEN slots[i].amount ELSE 0]
<1>1. DOMAIN slots = 1 .. Len(slots) /\ Len(slots) \in Nat
      /\ \A i \in DOMAIN slots : slots[i] \in Note
  OBVIOUS
<1>2. IsFiniteSet(DOMAIN slots)
  <2>1. 1 \in Int /\ Len(slots) \in Int
    BY <1>1
  <2> QED
    BY <1>1, <2>1, FS_Interval
<1>3. \A i \in DOMAIN slots : f[i] = WorthIn(a)[slots[i]]
  BY <1>1 DEF WorthIn
<1>4. \A i \in DOMAIN slots : WorthIn(a)[slots[i]] \in Nat
  BY <1>1, WorthInType DEF Weights
<1>5. SumOf(slots, a) = SumFunctionOnSet(f, DOMAIN slots)
  BY DEF SumOf, SumFunction
<1>6. \A i \in DOMAIN slots : f[i] \in Int
  BY <1>3, <1>4
<1> HIDE DEF f
<1>7. SumFunctionOnSet(f, DOMAIN slots) = SumFunctionOnSet(WorthIn(a), Range(slots))
  BY <1>2, <1>3, <1>6, SumReindexed
<1> QED
  BY <1>5, <1>7

LEMMA SumUpToThree ==
  ASSUME NEW k \in 0 .. 3, NEW f, \A i \in 1 .. k : f[i] \in Nat
  PROVE  SumFunctionOnSet(f, 1 .. k)
           = (IF 1 <= k THEN f[1] ELSE 0) + (IF 2 <= k THEN f[2] ELSE 0)
               + (IF 3 <= k THEN f[3] ELSE 0)
<1>1. 1 .. 0 = {} /\ 1 .. 1 = {1} /\ 1 .. 2 = {1} \cup {2} /\ 1 .. 3 = (1 .. 2) \cup {3}
      /\ {} \cup {1} = {1}
  OBVIOUS
<1>2. IsFiniteSet({}) /\ IsFiniteSet({1}) /\ IsFiniteSet(1 .. 2)
  <2>1. IsFiniteSet({}) /\ IsFiniteSet({1})
    BY FS_EmptySet, FS_Singleton
  <2>2. IsFiniteSet({1} \cup {2})
    BY <2>1, FS_AddElement
  <2> QED
    BY <1>1, <2>1, <2>2
<1>3. SumFunctionOnSet(f, {}) = 0
  BY SumEmpty
<1>4. ASSUME f[1] \in Nat PROVE SumFunctionOnSet(f, {1}) = f[1]
  <2>1. \A x \in {} \cup {1} : f[x] \in Int
    BY <1>4
  <2>2. SumFunctionOnSet(f, {} \cup {1}) = f[1] + SumFunctionOnSet(f, {})
    BY <1>2, <2>1, SumAdd
  <2> QED
    BY <1>1, <1>3, <1>4, <2>2
<1>5. ASSUME f[1] \in Nat, f[2] \in Nat PROVE SumFunctionOnSet(f, 1 .. 2) = f[1] + f[2]
  <2>1. \A x \in {1} \cup {2} : f[x] \in Int
    BY <1>5
  <2>2. 2 \notin {1}
    OBVIOUS
  <2>3. SumFunctionOnSet(f, {1} \cup {2}) = f[2] + SumFunctionOnSet(f, {1})
    BY <1>2, <2>1, <2>2, SumAdd
  <2> QED
    BY <1>1, <1>4, <1>5, <2>3
<1>6. ASSUME f[1] \in Nat, f[2] \in Nat, f[3] \in Nat
      PROVE  SumFunctionOnSet(f, 1 .. 3) = f[1] + f[2] + f[3]
  <2>1. \A x \in (1 .. 2) \cup {3} : f[x] \in Int
    BY <1>6
  <2>2. 3 \notin 1 .. 2
    OBVIOUS
  <2>3. SumFunctionOnSet(f, (1 .. 2) \cup {3}) = f[3] + SumFunctionOnSet(f, 1 .. 2)
    BY <1>2, <2>1, <2>2, SumAdd
  <2>4. SumFunctionOnSet(f, 1 .. 2) = f[1] + f[2] /\ (1 .. 2) \cup {3} = 1 .. 3
    BY <1>5, <1>6
  <2>5. SumFunctionOnSet(f, 1 .. 3) = f[3] + (f[1] + f[2])
    BY <2>3, <2>4
  <2> QED
    BY <1>6, <2>5
<1>7. CASE k = 0
  BY <1>1, <1>3, <1>7
<1>8. CASE k = 1
  BY <1>1, <1>4, <1>8
<1>9. CASE k = 2
  BY <1>5, <1>9
<1>10. CASE k = 3
  BY <1>6, <1>10
<1> QED
  BY <1>7, <1>8, <1>9, <1>10

\* What one slot of a list of payments is worth, 0 for an empty slot.
SlotWorth(slots, i, a) ==
  IF i \in DOMAIN slots /\ slots[i].asset = a THEN slots[i].amount ELSE 0

\* Up to three payments, added up slot by slot or as a sum.
LEMMA PaymentsWorth ==
  ASSUME NEW n \in 0 .. 3, NEW to, NEW slots \in Payments(n, to), NEW a
  PROVE  /\ Len(slots) \in 0 .. 3 /\ DOMAIN slots = 1 .. Len(slots)
         /\ \A i \in DOMAIN slots : slots[i].amount \in Nat
         /\ SumOf(slots, a) = SlotWorth(slots, 1, a) + SlotWorth(slots, 2, a)
                                + SlotWorth(slots, 3, a)
         /\ SumOf(slots, a) \in Nat
<1> DEFINE f == [i \in DOMAIN slots |-> IF slots[i].asset = a THEN slots[i].amount ELSE 0]
<1>1. PICK k \in 0 .. n :
         slots \in [1 .. k -> [to : to, asset : Assets, amount : Amounts]]
  <2>1. n \in Nat
    OBVIOUS
  <2> QED
    BY <2>1, PaymentsType
<1>2. k \in 0 .. 3 /\ k \in Nat /\ DOMAIN slots = 1 .. k /\ Len(slots) = k
  BY <1>1
<1>3. \A i \in 1 .. k : slots[i].amount \in Nat
  BY <1>1, PampaloAssumption
<1>4. \A i \in 1 .. k : f[i] = SlotWorth(slots, i, a)
  BY <1>2 DEF SlotWorth
<1>5. \A i \in 1 .. k : f[i] \in Nat
  BY <1>2, <1>3
<1>6. SumOf(slots, a) = SumFunctionOnSet(f, 1 .. k)
  BY <1>2 DEF SumOf, SumFunction
<1> HIDE DEF f
<1>7. SumOf(slots, a) = (IF 1 <= k THEN f[1] ELSE 0) + (IF 2 <= k THEN f[2] ELSE 0)
               + (IF 3 <= k THEN f[3] ELSE 0)
  BY <1>2, <1>5, <1>6, SumUpToThree
<1>8. /\ 1 \in 1 .. k <=> 1 <= k
      /\ 2 \in 1 .. k <=> 2 <= k
      /\ 3 \in 1 .. k <=> 3 <= k
  BY <1>2
<1>9. SumOf(slots, a) \in Nat
  BY <1>5, <1>7, <1>8
<1>10. /\ SlotWorth(slots, 1, a) = IF 1 <= k THEN f[1] ELSE 0
       /\ SlotWorth(slots, 2, a) = IF 2 <= k THEN f[2] ELSE 0
       /\ SlotWorth(slots, 3, a) = IF 3 <= k THEN f[3] ELSE 0
  <2>1. \A i \in {1, 2, 3} : i \notin 1 .. k => SlotWorth(slots, i, a) = 0
    BY <1>2 DEF SlotWorth
  <2> QED
    BY <1>4, <1>8, <2>1
<1> QED
  BY <1>2, <1>3, <1>7, <1>9, <1>10

\* The outputs of a proof carry the assets and the amounts that were asked for.
LEMMA FreshWorth ==
  ASSUME TypeOK, NEW outs \in Payments(MaxOutputs, Users), NEW a
  PROVE  /\ SumOf(FreshOf(outs), a) = SumOf(outs, a)
         /\ \A i \in DOMAIN outs : /\ FreshOf(outs)[i].asset = outs[i].asset
                                   /\ FreshOf(outs)[i].amount = outs[i].amount
<1>1. DOMAIN FreshOf(outs) = DOMAIN outs
  BY DEF FreshOf
<1>2. \A i \in DOMAIN outs : /\ FreshOf(outs)[i].asset = outs[i].asset
                             /\ FreshOf(outs)[i].amount = outs[i].amount
  BY DEF FreshOf
<1>3. [i \in DOMAIN FreshOf(outs) |->
         IF FreshOf(outs)[i].asset = a THEN FreshOf(outs)[i].amount ELSE 0]
       = [i \in DOMAIN outs |-> IF outs[i].asset = a THEN outs[i].amount ELSE 0]
  BY <1>1, <1>2
<1>4. SumOf(FreshOf(outs), a) = SumOf(outs, a)
  BY <1>3 DEF SumOf
<1> QED
  BY <1>2, <1>4

-----------------------------------------------------------------------------
(* A proved spend is balanced *)

\* An exit to nobody is worth its note but takes nothing out.
LEMMA TotalOutWorth ==
  ASSUME NEW p, p.exits \in Payments(MaxExits, Users \cup {NoAddress}), NEW a
  PROVE  /\ SumOf(p.exits, a) \in Nat /\ TotalOut(p, a) \in Nat
         /\ TotalOut(p, a) <= SumOf(p.exits, a)
         /\ TotalOut(p, a) # SumOf(p.exits, a) => Forfeits(p, a)
         /\ p.exits = << >> => SumOf(p.exits, a) = 0
<1>1. MaxExits \in 0 .. 3
  BY PampaloAssumption
<1>2. /\ SumOf(p.exits, a) = SlotWorth(p.exits, 1, a) + SlotWorth(p.exits, 2, a)
                            + SlotWorth(p.exits, 3, a)
      /\ \A i \in DOMAIN p.exits : p.exits[i].amount \in Nat
  BY <1>1, PaymentsWorth
<1>3. ASSUME NEW i
      PROVE  /\ SlotWorth(p.exits, i, a) \in Nat
             /\ ExitAmount(p, i, a) \in {0, SlotWorth(p.exits, i, a)}
             /\ ExitAmount(p, i, a) # SlotWorth(p.exits, i, a) => Forfeits(p, a)
             /\ p.exits = << >> => SlotWorth(p.exits, i, a) = 0
  <2>1. SlotWorth(p.exits, i, a) \in Nat
    BY <1>2 DEF SlotWorth
  <2>2. ExitAmount(p, i, a) \in {0, SlotWorth(p.exits, i, a)}
    BY DEF ExitAmount, SlotWorth, Paid
  <2>3. ASSUME ExitAmount(p, i, a) # SlotWorth(p.exits, i, a)
        PROVE  Forfeits(p, a)
    <3>1. i \in DOMAIN p.exits /\ p.exits[i].asset = a /\ ~Paid(p, i)
      BY <2>3 DEF ExitAmount, SlotWorth, Paid
    <3> QED
      BY <3>1 DEF Forfeits
  <2>4. p.exits = << >> => SlotWorth(p.exits, i, a) = 0
    BY EmptyFunction DEF SlotWorth
  <2> QED
    BY <2>1, <2>2, <2>3, <2>4
<1>4. TotalOut(p, a) = ExitAmount(p, 1, a) + ExitAmount(p, 2, a) + ExitAmount(p, 3, a)
  BY DEF TotalOut
<1> QED
  BY <1>2, <1>3, <1>4

LEMMA MirrorWorth ==
  ASSUME NEW ins \in SUBSET Note, IsFiniteSet(ins),
         NEW exits \in Payments(MaxExits, Users \cup {NoAddress}),
         ExitsMirror(ins, exits), NEW a
  PROVE  SumOf(exits, a) = ValueOf(ins, a)
<1> DEFINE f == [i \in DOMAIN exits |-> IF exits[i].asset = a THEN exits[i].amount ELSE 0]
<1>1. PICK note \in [DOMAIN exits -> ins] :
         /\ IsInjective(note) /\ Range(note) = ins
         /\ \A i \in DOMAIN exits :
               exits[i].asset = note[i].asset /\ exits[i].amount = note[i].amount
  BY DEF ExitsMirror
<1>2. DOMAIN note = DOMAIN exits
  BY <1>1
<1>3. \A i \in DOMAIN note : f[i] = WorthIn(a)[note[i]] /\ f[i] \in Int
  <2>1. \A n \in Note : WorthIn(a)[n] \in Nat
    BY WorthInType DEF Weights
  <2>2. \A i \in DOMAIN exits : note[i] \in Note /\ f[i] = WorthIn(a)[note[i]]
    BY <1>1 DEF WorthIn
  <2> QED
    BY <1>2, <2>1, <2>2
<1>4. IsFiniteSet(DOMAIN note)
  <2>1. MaxExits \in 0 .. 3
    BY PampaloAssumption
  <2>2. DOMAIN exits = 1 .. Len(exits) /\ Len(exits) \in 0 .. 3
    BY <2>1, PaymentsWorth
  <2>3. 1 \in Int /\ Len(exits) \in Int
    BY <2>2
  <2> QED
    BY <1>2, <2>2, <2>3, FS_Interval
<1>5. SumOf(exits, a) = SumFunctionOnSet(f, DOMAIN note)
  BY <1>2 DEF SumOf, SumFunction
<1> HIDE DEF f
<1>6. SumFunctionOnSet(f, DOMAIN note) = SumFunctionOnSet(WorthIn(a), Range(note))
  BY <1>1, <1>3, <1>4, SumReindexed
<1> QED
  BY <1>1, <1>5, <1>6, ValueIsWorth

LEMMA OneAssetWorth ==
  ASSUME NEW ins \in SUBSET Note, IsFiniteSet(ins), NEW A,
         \A n \in ins : n.asset = A, NEW a, a # A
  PROVE  ValueOf(ins, a) = 0
<1>1. \A n \in ins : WorthIn(a)[n] = 0
  BY DEF WorthIn
<1>2. SumFunctionOnSet(WorthIn(a), ins) = 0
  BY <1>1, SumZero
<1> QED
  BY <1>2, ValueIsWorth

LEMMA ValueType ==
  ASSUME NEW S \in SUBSET Note, IsFiniteSet(S), NEW a
  PROVE  ValueOf(S, a) \in Nat
<1>1. \A n \in S : WorthIn(a)[n] \in Nat
  BY WorthInType DEF Weights
<1>2. SumFunctionOnSet(WorthIn(a), S) \in Nat
  BY <1>1, SumNat
<1> QED
  BY <1>2, ValueIsWorth

LEMMA SwapWorth ==
  ASSUME NEW ins \in SUBSET Note, IsFiniteSet(ins),
         NEW outs \in Payments(MaxOutputs, Users), NEW A, A = AssetOf(ins),
         Len(outs) \in 1 .. 2, \A n \in ins : n.asset = A,
         Len(outs) = 2 => outs[2].asset = A,
         NEW given, given = SwapIn("swap", ins, outs), NEW a
  PROVE  ValueOf(ins, a) + (IF a = outs[1].asset THEN outs[1].amount ELSE 0)
           = SumOf(outs, a) + (IF a = A THEN given ELSE 0)
<1>1. MaxOutputs \in 0 .. 3
  BY PampaloAssumption
<1>2. /\ DOMAIN outs = 1 .. Len(outs) /\ \A i \in DOMAIN outs : outs[i].amount \in Nat
      /\ SumOf(outs, a) = SlotWorth(outs, 1, a) + SlotWorth(outs, 2, a)
                            + SlotWorth(outs, 3, a)
  BY <1>1, PaymentsWorth
<1>3. given = ValueOf(ins, A) - (IF Len(outs) = 2 THEN outs[2].amount ELSE 0)
  BY DEF SwapIn
<1>4. ValueOf(ins, a) \in Nat /\ ValueOf(ins, A) \in Nat
      /\ (a # A => ValueOf(ins, a) = 0)
  BY ValueType, OneAssetWorth
<1>5. SlotWorth(outs, 1, a) = IF a = outs[1].asset THEN outs[1].amount ELSE 0
  BY <1>2 DEF SlotWorth
<1>6. SlotWorth(outs, 2, a) = IF Len(outs) = 2 /\ a = A THEN outs[2].amount ELSE 0
  BY <1>2 DEF SlotWorth
<1>7. SlotWorth(outs, 3, a) = 0
  BY <1>2 DEF SlotWorth
<1>8. outs[1].amount \in Nat /\ (Len(outs) = 2 => outs[2].amount \in Nat)
  BY <1>2
<1> HIDE DEF SlotWorth
<1>9. CASE a = A
  <2>1. CASE Len(outs) = 2
    BY <1>2, <1>3, <1>4, <1>5, <1>6, <1>7, <1>8, <1>9, <2>1
  <2>2. CASE Len(outs) # 2
    BY <1>2, <1>3, <1>4, <1>5, <1>6, <1>7, <1>8, <1>9, <2>2
  <2> QED
    BY <2>1, <2>2
<1>10. CASE a # A
  BY <1>2, <1>4, <1>5, <1>6, <1>7, <1>8, <1>10
<1> QED
  BY <1>9, <1>10

LEMMA ProveBalanced ==
  ASSUME Inv, NEW u \in Users, NEW circuit \in Circuits,
         NEW ins \in SUBSET Spendable(u),
         NEW outs \in OutsOf(circuit), NEW exits \in ExitsOf(circuit),
         Prove(u, circuit, ins, outs, exits),
         NEW p, p.circuit = circuit, p.ins = ins, p.outs = FreshOf(outs),
         p.exits = exits, p.swapIn = SwapIn(circuit, ins, outs)
  PROVE  /\ \A a \in Assets :
              ValueOf(p.ins, a) + Target(p, a)
                = SumOf(p.outs, a) + SumOf(p.exits, a) + ToVenue(p, a)
         /\ p.exits \in Payments(MaxExits, Users \cup {NoAddress})
         /\ p.circuit \in {"transfer", "swap"} <=> p.exits = << >>
         /\ p.circuit = "swap" => 1 \in DOMAIN p.outs
<1>0. TypeOK
  BY DEF Inv
<1>1. ins \in SUBSET Note /\ IsFiniteSet(ins) /\ ins # {}
  <2>1. ins \subseteq Landed /\ ins # {}
    BY DEF Spendable, Prove
  <2> QED
    BY <1>0, <2>1, FiniteBooks, FS_Subset
<1>2. Builds(circuit, ins, outs, exits)
  BY DEF Prove
<1>3. /\ MaxOutputs \in 0 .. 3 /\ MaxExits \in 0 .. 3
      /\ outs \in Payments(MaxOutputs, Users)
      /\ exits \in Payments(MaxExits, Users \cup {NoAddress})
      /\ circuit = "withdraw" => outs = << >>
      /\ circuit \in {"transfer", "swap"} => exits = << >>
      /\ circuit \in {"transfer", "withdraw", "transferExternal", "swap"}
  <2>1. /\ MaxOutputs \in 0 .. 3 /\ MaxExits \in 0 .. 3
        /\ circuit \in {"transfer", "withdraw", "transferExternal", "swap"}
    BY PampaloAssumption
  <2>2. /\ OutsOf(circuit) \subseteq Payments(MaxOutputs, Users)
        /\ ExitsOf(circuit) \subseteq Payments(MaxExits, Users \cup {NoAddress})
        /\ circuit = "withdraw" => OutsOf(circuit) = {<< >>}
        /\ circuit \in {"transfer", "swap"} => ExitsOf(circuit) = {<< >>}
    BY SlotsTyped
  <2> QED
    BY <2>1, <2>2
<1>4. ASSUME NEW a
      PROVE  /\ SumOf(p.outs, a) = SumOf(outs, a) /\ SumOf(outs, a) \in Nat
             /\ SumOf(exits, a) \in Nat
             /\ ValueOf(p.ins, a) \in Nat
             /\ (exits = << >> => SumOf(exits, a) = 0)
             /\ (outs = << >> => SumOf(outs, a) = 0)
  <2>1. SumOf(p.outs, a) = SumOf(outs, a)
    BY <1>0, <1>3, FreshWorth
  <2>2. SumOf(outs, a) \in Nat /\ SumOf(exits, a) \in Nat
    BY <1>3, PaymentsWorth
  <2>4. ValueOf(p.ins, a) \in Nat
    BY <1>1, ValueType
  <2>5. \A s : s = << >> => SlotWorth(s, 1, a) = 0 /\ SlotWorth(s, 2, a) = 0 /\ SlotWorth(s, 3, a) = 0
    BY EmptyFunction DEF SlotWorth
  <2>6. /\ SumOf(exits, a) = SlotWorth(exits, 1, a) + SlotWorth(exits, 2, a)
                                + SlotWorth(exits, 3, a)
        /\ SumOf(outs, a) = SlotWorth(outs, 1, a) + SlotWorth(outs, 2, a)
                                + SlotWorth(outs, 3, a)
    BY <1>3, PaymentsWorth
  <2> QED
    BY <2>1, <2>2, <2>4, <2>5, <2>6
<1>5. CASE circuit # "swap"
  <2>1. ASSUME NEW a \in Assets PROVE ValueOf(ins, a) = SumOf(outs, a) + SumOf(exits, a)
    <3>1. CASE circuit = "withdraw"
      <4>1. outs = << >> /\ ExitsMirror(ins, exits)
        BY <1>2, <1>3, <3>1 DEF Builds
      <4>2. SumOf(exits, a) = ValueOf(ins, a)
        BY <1>1, <1>3, <4>1, MirrorWorth
      <4> QED
        BY <1>4, <4>1, <4>2
    <3>2. CASE circuit # "withdraw"
      BY <1>2, <1>5, <3>2 DEF Builds, Balanced
    <3> QED
      BY <3>1, <3>2
  <2>2. circuit = "transfer" <=> exits = << >>
    <3>1. CASE circuit = "withdraw"
      <4> SUFFICES ASSUME exits = << >> PROVE FALSE
        BY <3>1
      <4>1. PICK note \in [DOMAIN exits -> ins] : Range(note) = ins
        BY <1>2, <3>1 DEF Builds, ExitsMirror
      <4>2. DOMAIN note = {}
        BY <4>1, EmptyFunction
      <4> QED
        BY <1>1, <4>1, <4>2 DEF Range
    <3>2. CASE circuit = "transferExternal"
      BY <1>2, <3>2 DEF Builds
    <3> QED
      BY <1>3, <1>5, <3>1, <3>2
  <2>3. \A a : Target(p, a) = 0 /\ ToVenue(p, a) = 0
    BY <1>5 DEF Target, ToVenue
  <2> QED
    BY <1>3, <1>4, <1>5, <2>1, <2>2, <2>3
<1>6. CASE circuit = "swap"
  <2>1. /\ exits = << >> /\ Len(outs) \in 1 .. 2
        /\ \A n \in ins : n.asset = AssetOf(ins)
        /\ Len(outs) = 2 => outs[2].asset = AssetOf(ins)
    BY <1>2, <1>3, <1>6 DEF Builds
  <2>2. DOMAIN outs = 1 .. Len(outs)
    BY <1>3, PaymentsWorth
  <2>3. 1 \in DOMAIN outs /\ 1 \in DOMAIN p.outs
    BY <2>1, <2>2 DEF FreshOf
  <2>4. p.outs[1].asset = outs[1].asset /\ p.outs[1].amount = outs[1].amount
    BY <1>0, <1>3, <2>3, FreshWorth
  <2>5. ASSUME NEW a \in Assets
        PROVE  ValueOf(p.ins, a) + Target(p, a)
                = SumOf(p.outs, a) + SumOf(p.exits, a) + ToVenue(p, a)
    <3>1. Target(p, a) = IF a = outs[1].asset THEN outs[1].amount ELSE 0
      BY <1>6, <2>4 DEF Target, Taken
    <3>2. ToVenue(p, a) = IF a = AssetOf(ins) THEN p.swapIn ELSE 0
      BY <1>6 DEF ToVenue, Given
    <3>3. p.swapIn = SwapIn("swap", ins, outs) /\ p.swapIn \in Nat
      BY <1>6 DEF Prove
    <3>4. ValueOf(ins, a) + (IF a = outs[1].asset THEN outs[1].amount ELSE 0)
           = SumOf(outs, a) + (IF a = AssetOf(ins) THEN p.swapIn ELSE 0)
      BY <1>1, <1>3, <2>1, <3>3, SwapWorth
    <3>5. SumOf(exits, a) = 0
      BY <1>4, <2>1
    <3>6. ToVenue(p, a) \in Nat
      BY <3>2, <3>3
    <3> QED
      BY <1>4, <3>1, <3>2, <3>4, <3>5, <3>6
  <2> QED
    BY <1>3, <1>6, <2>1, <2>3, <2>5
<1> QED
  BY <1>5, <1>6

-----------------------------------------------------------------------------
(* The invariant is inductive *)

LEMMA InitBooks == Init => Books
<1> SUFFICES ASSUME Init PROVE Books
  OBVIOUS
<1>1. DOMAIN pendingShields = {} /\ proved = {} /\ nullifierUsed = {}
  BY EmptyFunction DEF Init
<1> QED
  BY <1>1, InitInv DEF Books, EntriesBacked, BurntLanded, SpendsBalanced

LEMMA ShieldBooks ==
  ASSUME Books, Inv', NEW u \in Users, NEW a \in Assets, NEW amount \in Amounts,
         Shield(u, a, amount)
  PROVE  Books'
<1>0. TypeOK
  BY DEF Books, Inv
<1>1. PICK new \in Nat, note \in Note :
           /\ note = [owner |-> u, asset |-> a, amount |-> amount,
                      secret |-> nextSecret]
           /\ nextSecret' = nextSecret + 1
           /\ Ids = 0 .. new - 1 /\ Ids' = Ids \cup {new} /\ new \notin Ids
           /\ NoteOf(new)' = note
           /\ \A id \in Ids : NoteOf(id)' = NoteOf(id)
           /\ DOMAIN pendingShields' = DOMAIN pendingShields \cup {new}
           /\ pendingShields'[new] =
                [shielder |-> u, asset |-> a, amount |-> amount,
                 leafCommitment |-> note, unlockTime |-> UnlockTime(u),
                 usdCentsCharged |-> PriceUsdCents(a, amount),
                 cancelled |-> FALSE]
           /\ note.secret = nextSecret
           /\ pendingShields'[new].leafCommitment = note
           /\ ~pendingShields'[new].cancelled
           /\ \A id \in DOMAIN pendingShields : pendingShields'[id] = pendingShields[id]
           /\ UNCHANGED <<leaves, nullifierUsed, proved>>
  BY <1>0, ShieldEffect
<1>2. DOMAIN pendingShields \subseteq Ids
  BY <1>0, IdsType
<1>3. /\ note.owner = u /\ note.asset = a /\ note.amount = amount
      /\ pendingShields'[new].shielder = u /\ pendingShields'[new].asset = a
      /\ pendingShields'[new].amount = amount
  BY <1>1
<1>4. EntriesBacked'
  BY <1>1, <1>2, <1>3 DEF Books, EntriesBacked
<1>5. BurntLanded' /\ SpendsBalanced'
  BY <1>1 DEF Books, BurntLanded, SpendsBalanced, Landed
<1> QED
  BY <1>4, <1>5 DEF Books

LEMMA LandBooks ==
  ASSUME Books, Inv', NEW id, Land(id)
  PROVE  Books'
<1>1. /\ DOMAIN pendingShields' = DOMAIN pendingShields \ {id}
      /\ \A jd \in DOMAIN pendingShields \ {id} :
            pendingShields'[jd] = pendingShields[jd]
      /\ Landed' = Landed \cup {NoteOf(id)}
      /\ UNCHANGED <<queuedAs, nullifierUsed, proved>>
  BY LandEffect DEF Books
<1>2. \A jd : NoteOf(jd)' = NoteOf(jd)
  BY <1>1 DEF NoteOf
<1>3. EntriesBacked' /\ BurntLanded' /\ SpendsBalanced'
  BY <1>1, <1>2 DEF Books, EntriesBacked, BurntLanded, SpendsBalanced
<1> QED
  BY <1>3 DEF Books

\* A refund leaves alone what the entry says.
LEMMA RefundKeeps ==
  ASSUME TypeOK, NEW id, Refund(id)
  PROVE  /\ DOMAIN pendingShields' = DOMAIN pendingShields
         /\ \A jd \in DOMAIN pendingShields :
              /\ pendingShields'[jd].shielder = pendingShields[jd].shielder
              /\ pendingShields'[jd].asset = pendingShields[jd].asset
              /\ pendingShields'[jd].amount = pendingShields[jd].amount
              /\ pendingShields'[jd].usdCentsCharged = pendingShields[jd].usdCentsCharged
<1>1. pendingShields' = [pendingShields EXCEPT ![id] =
                           [pendingShields[id] EXCEPT !.cancelled = TRUE]]
  BY DEF Refund, Marked, Live
<1>2. \A jd \in DOMAIN pendingShields : pendingShields[jd] \in PendingShield
  BY DEF TypeOK
<1> QED
  BY <1>1, <1>2 DEF PendingShield

LEMMA RefundBooks ==
  ASSUME Books, Inv', NEW id, Refund(id)
  PROVE  Books'
<1>0. TypeOK
  BY DEF Books, Inv
<1>1. UNCHANGED <<queuedAs, leaves, nullifierUsed, proved>>
  BY <1>0, RefundEffect
<1>2. (\A jd : NoteOf(jd)' = NoteOf(jd)) /\ Landed' = Landed
  BY <1>1 DEF NoteOf, Landed
<1>3. EntriesBacked'
  BY <1>0, <1>2, RefundKeeps DEF Books, EntriesBacked
<1>4. BurntLanded' /\ SpendsBalanced'
  BY <1>1, <1>2 DEF Books, BurntLanded, SpendsBalanced
<1> QED
  BY <1>3, <1>4 DEF Books

LEMMA ProveBooks ==
  ASSUME Books, Inv', NEW u \in Users, NEW circuit \in Circuits,
         NEW ins \in SUBSET Spendable(u),
         NEW outs \in OutsOf(circuit), NEW exits \in ExitsOf(circuit),
         Prove(u, circuit, ins, outs, exits)
  PROVE  Books'
<1> DEFINE p == [circuit |-> circuit, root |-> RootOf(ins), ins |-> ins,
                 outs |-> FreshOf(outs), exits |-> exits,
                 swapIn |-> SwapIn(circuit, ins, outs)]
<1>1. /\ proved' = proved \cup {p}
      /\ UNCHANGED <<queuedAs, pendingShields, leaves, nullifierUsed>>
  BY DEF Prove, queue, tree
<1>2. /\ p.circuit = circuit /\ p.ins = ins /\ p.outs = FreshOf(outs)
      /\ p.exits = exits /\ p.swapIn = SwapIn(circuit, ins, outs)
  OBVIOUS
<1> HIDE DEF p
<1>3. /\ \A a \in Assets :
           ValueOf(p.ins, a) + Target(p, a)
             = SumOf(p.outs, a) + SumOf(p.exits, a) + ToVenue(p, a)
      /\ p.exits \in Payments(MaxExits, Users \cup {NoAddress})
      /\ p.circuit \in {"transfer", "swap"} <=> p.exits = << >>
      /\ p.circuit = "swap" => 1 \in DOMAIN p.outs
  BY <1>2, ProveBalanced DEF Books
<1>4. SpendsBalanced'
  BY <1>1, <1>3 DEF Books, SpendsBalanced
<1>5. EntriesBacked' /\ BurntLanded'
  BY <1>1 DEF Books, EntriesBacked, BurntLanded, NoteOf, Landed
<1> QED
  BY <1>4, <1>5 DEF Books

LEMMA BurnInsertBooks ==
  ASSUME Books, Inv', NEW p \in proved, BurnInsertCheck(p), UNCHANGED <<queue, client>>
  PROVE  Books'
<1>1. /\ Landed' = Landed \cup Range(p.outs)
      /\ nullifierUsed' = nullifierUsed \cup p.ins
  BY BurnInsertEffect DEF Books
<1>2. UNCHANGED <<queuedAs, pendingShields, proved>> /\ \A id : NoteOf(id)' = NoteOf(id)
  BY DEF queue, client, NoteOf
<1>3. BurntLanded'
  BY <1>1 DEF Books, BurntLanded, Inv, SpendsPending
<1>4. EntriesBacked' /\ SpendsBalanced'
  BY <1>2 DEF Books, EntriesBacked, SpendsBalanced
<1> QED
  BY <1>3, <1>4 DEF Books

LEMMA QuietBooks ==
  ASSUME Books, Inv', UNCHANGED <<queue, tree, client>>
  PROVE  Books'
BY DEF Books, EntriesBacked, BurntLanded, SpendsBalanced,
       queue, tree, client, NoteOf, Landed

LEMMA NextBooks == Books /\ [Next]_vars => Books'
<1> SUFFICES ASSUME Books, [Next]_vars PROVE Books'
  OBVIOUS
<1>0. Inv'
  BY NextInv DEF Books
<1>1. CASE Environment \/ Admin
  BY <1>0, <1>1, AdminQuiet, QuietBooks
<1>2. CASE Queueing
  BY <1>0, <1>2, ShieldBooks, LandBooks, RefundBooks
  DEF Queueing, ExecuteShield, ExecuteShieldImmediate, CancelShield, ContestShield
<1>3. CASE Spending
  <2>1. CASE \E u \in Users, circuit \in Circuits :
               \E ins \in SUBSET Spendable(u) \ {{}},
                  outs \in OutsOf(circuit), exits \in ExitsOf(circuit) :
               Prove(u, circuit, ins, outs, exits)
    BY <1>0, <2>1, ProveBooks
  <2>2. CASE \E p \in proved : Transfer(p)
    BY <1>0, <2>2, BurnInsertBooks DEF Transfer
  <2>3. CASE \E p \in proved, sender \in Users : Unshield(p, sender)
    BY <1>0, <2>3, BurnInsertBooks DEF Unshield
  <2>4. CASE \E p \in proved, sender \in Users : UnshieldBundled(p, sender)
    BY <1>0, <2>4, BurnInsertBooks DEF UnshieldBundled
  <2>5. CASE \E p \in proved, got \in Fills : PrivateSwap(p, got)
    BY <1>0, <2>5, BurnInsertBooks DEF PrivateSwap
  <2> QED
    BY <1>3, <2>1, <2>2, <2>3, <2>4, <2>5 DEF Spending
<1>4. CASE UNCHANGED vars
  BY <1>0, <1>4, QuietBooks DEF vars
<1> QED
  BY <1>1, <1>2, <1>3, <1>4 DEF Next

LEMMA BooksInvariant == Spec => []Books
<1>1. Init => Books
  BY InitBooks
<1>2. Books /\ [Next]_vars => Books'
  BY NextBooks
<1> QED
  BY <1>1, <1>2, PTL DEF Spec

-----------------------------------------------------------------------------
(* What the contract owes *)

LEMMA OwedIsWorth ==
  Books => \A a : Owed(a) = QueueWorth(WorthIn(a)) + NotesWorth(WorthIn(a))
<1> SUFFICES ASSUME Books, NEW a
             PROVE  Owed(a) = QueueWorth(WorthIn(a)) + NotesWorth(WorthIn(a))
  OBVIOUS
<1>0. TypeOK
  BY DEF Books, Inv
<1>1. \A id \in DOMAIN pendingShields :
         /\ NoteOf(id) \in Note
         /\ pendingShields[id].asset = NoteOf(id).asset
         /\ pendingShields[id].amount = NoteOf(id).amount
  BY <1>0, IdsType DEF Books, EntriesBacked
<1>2. \A id \in DOMAIN pendingShields :
        (IF Live(id) /\ pendingShields[id].asset = a
         THEN pendingShields[id].amount ELSE 0)
        = IF Live(id) THEN WorthIn(a)[NoteOf(id)] ELSE 0
  BY <1>1 DEF WorthIn
<1>3. EscrowOf(a) = QueueWorth(WorthIn(a))
  BY <1>2 DEF EscrowOf, QueueWorth
<1>4. Landed \ nullifierUsed \in SUBSET Note /\ IsFiniteSet(Landed \ nullifierUsed)
  BY <1>0, FiniteBooks
<1>5. ValueOf(Landed \ nullifierUsed, a) = NotesWorth(WorthIn(a))
  BY <1>4, ValueIsWorth DEF NotesWorth
<1> QED
  BY <1>3, <1>5 DEF Owed

LEMMA OwedNext ==
  Books' => \A a : Owed(a)' = QueueWorth(WorthIn(a))' + NotesWorth(WorthIn(a))'
<1>1. (Books => \A a : Owed(a) = QueueWorth(WorthIn(a)) + NotesWorth(WorthIn(a)))'
  BY OwedIsWorth, PTL
<1> QED
  BY <1>1

LEMMA OwedType ==
  ASSUME Books, NEW a
  PROVE  Owed(a) \in Nat
<1>1. TypeOK
  BY DEF Books, Inv
<1>2. QueueWorth(WorthIn(a)) \in Nat /\ NotesWorth(WorthIn(a)) \in Nat
  BY <1>1, WorthInType, WorthType
<1> QED
  BY <1>2, OwedIsWorth

LEMMA WorthNext == TypeOK' => \A w \in Weights : QueueWorth(w)' \in Nat
<1>1. TypeOK => \A w \in Weights : QueueWorth(w) \in Nat
  BY WorthType
<1>2. (TypeOK => \A w \in Weights : QueueWorth(w) \in Nat)'
  BY <1>1, PTL
<1> QED
  BY <1>2

LEMMA ShieldOwes ==
  ASSUME Books, Books', NEW u \in Users, NEW b \in Assets, NEW amount \in Amounts,
         Shield(u, b, amount), NEW a \in Assets
  PROVE  balance'[a] - Owed(a)' = balance[a] - Owed(a)
<1> DEFINE n == [owner |-> u, asset |-> b, amount |-> amount, secret |-> nextSecret]
<1>0. Inv /\ TypeOK /\ TypeOK'
  BY DEF Books, Inv
<1>1. n \in Note /\ n.asset = b /\ n.amount = amount /\ amount \in Nat
  BY <1>0, SecretsType, PampaloAssumption DEF Note
<1> HIDE DEF n
<1>2. WorthIn(a)[n] = IF a = b THEN amount ELSE 0
  BY <1>1 DEF WorthIn
<1>3. QueueWorth(WorthIn(a))' = QueueWorth(WorthIn(a)) + WorthIn(a)[n]
      /\ NotesWorth(WorthIn(a))' = NotesWorth(WorthIn(a))
  BY <1>0, WorthInType, ShieldWorth DEF n
<1>4. balance'[a] = balance[a] + (IF a = b THEN amount ELSE 0) /\ balance[a] \in Nat
  <2>1. balance' = [balance EXCEPT ![b] = balance[b] + amount]
    BY DEF Shield
  <2>2. balance \in [Assets -> Nat]
    BY <1>0 DEF TypeOK
  <2> QED
    BY <1>1, <2>1, <2>2
<1>5. QueueWorth(WorthIn(a)) \in Nat /\ NotesWorth(WorthIn(a)) \in Nat
  BY <1>0, WorthInType, WorthType
<1>6. /\ Owed(a) = QueueWorth(WorthIn(a)) + NotesWorth(WorthIn(a))
      /\ Owed(a)' = QueueWorth(WorthIn(a))' + NotesWorth(WorthIn(a))'
  BY OwedIsWorth, OwedNext
<1>7. Owed(a)' = Owed(a) + (IF a = b THEN amount ELSE 0)
  BY <1>1, <1>2, <1>3, <1>5, <1>6
<1> QED
  BY <1>1, <1>4, <1>7, OwedType

LEMMA LandOwes ==
  ASSUME Books, Books', NEW id, Land(id), NEW a \in Assets
  PROVE  balance'[a] - Owed(a)' = balance[a] - Owed(a)
<1>0. Inv /\ TypeOK /\ TypeOK' /\ BurntLanded
  BY DEF Books, Inv
<1>1. /\ NoteOf(id) \in Note
      /\ QueueWorth(WorthIn(a)) = QueueWorth(WorthIn(a))' + WorthIn(a)[NoteOf(id)]
      /\ NotesWorth(WorthIn(a))' = NotesWorth(WorthIn(a)) + WorthIn(a)[NoteOf(id)]
  BY <1>0, WorthInType, LandWorth
<1>2. WorthIn(a)[NoteOf(id)] \in Nat
  BY <1>1, WorthInType DEF Weights
<1>3. QueueWorth(WorthIn(a)) \in Nat /\ NotesWorth(WorthIn(a)) \in Nat
  BY <1>0, WorthInType, WorthType
<1>4. (QueueWorth(WorthIn(a)) \in Nat)'
  BY <1>0, WorthNext, WorthInType
<1>5. Owed(a)' = Owed(a)
  BY <1>1, <1>2, <1>3, <1>4, OwedIsWorth, OwedNext
<1>6. balance' = balance
  BY DEF Land, funds
<1> QED
  BY <1>5, <1>6

LEMMA RefundOwes ==
  ASSUME Books, Books', NEW id, Refund(id), NEW a \in Assets
  PROVE  balance'[a] - Owed(a)' = balance[a] - Owed(a)
<1> DEFINE p == pendingShields[id]
           n == NoteOf(id)
<1>0. Inv /\ TypeOK /\ TypeOK'
  BY DEF Books, Inv
<1>1. /\ n \in Note
      /\ QueueWorth(WorthIn(a)) = QueueWorth(WorthIn(a))' + WorthIn(a)[n]
      /\ NotesWorth(WorthIn(a))' = NotesWorth(WorthIn(a))
  BY <1>0, WorthInType, RefundWorth
<1>2. id \in DOMAIN pendingShields /\ p.asset = n.asset /\ p.amount = n.amount
  BY DEF Refund, Live, Books, EntriesBacked
<1>3. n.amount \in Nat /\ n.asset \in Assets
  BY <1>1, PampaloAssumption DEF Note
<1>4. WorthIn(a)[n] = IF a = n.asset THEN n.amount ELSE 0
  BY <1>1 DEF WorthIn
<1>5. /\ balance' = [balance EXCEPT ![p.asset] = balance[p.asset] - p.amount]
      /\ balance \in [Assets -> Nat]
  BY <1>0 DEF Refund, TypeOK
<1> HIDE DEF p, n
<1>6. balance'[a] = balance[a] - (IF a = n.asset THEN n.amount ELSE 0)
  BY <1>2, <1>3, <1>5
<1>7. QueueWorth(WorthIn(a)) \in Nat /\ NotesWorth(WorthIn(a)) \in Nat
  BY <1>0, WorthInType, WorthType
<1>8. (QueueWorth(WorthIn(a)) \in Nat)'
  BY <1>0, WorthNext, WorthInType
<1>9. Owed(a) = Owed(a)' + (IF a = n.asset THEN n.amount ELSE 0)
  BY <1>1, <1>3, <1>4, <1>7, <1>8, OwedIsWorth, OwedNext
<1>10. Owed(a)' = Owed(a) - (IF a = n.asset THEN n.amount ELSE 0) /\ Owed(a) \in Nat
  <2>1. Owed(a)' \in Nat /\ Owed(a) \in Nat
    BY <1>1, <1>7, <1>8, OwedIsWorth, OwedNext
  <2> QED
    BY <1>3, <1>9, <2>1
<1>11. balance[a] \in Nat
  BY <1>5
<1> QED
  BY <1>3, <1>6, <1>10, <1>11

\* What a spend takes out, or forfeits, is out of its notes.
LEMMA SpendOwes ==
  ASSUME Books, Books', NEW p \in proved, BurnInsertCheck(p),
         UNCHANGED <<queue, client>>, NEW a \in Assets
  PROVE  /\ ToVenue(p, a) \in Nat /\ Target(p, a) \in Nat
         /\ SumOf(p.exits, a) \in Nat /\ TotalOut(p, a) \in Nat
         /\ TotalOut(p, a) <= SumOf(p.exits, a)
         /\ TotalOut(p, a) # SumOf(p.exits, a) => Forfeits(p, a)
         /\ p.exits = << >> => SumOf(p.exits, a) = 0
         /\ Owed(a)' = Owed(a) + Target(p, a) - SumOf(p.exits, a) - ToVenue(p, a)
<1> DEFINE W == WorthIn(a)
<1>0. Inv /\ TypeOK /\ TypeOK' /\ BurntLanded
  BY DEF Books, Inv
<1>1. /\ IsFiniteSet(p.ins) /\ p.ins \subseteq Note
      /\ NotesWorth(W)' = NotesWorth(W) - SumFunctionOnSet(W, p.ins)
                            + SumFunctionOnSet(W, Range(p.outs))
  BY <1>0, WorthInType, BurnInsertWorth
<1>2. SumFunctionOnSet(W, p.ins) = ValueOf(p.ins, a) /\ ValueOf(p.ins, a) \in Nat
  BY <1>1, ValueIsWorth, ValueType
<1>3. p.outs \in Seq(Note) /\ IsInjective(p.outs)
      /\ Range(p.outs) \subseteq Note /\ IsFiniteSet(Range(p.outs))
  BY <1>0, SecretsType, RangeFinite DEF Inv, OutputsFresh
<1>4. SumFunctionOnSet(W, Range(p.outs)) = SumOf(p.outs, a) /\ SumOf(p.outs, a) \in Nat
  <2>1. SumOf(p.outs, a) = SumFunctionOnSet(W, Range(p.outs))
    BY <1>3, SlotsWorth
  <2>2. \A n \in Range(p.outs) : W[n] \in Nat
    BY <1>3, WorthInType DEF Weights
  <2> HIDE DEF W
  <2>3. SumFunctionOnSet(W, Range(p.outs)) \in Nat
    BY <1>3, <2>2, SumNat
  <2> QED
    BY <2>1, <2>3
<1>5. /\ SumOf(p.exits, a) \in Nat /\ TotalOut(p, a) \in Nat
      /\ TotalOut(p, a) <= SumOf(p.exits, a)
      /\ TotalOut(p, a) # SumOf(p.exits, a) => Forfeits(p, a)
      /\ p.exits = << >> => SumOf(p.exits, a) = 0
  BY TotalOutWorth DEF Books, SpendsBalanced
<1>6. ToVenue(p, a) \in Nat
  BY <1>0 DEF ToVenue, Given, TypeOK, Spend
<1>7. Target(p, a) \in Nat
  <2>1. p.circuit = "swap" => p.outs[1] \in Note
    BY <1>3, ElementType DEF Books, SpendsBalanced
  <2>2. \A n \in Note : n.amount \in Nat
    BY PampaloAssumption DEF Note
  <2> QED
    BY <2>1, <2>2 DEF Target, Taken
<1>8. ValueOf(p.ins, a) + Target(p, a)
        = SumOf(p.outs, a) + SumOf(p.exits, a) + ToVenue(p, a)
  BY DEF Books, SpendsBalanced
<1>9. QueueWorth(W)' = QueueWorth(W)
  BY DEF QueueWorth, queue, Live, NoteOf
<1>10. QueueWorth(W) \in Nat /\ NotesWorth(W) \in Nat
  BY <1>0, WorthInType, WorthType
<1>11. Owed(a) = QueueWorth(W) + NotesWorth(W) /\ Owed(a)' = QueueWorth(W)' + NotesWorth(W)'
  BY OwedIsWorth, OwedNext
<1> HIDE DEF W
<1> QED
  BY <1>1, <1>2, <1>4, <1>5, <1>6, <1>7, <1>8, <1>9, <1>10, <1>11

LEMMA QuietOwes ==
  ASSUME UNCHANGED <<pendingShields, leaves, nullifierUsed, balance>>, NEW a
  PROVE  balance'[a] - Owed(a)' = balance[a] - Owed(a)
<1>1. Owed(a)' = Owed(a)
  BY DEF Owed, EscrowOf, Live, Landed
<1> QED
  BY <1>1

\* The spend p was sent, and what it forfeits of asset a stays in the contract.
Forfeited(p, a) ==
  /\ Forfeits(p, a)
  /\ p.ins # {} /\ p.ins \cap nullifierUsed = {} /\ p.ins \subseteq nullifierUsed'
  /\ balance'[a] - Owed(a)' >= balance[a] - Owed(a)

LEMMA Burns ==
  ASSUME Inv, NEW p \in proved, BurnInsertCheck(p)
  PROVE  p.ins # {} /\ p.ins \cap nullifierUsed = {} /\ p.ins \subseteq nullifierUsed'
BY DEF Inv, SpendsPending, BurnInsertCheck, Unspent

LEMMA ExitsOwe ==
  ASSUME Books, Books', NEW p \in proved, BurnInsertCheck(p),
         p.circuit \in {"withdraw", "transferExternal"},
         NEW sender, ProcessExitsAndCharge(p, sender),
         UNCHANGED <<queue, client>>, NEW a \in Assets
  PROVE  balance'[a] - Owed(a)' = balance[a] - Owed(a) \/ Forfeited(p, a)
<1>1. /\ TotalOut(p, a) \in Nat /\ SumOf(p.exits, a) \in Nat
      /\ TotalOut(p, a) <= SumOf(p.exits, a)
      /\ TotalOut(p, a) # SumOf(p.exits, a) => Forfeits(p, a)
      /\ Owed(a)' = Owed(a) + Target(p, a) - SumOf(p.exits, a) - ToVenue(p, a)
  BY SpendOwes
<1>2. Target(p, a) = 0 /\ ToVenue(p, a) = 0
  BY DEF Target, ToVenue
<1>3. balance'[a] = balance[a] - TotalOut(p, a)
  BY DEF ProcessExitsAndCharge
<1>4. balance[a] \in Nat /\ Owed(a) \in Nat
  BY OwedType DEF Books, Inv, TypeOK
<1>5. CASE TotalOut(p, a) = SumOf(p.exits, a)
  BY <1>1, <1>2, <1>3, <1>4, <1>5
<1>6. CASE TotalOut(p, a) # SumOf(p.exits, a)
  <2>1. balance'[a] - Owed(a)' >= balance[a] - Owed(a)
    BY <1>1, <1>2, <1>3, <1>4
  <2>2. p.ins # {} /\ p.ins \cap nullifierUsed = {} /\ p.ins \subseteq nullifierUsed'
    BY Burns DEF Books
  <2> QED
    BY <1>1, <1>6, <2>1, <2>2 DEF Forfeited
<1> QED
  BY <1>5, <1>6

LEMMA TransferOwes ==
  ASSUME Books, Books', NEW p \in proved, Transfer(p), NEW a \in Assets
  PROVE  balance'[a] - Owed(a)' = balance[a] - Owed(a)
<1>1. /\ p.circuit = "transfer" /\ BurnInsertCheck(p)
      /\ UNCHANGED <<queue, client>> /\ balance' = balance
  BY DEF Transfer, funds
<1>2. p.exits = << >>
  BY <1>1 DEF Books, SpendsBalanced
<1>3. Target(p, a) = 0 /\ ToVenue(p, a) = 0
  BY <1>1 DEF Target, ToVenue
<1>4. /\ SumOf(p.exits, a) = 0
      /\ Owed(a)' = Owed(a) + Target(p, a) - SumOf(p.exits, a) - ToVenue(p, a)
  BY <1>1, <1>2, SpendOwes
<1>5. balance[a] \in Nat /\ Owed(a) \in Nat
  BY OwedType DEF Books, Inv, TypeOK
<1> QED
  BY <1>1, <1>3, <1>4, <1>5

LEMMA SwapOwes ==
  ASSUME Books, Books', NEW p \in proved, NEW got \in Fills, PrivateSwap(p, got),
         NEW a \in Assets
  PROVE  balance'[a] - Owed(a)' = balance[a] - Owed(a) \/ Forfeited(p, a)
<1>1. /\ p.circuit = "swap" /\ BurnInsertCheck(p)
      /\ UNCHANGED <<queue, client>> /\ got >= p.outs[1].amount
      /\ balance'[a] = balance[a] - Given(p, a) + Taken(p, a, got)
  BY DEF PrivateSwap, Floor
<1>2. p.exits = << >>
  BY <1>1 DEF Books, SpendsBalanced
<1>3. /\ ToVenue(p, a) \in Nat /\ Target(p, a) \in Nat /\ SumOf(p.exits, a) = 0
      /\ Owed(a)' = Owed(a) + Target(p, a) - SumOf(p.exits, a) - ToVenue(p, a)
  BY <1>1, <1>2, SpendOwes
<1>4. ToVenue(p, a) = Given(p, a) /\ Target(p, a) = Taken(p, a, p.outs[1].amount)
  BY <1>1 DEF Target, ToVenue
<1>5. balance[a] \in Nat /\ Owed(a) \in Nat /\ got \in Nat
  BY OwedType, PampaloAssumption DEF Books, Inv, TypeOK
<1>6. Taken(p, a, got) \in Nat
  BY <1>5 DEF Taken
<1>7. CASE p.outs[1].asset # a
  <2>1. Taken(p, a, got) = 0 /\ Target(p, a) = 0
    BY <1>4, <1>7 DEF Taken
  <2> QED
    BY <1>1, <1>3, <1>4, <1>5, <2>1
<1>8. CASE p.outs[1].asset = a
  <2>1. Taken(p, a, got) >= Target(p, a)
    BY <1>1, <1>4, <1>5, <1>8 DEF Taken
  <2>2. balance'[a] - Owed(a)' >= balance[a] - Owed(a)
    BY <1>1, <1>3, <1>4, <1>5, <1>6, <2>1
  <2>3. p.ins # {} /\ p.ins \cap nullifierUsed = {} /\ p.ins \subseteq nullifierUsed'
    BY <1>1, Burns DEF Books
  <2> QED
    BY <1>1, <1>8, <2>2, <2>3 DEF Forfeited, Forfeits
<1> QED
  BY <1>7, <1>8

LEMMA OwedNatNext == Books' => \A a : Owed(a)' \in Nat
<1>1. Books => \A a : Owed(a) \in Nat
  BY OwedType
<1>2. (Books => \A a : Owed(a) \in Nat)'
  BY <1>1, PTL
<1> QED
  BY <1>2

\* What a step does to the surplus over what is owed in asset a.
LEMMA SurplusStep ==
  ASSUME Books, [Next]_vars, NEW a \in Assets
  PROVE  \/ balance'[a] - Owed(a)' = balance[a] - Owed(a)
         \/ \E p \in proved : Forfeited(p, a)
<1>0. Books'
  BY NextBooks
<1>1. CASE Environment \/ Admin
  <2>1. UNCHANGED <<pendingShields, leaves, nullifierUsed, balance>>
    BY <1>1
    DEF Admin, Environment, Tick, PriceMoves, AddSupportedAsset,
        DisableSupportedAsset, SetDefaultMonthlyCap, SetAddressMonthlyCap,
        SetFastTrackAllowed, SetShieldWaitTime, WeAreFull, WeFoundRoom,
        SetDepositsHalted, queue, tree, funds
  <2> QED
    BY <2>1, QuietOwes
<1>2. CASE Queueing
  BY <1>0, <1>2, ShieldOwes, LandOwes, RefundOwes
  DEF Queueing, ExecuteShield, ExecuteShieldImmediate, CancelShield, ContestShield
<1>3. CASE Spending
  <2>1. CASE \E u \in Users, circuit \in Circuits :
               \E ins \in SUBSET Spendable(u) \ {{}},
                  outs \in OutsOf(circuit), exits \in ExitsOf(circuit) :
               Prove(u, circuit, ins, outs, exits)
    <3>1. UNCHANGED <<pendingShields, leaves, nullifierUsed, balance>>
      BY <2>1 DEF Prove, queue, tree, funds
    <3> QED
      BY <3>1, QuietOwes
  <2>2. CASE \E p \in proved : Transfer(p)
    BY <1>0, <2>2, TransferOwes
  <2>3. CASE \E p \in proved, sender \in Users : Unshield(p, sender)
    BY <1>0, <2>3, ExitsOwe DEF Unshield
  <2>4. CASE \E p \in proved, sender \in Users : UnshieldBundled(p, sender)
    BY <1>0, <2>4, ExitsOwe DEF UnshieldBundled
  <2>5. CASE \E p \in proved, got \in Fills : PrivateSwap(p, got)
    BY <1>0, <2>5, SwapOwes
  <2> QED
    BY <1>3, <2>1, <2>2, <2>3, <2>4, <2>5 DEF Spending
<1>4. CASE UNCHANGED vars
  BY <1>4, QuietOwes DEF vars, queue, tree, funds
<1> QED
  BY <1>1, <1>2, <1>3, <1>4 DEF Next

\* Proofs and burnt notes are never forgotten.
LEMMA NothingForgotten ==
  ASSUME [Next]_vars
  PROVE  proved \subseteq proved' /\ nullifierUsed \subseteq nullifierUsed'
<1>1. CASE Environment \/ Admin
  BY <1>1
  DEF Admin, Environment, Tick, PriceMoves, AddSupportedAsset,
      DisableSupportedAsset, SetDefaultMonthlyCap, SetAddressMonthlyCap,
      SetFastTrackAllowed, SetShieldWaitTime, WeAreFull, WeFoundRoom,
      SetDepositsHalted, tree, client
<1>2. CASE Queueing
  <2>1. ASSUME NEW u, NEW a, NEW amount, Shield(u, a, amount)
        PROVE  proved' = proved /\ nullifierUsed' = nullifierUsed
    BY <2>1 DEF Shield, tree
  <2>2. ASSUME NEW id, Land(id)
        PROVE  proved' = proved /\ nullifierUsed' = nullifierUsed
    BY <2>2 DEF Land, client
  <2>3. ASSUME NEW id, Refund(id)
        PROVE  proved' = proved /\ nullifierUsed' = nullifierUsed
    BY <2>3 DEF Refund, client, tree
  <2> QED
    BY <1>2, <2>1, <2>2, <2>3
    DEF Queueing, ExecuteShield, ExecuteShieldImmediate, CancelShield, ContestShield
<1>3. CASE Spending
  <2>1. ASSUME NEW u, NEW circuit, NEW ins, NEW outs, NEW exits,
               Prove(u, circuit, ins, outs, exits)
        PROVE  proved \subseteq proved' /\ nullifierUsed' = nullifierUsed
    BY <2>1 DEF Prove, tree
  <2>2. ASSUME NEW p, NEW sender, NEW got,
               \/ Transfer(p) \/ Unshield(p, sender) \/ UnshieldBundled(p, sender)
               \/ PrivateSwap(p, got)
        PROVE  proved' = proved /\ nullifierUsed \subseteq nullifierUsed'
    BY <2>2 DEF Transfer, Unshield, UnshieldBundled, PrivateSwap, BurnInsertCheck, client
  <2> QED
    BY <1>3, <2>1, <2>2 DEF Spending
<1>4. CASE UNCHANGED vars
  BY <1>4 DEF vars, tree, client
<1> QED
  BY <1>1, <1>2, <1>3, <1>4 DEF Next

\* No order of shields, landings, cancels, contests, transfers, exits and swaps,
\* re-sent ones included, takes from what the contract holds beyond what it
\* owes, and it grows only in a call that burns notes.  The spends are those the
\* repository's own builders make.
THEOREM SurplusIsSafe == Spec => SurplusOnlyGrows
<1>1. Books /\ [Next]_vars =>
        \A a \in Assets :
          LET surplus == balance[a] - Owed(a) IN
          /\ surplus' >= surplus
          /\ surplus' > surplus => nullifierUsed' # nullifierUsed
  <2> SUFFICES ASSUME Books, [Next]_vars, NEW a \in Assets
               PROVE  /\ balance'[a] - Owed(a)' >= balance[a] - Owed(a)
                      /\ balance'[a] - Owed(a)' > balance[a] - Owed(a)
                           => nullifierUsed' # nullifierUsed
    OBVIOUS
  <2>1. balance[a] \in Nat /\ Owed(a) \in Nat
    BY OwedType DEF Books, Inv, TypeOK
  <2>2. CASE balance'[a] - Owed(a)' = balance[a] - Owed(a)
    BY <2>1, <2>2
  <2>3. CASE \E p \in proved : Forfeited(p, a)
    BY <2>3 DEF Forfeited
  <2> QED
    BY <2>2, <2>3, SurplusStep
<1> QED
  BY <1>1, BooksInvariant, PTL DEF Spec, SurplusOnlyGrows

\* The contract holds, asset by asset, the escrow of its live entries and the
\* value of its unspent notes, and holds more only after a spend that forfeits
\* tokens of the asset (a swap into it, an exit of it to address(0)) has been
\* sent.  The spends are those the repository's own builders make.
THEOREM Conserves == Spec => []Conservation
<1>1. Init => Conservation
  <2> SUFFICES ASSUME Init, NEW a \in Assets PROVE balance[a] = 0 /\ Owed(a) = 0
    BY DEF Conservation
  <2>1. DOMAIN pendingShields = {} /\ Landed = {} /\ balance[a] = 0
    BY EmptyFunction DEF Init, Landed, Range
  <2>2. QueueWorth(WorthIn(a)) = 0
    <3>1. DOMAIN [id \in DOMAIN pendingShields |->
                    IF Live(id) THEN WorthIn(a)[NoteOf(id)] ELSE 0] = {}
      BY <2>1
    <3> QED
      BY <3>1, SumEmpty DEF QueueWorth, SumFunction
  <2>3. NotesWorth(WorthIn(a)) = 0
    <3>1. Landed \ nullifierUsed = {}
      BY <2>1
    <3> QED
      BY <3>1, SumEmpty DEF NotesWorth
  <2> QED
    BY <2>1, <2>2, <2>3, InitBooks, OwedIsWorth
<1>2. Books /\ Conservation /\ [Next]_vars => Conservation'
  <2> SUFFICES ASSUME Books, Conservation, [Next]_vars, NEW a \in Assets
               PROVE  /\ balance'[a] >= Owed(a)'
                      /\ balance'[a] > Owed(a)' =>
                           \E p \in proved' : Forfeits(p, a) /\ p.ins \subseteq nullifierUsed'
    BY DEF Conservation, Forfeits, Paid
  <2>1. /\ balance[a] >= Owed(a)
        /\ balance[a] > Owed(a) =>
             \E p \in proved : Forfeits(p, a) /\ p.ins \subseteq nullifierUsed
    BY DEF Conservation
  <2>2. balance[a] \in Nat /\ Owed(a) \in Nat
    BY OwedType DEF Books, Inv, TypeOK
  <2>3. balance'[a] \in Nat /\ Owed(a)' \in Nat
    <3>1. Books'
      BY NextBooks
    <3>2. Owed(a)' \in Nat
      BY <3>1, OwedNatNext
    <3> QED
      BY <3>1, <3>2 DEF Books, Inv, TypeOK
  <2>4. proved \subseteq proved' /\ nullifierUsed \subseteq nullifierUsed'
    BY NothingForgotten
  <2>5. CASE balance'[a] - Owed(a)' = balance[a] - Owed(a)
    <3>1. balance'[a] >= Owed(a)' /\ (balance'[a] > Owed(a)' => balance[a] > Owed(a))
      BY <2>1, <2>2, <2>3, <2>5
    <3> QED
      BY <2>1, <2>4, <3>1
  <2>6. CASE \E p \in proved : Forfeited(p, a)
    <3>1. PICK p \in proved : Forfeited(p, a)
      BY <2>6
    <3>2. /\ p \in proved' /\ Forfeits(p, a) /\ p.ins \subseteq nullifierUsed'
          /\ balance'[a] - Owed(a)' >= balance[a] - Owed(a)
      BY <2>4, <3>1 DEF Forfeited
    <3>3. balance'[a] >= Owed(a)'
      BY <2>1, <2>2, <2>3, <3>2
    <3> QED
      BY <3>2, <3>3
  <2> QED
    BY <2>5, <2>6, SurplusStep
<1> QED
  BY <1>1, <1>2, BooksInvariant, PTL DEF Spec

-----------------------------------------------------------------------------
(* What a user owns *)

LEMMA WealthIsWorth ==
  Books => \A u, a : Wealth(u, a) = wallet[<<u, a>>] + QueueWorth(WorthTo(u, a))
                                      + NotesWorth(WorthTo(u, a))
<1> SUFFICES ASSUME Books, NEW u, NEW a
             PROVE  Wealth(u, a) = wallet[<<u, a>>] + QueueWorth(WorthTo(u, a))
                                      + NotesWorth(WorthTo(u, a))
  OBVIOUS
<1> DEFINE W == WorthTo(u, a)
           mine == Spendable(u)
           unspent == Landed \ nullifierUsed
<1>0. TypeOK
  BY DEF Books, Inv
<1>1. \A id \in DOMAIN pendingShields :
         /\ NoteOf(id) \in Note
         /\ pendingShields[id].shielder = NoteOf(id).owner
         /\ pendingShields[id].asset = NoteOf(id).asset
         /\ pendingShields[id].amount = NoteOf(id).amount
  BY <1>0, IdsType DEF Books, EntriesBacked
<1>2. \A id \in DOMAIN pendingShields :
        (IF /\ Live(id)
            /\ pendingShields[id].shielder = u
            /\ pendingShields[id].asset = a
         THEN pendingShields[id].amount ELSE 0)
        = IF Live(id) THEN W[NoteOf(id)] ELSE 0
  BY <1>1 DEF WorthTo
<1>3. SumFunction([id \in DOMAIN pendingShields |->
                     IF /\ Live(id)
                        /\ pendingShields[id].shielder = u
                        /\ pendingShields[id].asset = a
                     THEN pendingShields[id].amount ELSE 0]) = QueueWorth(W)
  BY <1>2 DEF QueueWorth
<1>4. /\ unspent \subseteq Note /\ IsFiniteSet(unspent)
      /\ mine \in SUBSET unspent /\ mine \in SUBSET Note
  BY <1>0, FiniteBooks DEF Spendable
<1>5. IsFiniteSet(mine) /\ IsFiniteSet(unspent \ mine)
  BY <1>4, FS_Subset
<1>6. /\ \A n \in mine : W[n] = WorthIn(a)[n]
      /\ \A n \in unspent \ mine : W[n] = 0
  BY <1>4 DEF WorthTo, WorthIn, Spendable
<1>7. /\ \A n \in unspent : W[n] \in Int
      /\ \A n \in mine : W[n] \in Int
  <2>1. W \in [Note -> Nat]
    BY WorthInType DEF Weights
  <2> HIDE DEF W, mine, unspent
  <2>2. \A n \in Note : W[n] \in Int
    BY <2>1
  <2> QED
    BY <1>4, <2>2
<1> HIDE DEF W, mine, unspent
<1>8. ValueOf(mine, a) = SumFunctionOnSet(WorthIn(a), mine)
  BY <1>4, <1>5, ValueIsWorth
<1>9. SumFunctionOnSet(W, mine) = SumFunctionOnSet(WorthIn(a), mine)
  BY <1>5, <1>6, SumEqual
<1>10. SumFunctionOnSet(W, unspent \ mine) = 0
  BY <1>5, <1>6, SumZero
<1>11. SumFunctionOnSet(W, unspent)
         = SumFunctionOnSet(W, unspent \ mine) + SumFunctionOnSet(W, mine)
  BY <1>4, <1>7, SumWithout
<1>12. SumFunctionOnSet(W, mine) \in Int
  BY <1>5, <1>7, SumInt
<1>13. NotesWorth(W) = ValueOf(mine, a)
  BY <1>8, <1>9, <1>10, <1>11, <1>12 DEF NotesWorth, unspent
<1> QED
  BY <1>3, <1>13 DEF Wealth, W, mine

LEMMA WealthNext ==
  Books' => \A u, a : Wealth(u, a)' = wallet'[<<u, a>>] + QueueWorth(WorthTo(u, a))'
                                      + NotesWorth(WorthTo(u, a))'
<1>1. (Books => \A u, a : Wealth(u, a) = wallet[<<u, a>>] + QueueWorth(WorthTo(u, a))
                                      + NotesWorth(WorthTo(u, a)))'
  BY WealthIsWorth, PTL
<1> QED
  BY <1>1

LEMMA WealthType ==
  ASSUME Books, NEW u \in Users, NEW a \in Assets
  PROVE  /\ wallet[<<u, a>>] \in Nat /\ WorthTo(u, a) \in Weights
         /\ QueueWorth(WorthTo(u, a)) \in Nat /\ NotesWorth(WorthTo(u, a)) \in Nat
<1>1. TypeOK
  BY DEF Books, Inv
<1>2. WorthTo(u, a) \in Weights
  BY WorthInType
<1> QED
  BY <1>1, <1>2, WorthType DEF TypeOK

LEMMA ShieldLeavesWealth ==
  ASSUME Books, Books', NEW v \in Users, NEW b \in Assets, NEW amount \in Amounts,
         Shield(v, b, amount), NEW u \in Users, NEW a \in Assets
  PROVE  Wealth(u, a)' = Wealth(u, a)
<1> DEFINE n == [owner |-> v, asset |-> b, amount |-> amount, secret |-> nextSecret]
           W == WorthTo(u, a)
<1>0. Inv /\ TypeOK /\ TypeOK'
  BY DEF Books, Inv
<1>1. /\ n \in Note /\ n.owner = v /\ n.asset = b /\ n.amount = amount
      /\ amount \in Nat
  BY <1>0, SecretsType, PampaloAssumption DEF Note
<1>2. /\ QueueWorth(W)' = QueueWorth(W) + W[n]
      /\ NotesWorth(W)' = NotesWorth(W)
  BY <1>0, WorthInType, ShieldWorth
<1> HIDE DEF n
<1>3. W[n] = IF u = v /\ a = b THEN amount ELSE 0
  BY <1>1 DEF WorthTo
<1>4. /\ wallet' = [wallet EXCEPT ![<<v, b>>] = wallet[<<v, b>>] - amount]
      /\ wallet \in [Users \X Assets -> Nat]
  BY <1>0 DEF Shield, TypeOK
<1>5. wallet'[<<u, a>>] = wallet[<<u, a>>] - (IF u = v /\ a = b THEN amount ELSE 0)
  BY <1>1, <1>4
<1>6. wallet[<<u, a>>] \in Nat /\ QueueWorth(W) \in Nat /\ NotesWorth(W) \in Nat
  BY WealthType
<1>7. /\ Wealth(u, a) = wallet[<<u, a>>] + QueueWorth(W) + NotesWorth(W)
      /\ Wealth(u, a)' = wallet'[<<u, a>>] + QueueWorth(W)' + NotesWorth(W)'
  BY WealthIsWorth, WealthNext
<1> HIDE DEF W
<1> QED
  BY <1>1, <1>2, <1>3, <1>5, <1>6, <1>7

LEMMA LandLeavesWealth ==
  ASSUME Books, Books', NEW id, Land(id), NEW u \in Users, NEW a \in Assets
  PROVE  Wealth(u, a)' = Wealth(u, a)
<1> DEFINE W == WorthTo(u, a)
<1>0. Inv /\ BurntLanded /\ TypeOK'
  BY DEF Books, Inv
<1>1. /\ NoteOf(id) \in Note
      /\ QueueWorth(W) = QueueWorth(W)' + W[NoteOf(id)]
      /\ NotesWorth(W)' = NotesWorth(W) + W[NoteOf(id)]
  BY <1>0, WorthInType, LandWorth
<1>2. W[NoteOf(id)] \in Nat
  BY <1>1, WorthInType DEF Weights
<1>3. wallet' = wallet
  BY DEF Land, funds
<1>4. /\ wallet[<<u, a>>] \in Nat /\ QueueWorth(W) \in Nat /\ NotesWorth(W) \in Nat
      /\ QueueWorth(W)' \in Nat
  BY <1>0, WealthType, WorthInType, WorthNext
<1>5. /\ Wealth(u, a) = wallet[<<u, a>>] + QueueWorth(W) + NotesWorth(W)
      /\ Wealth(u, a)' = wallet'[<<u, a>>] + QueueWorth(W)' + NotesWorth(W)'
  BY WealthIsWorth, WealthNext
<1> HIDE DEF W
<1> QED
  BY <1>1, <1>2, <1>3, <1>4, <1>5

LEMMA RefundLeavesWealth ==
  ASSUME Books, Books', NEW id, Refund(id), NEW u \in Users, NEW a \in Assets
  PROVE  Wealth(u, a)' = Wealth(u, a)
<1> DEFINE W == WorthTo(u, a)
           p == pendingShields[id]
           n == NoteOf(id)
<1>0. Inv /\ TypeOK /\ TypeOK'
  BY DEF Books, Inv
<1>1. /\ n \in Note
      /\ QueueWorth(W) = QueueWorth(W)' + W[n]
      /\ NotesWorth(W)' = NotesWorth(W)
  BY <1>0, WorthInType, RefundWorth
<1>2. /\ p.shielder = n.owner /\ p.asset = n.asset /\ p.amount = n.amount
  BY DEF Refund, Live, Books, EntriesBacked
<1>3. n.amount \in Nat /\ n.asset \in Assets /\ n.owner \in Users
  BY <1>1, PampaloAssumption DEF Note
<1>4. W[n] = IF u = n.owner /\ a = n.asset THEN n.amount ELSE 0
  BY <1>1 DEF WorthTo
<1>5. /\ wallet' = [wallet EXCEPT ![<<p.shielder, p.asset>>] =
                      wallet[<<p.shielder, p.asset>>] + p.amount]
      /\ wallet \in [Users \X Assets -> Nat]
  BY <1>0 DEF Refund, PaidBack, TypeOK
<1> HIDE DEF p, n
<1>6. wallet'[<<u, a>>] = wallet[<<u, a>>]
                            + (IF u = n.owner /\ a = n.asset THEN n.amount ELSE 0)
  BY <1>2, <1>3, <1>5
<1>7. /\ wallet[<<u, a>>] \in Nat /\ QueueWorth(W) \in Nat /\ NotesWorth(W) \in Nat
      /\ QueueWorth(W)' \in Nat
  BY <1>0, WealthType, WorthInType, WorthNext
<1>8. /\ Wealth(u, a) = wallet[<<u, a>>] + QueueWorth(W) + NotesWorth(W)
      /\ Wealth(u, a)' = wallet'[<<u, a>>] + QueueWorth(W)' + NotesWorth(W)'
  BY WealthIsWorth, WealthNext
<1> HIDE DEF W
<1> QED
  BY <1>1, <1>3, <1>4, <1>6, <1>7, <1>8

\* A spend takes from its inputs' owners only.
LEMMA SpendTakes ==
  ASSUME Books, Books', NEW p \in proved, BurnInsertCheck(p),
         UNCHANGED <<queue, client>>, NEW u \in Users, NEW a \in Assets,
         wallet'[<<u, a>>] >= wallet[<<u, a>>],
         Wealth(u, a)' < Wealth(u, a)
  PROVE  \E n \in nullifierUsed' \ nullifierUsed : n.owner = u /\ n.asset = a
<1> DEFINE W == WorthTo(u, a)
<1>0. Inv /\ TypeOK /\ TypeOK' /\ BurntLanded
  BY DEF Books, Inv
<1>1. /\ IsFiniteSet(p.ins) /\ p.ins \subseteq Note
      /\ IsFiniteSet(Range(p.outs)) /\ Range(p.outs) \subseteq Note
      /\ NotesWorth(W)' = NotesWorth(W) - SumFunctionOnSet(W, p.ins)
                            + SumFunctionOnSet(W, Range(p.outs))
  BY <1>0, WorthInType, BurnInsertWorth
<1>2. \A n \in Note : W[n] \in Nat
  BY WorthInType DEF Weights
<1>3. QueueWorth(W)' = QueueWorth(W)
  BY DEF QueueWorth, queue, Live, NoteOf
<1>4. wallet[<<u, a>>] \in Nat /\ QueueWorth(W) \in Nat /\ NotesWorth(W) \in Nat
      /\ wallet'[<<u, a>>] \in Nat
  BY <1>0, WealthType DEF TypeOK
<1>5. /\ Wealth(u, a) = wallet[<<u, a>>] + QueueWorth(W) + NotesWorth(W)
      /\ Wealth(u, a)' = wallet'[<<u, a>>] + QueueWorth(W)' + NotesWorth(W)'
  BY WealthIsWorth, WealthNext
<1>6. /\ SumFunctionOnSet(W, p.ins) \in Nat
      /\ SumFunctionOnSet(W, Range(p.outs)) \in Nat
  <2> HIDE DEF W
  <2>1. (\A n \in p.ins : W[n] \in Nat) /\ (\A n \in Range(p.outs) : W[n] \in Nat)
    BY <1>1, <1>2
  <2> QED
    BY <1>1, <2>1, SumNat
<1>7. SumFunctionOnSet(W, p.ins) # 0
  <2> HIDE DEF W
  <2> QED
    BY <1>1, <1>3, <1>4, <1>5, <1>6
<1>8. PICK n \in p.ins : W[n] # 0
  <2> HIDE DEF W
  <2> QED
    BY <1>1, <1>7, SumZero
<1>9. n.owner = u /\ n.asset = a
  BY <1>1, <1>8 DEF WorthTo
<1>10. n \in nullifierUsed' \ nullifierUsed
  BY DEF BurnInsertCheck, Unspent
<1> QED
  BY <1>9, <1>10

LEMMA ExitsPay ==
  ASSUME Books, NEW p \in proved, NEW sender, ProcessExitsAndCharge(p, sender),
         NEW u \in Users, NEW a \in Assets
  PROVE  wallet'[<<u, a>>] >= wallet[<<u, a>>]
<1>0. TypeOK
  BY DEF Books, Inv
<1>1. TotalTo(p, u, a) \in Nat
  BY <1>0, ExitAmountType DEF TotalTo
<1>2. wallet' = [ua \in Users \X Assets |-> wallet[ua] + TotalTo(p, ua[1], ua[2])]
  BY DEF ProcessExitsAndCharge
<1>3. wallet'[<<u, a>>] = wallet[<<u, a>>] + TotalTo(p, u, a)
  BY <1>2
<1>4. wallet[<<u, a>>] \in Nat
  BY <1>0 DEF TypeOK
<1> QED
  BY <1>1, <1>3, <1>4

LEMMA QuietWealth ==
  ASSUME UNCHANGED <<pendingShields, leaves, nullifierUsed, wallet>>, NEW u, NEW a
  PROVE  Wealth(u, a)' = Wealth(u, a)
BY DEF Wealth, Live, Spendable, Landed

LEMMA WealthStep ==
  ASSUME Books, [Next]_vars, NEW u \in Users, NEW a \in Assets,
         Wealth(u, a)' < Wealth(u, a)
  PROVE  \E n \in nullifierUsed' \ nullifierUsed : n.owner = u /\ n.asset = a
<1>0. Books'
  BY NextBooks
<1>t. Wealth(u, a)' # Wealth(u, a)
  <2>1. Wealth(u, a) \in Nat
    <3>1. Wealth(u, a) = wallet[<<u, a>>] + QueueWorth(WorthTo(u, a))
                           + NotesWorth(WorthTo(u, a))
      BY WealthIsWorth
    <3>2. /\ wallet[<<u, a>>] \in Nat
          /\ QueueWorth(WorthTo(u, a)) \in Nat /\ NotesWorth(WorthTo(u, a)) \in Nat
      BY WealthType
    <3> QED
      BY <3>1, <3>2
  <2> QED
    BY <2>1
<1>1. CASE Environment \/ Admin
  <2>1. UNCHANGED <<pendingShields, leaves, nullifierUsed, wallet>>
    BY <1>1
    DEF Admin, Environment, Tick, PriceMoves, AddSupportedAsset,
        DisableSupportedAsset, SetDefaultMonthlyCap, SetAddressMonthlyCap,
        SetFastTrackAllowed, SetShieldWaitTime, WeAreFull, WeFoundRoom,
        SetDepositsHalted, queue, tree, funds
  <2> QED
    BY <1>t, <2>1, QuietWealth
<1>2. CASE Queueing
  BY <1>0, <1>2, <1>t, ShieldLeavesWealth, LandLeavesWealth, RefundLeavesWealth
  DEF Queueing, ExecuteShield, ExecuteShieldImmediate, CancelShield, ContestShield
<1>3. CASE Spending
  <2>1. CASE \E v \in Users, circuit \in Circuits :
               \E ins \in SUBSET Spendable(v) \ {{}},
                  outs \in OutsOf(circuit), exits \in ExitsOf(circuit) :
               Prove(v, circuit, ins, outs, exits)
    <3>1. UNCHANGED <<pendingShields, leaves, nullifierUsed, wallet>>
      BY <2>1 DEF Prove, queue, tree, funds
    <3> QED
      BY <1>t, <3>1, QuietWealth
  <2>2. wallet[<<u, a>>] \in Nat
    BY WealthType
  <2>3. CASE \E p \in proved : Transfer(p)
    <3>1. PICK p \in proved : Transfer(p)
      BY <2>3
    <3>2. wallet' = wallet /\ BurnInsertCheck(p) /\ UNCHANGED <<queue, client>>
      BY <3>1 DEF Transfer, funds
    <3>3. wallet'[<<u, a>>] >= wallet[<<u, a>>]
      BY <2>2, <3>2
    <3> QED
      BY <1>0, <3>2, <3>3, SpendTakes
  <2>4. CASE \E p \in proved, sender \in Users :
                Unshield(p, sender) \/ UnshieldBundled(p, sender)
    <3>1. PICK p \in proved, sender \in Users :
             /\ BurnInsertCheck(p) /\ ProcessExitsAndCharge(p, sender)
             /\ UNCHANGED <<queue, client>>
      BY <2>4 DEF Unshield, UnshieldBundled
    <3>2. wallet'[<<u, a>>] >= wallet[<<u, a>>]
      BY <3>1, ExitsPay
    <3> QED
      BY <1>0, <3>1, <3>2, SpendTakes
  <2>5. CASE \E p \in proved, got \in Fills : PrivateSwap(p, got)
    <3>1. PICK p \in proved, got \in Fills : PrivateSwap(p, got)
      BY <2>5
    <3>2. wallet' = wallet /\ BurnInsertCheck(p) /\ UNCHANGED <<queue, client>>
      BY <3>1 DEF PrivateSwap
    <3>3. wallet'[<<u, a>>] >= wallet[<<u, a>>]
      BY <2>2, <3>2
    <3> QED
      BY <1>0, <3>2, <3>3, SpendTakes
  <2> QED
    BY <1>3, <2>1, <2>3, <2>4, <2>5 DEF Spending
<1>4. CASE UNCHANGED vars
  BY <1>4, <1>t, QuietWealth DEF vars, queue, tree, funds
<1> QED
  BY <1>1, <1>2, <1>3, <1>4 DEF Next

\* Shields, landings, cancels, contests, every admin knob and other people's
\* spends leave what a user owns alone: to get poorer in an asset a user must
\* have had a note of that asset burnt.
THEOREM SpenderPays == Spec => OnlyTheSpenderPays
<1>1. Books /\ [Next]_vars =>
        \A u \in Users, a \in Assets :
          Wealth(u, a)' < Wealth(u, a) =>
            \E n \in nullifierUsed' \ nullifierUsed : n.owner = u /\ n.asset = a
  BY WealthStep
<1> QED
  BY <1>1, BooksInvariant, PTL DEF Spec, OnlyTheSpenderPays

-----------------------------------------------------------------------------
(* The monthly budget *)

LEMMA MonthKeyGrows ==
  ASSUME NEW t \in Nat
  PROVE  MonthKey(t) <= MonthKey(t + 1)
<1> DEFINE q == t \div MonthLength
           r == (t + 1) \div MonthLength
<1>0. PICK m \in Nat : m = MonthLength /\ m > 0
  BY PampaloAssumption
<1>1. q \in Nat /\ r \in Nat /\ m * q <= t /\ t + 1 < m * (r + 1)
  BY <1>0
<1> HIDE DEF q, r
<1>2. q <= r
  <2> SUFFICES ASSUME r + 1 <= q PROVE FALSE
    BY <1>1
  <2>1. m * (r + 1) <= m * q
    BY <1>0, <1>1
  <2>2. m * q \in Nat /\ m * (r + 1) \in Nat
    BY <1>0, <1>1
  <2> QED
    BY <1>1, <2>1, <2>2
<1> QED
  BY <1>1, <1>2 DEF MonthKey, q, r

\* An entry is charged what its id was, and is refunded to whoever queued it.
EntriesCharged ==
  \A id \in DOMAIN pendingShields :
     /\ pendingShields[id].shielder = queuedAs[id].shielder
     /\ pendingShields[id].usdCentsCharged = queuedAs[id].cents

\* No bucket is of a month to come.
BucketsPast == \A u \in Users : shieldUsage[u].monthKey <= MonthKey(now)

Budget == Inv /\ EntriesCharged /\ BucketsPast /\ BudgetNotOvercounted

LEMMA BudgetTypes ==
  ASSUME TypeOK
  PROVE  /\ MonthKey(now) \in Nat
         /\ \A u \in Users : /\ shieldUsage[u] \in MonthlyVolume
                             /\ UsedIn(shieldUsage[u], MonthKey(now)) \in Nat
                             /\ IsFiniteSet(ShieldedThisMonth(u))
                             /\ ShieldedThisMonth(u) \subseteq Ids
                             /\ CentsShieldedThisMonth(u) \in Nat
         /\ \A id \in Ids : queuedAs[id] \in QueuedAs /\ queuedAs[id].cents \in Nat
<1>1. MonthKey(now) \in Nat
  BY MonthKeyType DEF TypeOK
<1>2. \A id \in Ids : queuedAs[id] \in QueuedAs /\ queuedAs[id].cents \in Nat
  BY DEF TypeOK, Ids, QueuedAs
<1>3. IsFiniteSet(Ids)
  <2>1. Ids = 0 .. nextPendingId - 1 /\ 0 \in Int /\ nextPendingId - 1 \in Int
    BY IdsType DEF TypeOK
  <2> QED
    BY <2>1, FS_Interval
<1>4. ASSUME NEW u \in Users
      PROVE  /\ shieldUsage[u] \in MonthlyVolume
             /\ UsedIn(shieldUsage[u], MonthKey(now)) \in Nat
             /\ IsFiniteSet(ShieldedThisMonth(u))
             /\ ShieldedThisMonth(u) \subseteq Ids
             /\ CentsShieldedThisMonth(u) \in Nat
  <2> DEFINE S == ShieldedThisMonth(u)
             f == [id \in S |-> queuedAs[id].cents]
  <2>1. shieldUsage[u] \in MonthlyVolume
    BY DEF TypeOK
  <2>2. UsedIn(shieldUsage[u], MonthKey(now)) \in Nat
    BY <2>1 DEF UsedIn, MonthlyVolume
  <2>3. S \subseteq Ids
    BY DEF ShieldedThisMonth
  <2>4. IsFiniteSet(S)
    BY <1>3, <2>3, FS_Subset
  <2>5. DOMAIN f = S /\ \A id \in S : f[id] \in Nat
    BY <1>2, <2>3
  <2>6. CentsShieldedThisMonth(u) = SumFunctionOnSet(f, DOMAIN f)
    BY DEF CentsShieldedThisMonth, SumFunction
  <2> HIDE DEF f, S
  <2>7. SumFunctionOnSet(f, DOMAIN f) \in Nat
    BY <2>4, <2>5, SumNat
  <2> QED
    BY <2>1, <2>2, <2>3, <2>4, <2>6, <2>7 DEF S
<1> QED
  BY <1>1, <1>2, <1>4

LEMMA InitBudget == Init => Budget
<1> SUFFICES ASSUME Init PROVE Budget
  OBVIOUS
<1>1. Inv /\ TypeOK /\ DOMAIN pendingShields = {}
  BY InitInv, InitTypeOK, EmptyFunction DEF Init
<1>2. \A u \in Users : shieldUsage[u].monthKey = 0 /\ shieldUsage[u].usdCentsUsed = 0
  BY DEF Init, NoVolume
<1>3. BucketsPast
  BY <1>1, <1>2, BudgetTypes DEF BucketsPast
<1>4. BudgetNotOvercounted
  <2> SUFFICES ASSUME NEW u \in Users
               PROVE  UsedIn(shieldUsage[u], MonthKey(now)) <= CentsShieldedThisMonth(u)
    BY DEF BudgetNotOvercounted
  <2>1. UsedIn(shieldUsage[u], MonthKey(now)) = 0
    BY <1>2 DEF UsedIn
  <2>2. CentsShieldedThisMonth(u) \in Nat
    BY <1>1, BudgetTypes
  <2> QED
    BY <2>1, <2>2
<1> QED
  BY <1>1, <1>3, <1>4 DEF Budget, EntriesCharged

LEMMA QuietBudget ==
  ASSUME Budget, Inv', UNCHANGED <<now, shieldUsage, pendingShields, queuedAs>>
  PROVE  Budget'
BY DEF Budget, EntriesCharged, BucketsPast, BudgetNotOvercounted,
       CentsShieldedThisMonth, ShieldedThisMonth, Ids, Live

LEMMA BudgetTypesNext ==
  TypeOK' => \A u \in Users : (CentsShieldedThisMonth(u) \in Nat)'
<1>1. TypeOK => \A u \in Users : CentsShieldedThisMonth(u) \in Nat
  BY BudgetTypes
<1>2. (TypeOK => \A u \in Users : CentsShieldedThisMonth(u) \in Nat)'
  BY <1>1, PTL
<1> QED
  BY <1>2

LEMMA TickBudget ==
  ASSUME Budget, Inv', Tick
  PROVE  Budget'
<1>0. TypeOK /\ TypeOK'
  BY DEF Budget, Inv
<1>1. now' = now + 1 /\ UNCHANGED <<shieldUsage, pendingShields, queuedAs>>
  BY DEF Tick, usage, queue
<1>2. MonthKey(now) <= MonthKey(now') /\ MonthKey(now) \in Nat /\ MonthKey(now') \in Nat
  BY <1>0, <1>1, MonthKeyGrows, MonthKeyType DEF TypeOK
<1>3. EntriesCharged'
  BY <1>1 DEF Budget, EntriesCharged
<1>4. \A u \in Users : shieldUsage[u].monthKey \in Nat /\ shieldUsage[u].monthKey <= MonthKey(now)
  BY <1>0 DEF Budget, BucketsPast, TypeOK, MonthlyVolume
<1>5. BucketsPast'
  BY <1>1, <1>2, <1>4 DEF BucketsPast
<1>6. CASE MonthKey(now') = MonthKey(now)
  <2>1. \A u : ShieldedThisMonth(u)' = ShieldedThisMonth(u)
    BY <1>1, <1>6 DEF ShieldedThisMonth, Ids, Live
  <2>2. \A u : CentsShieldedThisMonth(u)' = CentsShieldedThisMonth(u)
    BY <1>1, <2>1 DEF CentsShieldedThisMonth
  <2>3. BudgetNotOvercounted'
    BY <1>1, <1>6, <2>2 DEF Budget, BudgetNotOvercounted
  <2> QED
    BY <1>3, <1>5, <2>3 DEF Budget
<1>7. CASE MonthKey(now') # MonthKey(now)
  <2>1. \A u \in Users : UsedIn(shieldUsage'[u], MonthKey(now')) = 0
    BY <1>1, <1>2, <1>4, <1>7 DEF UsedIn
  <2>2. \A u \in Users : (CentsShieldedThisMonth(u) \in Nat)'
    BY <1>0, BudgetTypesNext
  <2>3. ASSUME NEW u \in Users
        PROVE  UsedIn(shieldUsage'[u], MonthKey(now')) <= CentsShieldedThisMonth(u)'
    BY <2>1, <2>2
  <2>4. BudgetNotOvercounted'
    BY <2>3 DEF BudgetNotOvercounted
  <2> QED
    BY <1>3, <1>5, <2>4 DEF Budget
<1> QED
  BY <1>6, <1>7

LEMMA ShieldCharges ==
  ASSUME TypeOK, NEW u \in Users, NEW a \in Assets, NEW amount \in Amounts,
         Shield(u, a, amount)
  PROVE  \E new \in Nat, cents \in Nat :
           /\ Ids' = Ids \cup {new} /\ new \notin Ids
           /\ queuedAs'[new].shielder = u /\ queuedAs'[new].at = now
           /\ queuedAs'[new].cents = cents
           /\ \A id \in Ids : queuedAs'[id] = queuedAs[id]
           /\ DOMAIN pendingShields' = DOMAIN pendingShields \cup {new}
           /\ pendingShields'[new].shielder = u
           /\ pendingShields'[new].usdCentsCharged = cents
           /\ ~pendingShields'[new].cancelled
           /\ \A id \in DOMAIN pendingShields : pendingShields'[id] = pendingShields[id]
           /\ shieldUsage' = [shieldUsage EXCEPT ![u] =
                                Bumped(shieldUsage[u], MonthKey(now), cents)]
           /\ now' = now
<1> DEFINE note  == [owner |-> u, asset |-> a, amount |-> amount,
                     secret |-> nextSecret]
           entry == [shielder |-> u, asset |-> a, amount |-> amount,
                     leafCommitment |-> note, unlockTime |-> UnlockTime(u),
                     usdCentsCharged |-> PriceUsdCents(a, amount),
                     cancelled |-> FALSE]
           was   == [shielder |-> u, note |-> note, at |-> now,
                     cents |-> PriceUsdCents(a, amount),
                     vouched |-> fastTrackAllowedMonth[u] = MonthKey(now)]
<1>0. PICK new \in Nat : new = nextPendingId
  BY IdsType
<1>1. /\ pendingShields' = [i \in DOMAIN pendingShields \cup {new} |->
                              IF i = new THEN entry ELSE pendingShields[i]]
      /\ queuedAs' = [i \in 0 .. new |-> IF i = new THEN was ELSE queuedAs[i]]
  BY <1>0 DEF Shield
<1>2. PICK cents \in Nat : cents = PriceUsdCents(a, amount)
  BY CentsType, PampaloAssumption
<1>3. /\ shieldUsage' = [shieldUsage EXCEPT ![u] =
                           Bumped(shieldUsage[u], MonthKey(now), cents)]
      /\ now' = now
  BY <1>2 DEF Shield
<1>4. /\ entry.shielder = u /\ entry.usdCentsCharged = cents /\ ~entry.cancelled
      /\ was.shielder = u /\ was.at = now /\ was.cents = cents
  BY <1>2
<1>5. /\ Ids = 0 .. new - 1 /\ new \notin Ids /\ DOMAIN pendingShields \subseteq Ids
  BY <1>0, IdsType
<1> HIDE DEF entry, was, note
<1>6. Ids' = Ids \cup {new} /\ queuedAs'[new] = was
      /\ \A id \in Ids : queuedAs'[id] = queuedAs[id]
  BY <1>1, <1>5 DEF Ids
<1>7. /\ DOMAIN pendingShields' = DOMAIN pendingShields \cup {new}
      /\ pendingShields'[new] = entry
      /\ \A id \in DOMAIN pendingShields : pendingShields'[id] = pendingShields[id]
  BY <1>1, <1>5
<1> QED
  BY <1>3, <1>4, <1>5, <1>6, <1>7

LEMMA ShieldBudget ==
  ASSUME Budget, Inv', NEW v \in Users, NEW a \in Assets, NEW amount \in Amounts,
         Shield(v, a, amount)
  PROVE  Budget'
<1>0. TypeOK /\ TypeOK'
  BY DEF Budget, Inv
<1>1. PICK new \in Nat, cents \in Nat :
           /\ Ids' = Ids \cup {new} /\ new \notin Ids
           /\ queuedAs'[new].shielder = v /\ queuedAs'[new].at = now
           /\ queuedAs'[new].cents = cents
           /\ \A id \in Ids : queuedAs'[id] = queuedAs[id]
           /\ DOMAIN pendingShields' = DOMAIN pendingShields \cup {new}
           /\ pendingShields'[new].shielder = v
           /\ pendingShields'[new].usdCentsCharged = cents
           /\ ~pendingShields'[new].cancelled
           /\ \A id \in DOMAIN pendingShields : pendingShields'[id] = pendingShields[id]
           /\ shieldUsage' = [shieldUsage EXCEPT ![v] =
                                Bumped(shieldUsage[v], MonthKey(now), cents)]
           /\ now' = now
  BY <1>0, ShieldCharges
<1>2. DOMAIN pendingShields \subseteq Ids
  BY <1>0, IdsType
<1>3. EntriesCharged'
  BY <1>1, <1>2 DEF Budget, EntriesCharged
<1>4. MonthKey(now') = MonthKey(now) /\ MonthKey(now) \in Nat
      /\ shieldUsage \in [Users -> MonthlyVolume]
  BY <1>0, <1>1, BudgetTypes DEF TypeOK
<1>5. \A u \in Users :
         /\ u # v => shieldUsage'[u] = shieldUsage[u]
         /\ u = v => /\ shieldUsage'[u].monthKey = MonthKey(now)
                     /\ shieldUsage'[u].usdCentsUsed
                          = UsedIn(shieldUsage[u], MonthKey(now)) + cents
  BY <1>1, <1>4 DEF Bumped
<1>6. BucketsPast'
  BY <1>4, <1>5 DEF Budget, BucketsPast
<1>7. ASSUME NEW u \in Users
      PROVE  UsedIn(shieldUsage'[u], MonthKey(now')) <= CentsShieldedThisMonth(u)'
  <2> DEFINE S == ShieldedThisMonth(u)
             f == [id \in S |-> queuedAs[id].cents]
             T == ShieldedThisMonth(u)'
             g == [id \in T |-> queuedAs'[id].cents]
  <2>1. /\ CentsShieldedThisMonth(u) = SumFunctionOnSet(f, S)
        /\ CentsShieldedThisMonth(u)' = SumFunctionOnSet(g, T)
    BY DEF CentsShieldedThisMonth, SumFunction
  <2>2. /\ IsFiniteSet(S) /\ S \subseteq Ids
        /\ UsedIn(shieldUsage[u], MonthKey(now)) \in Nat
        /\ CentsShieldedThisMonth(u) \in Nat
        /\ \A id \in Ids : queuedAs[id].cents \in Nat
    BY <1>0, BudgetTypes
  <2>3. UsedIn(shieldUsage[u], MonthKey(now)) <= CentsShieldedThisMonth(u)
    BY DEF Budget, BudgetNotOvercounted
  <2>4. T = IF u = v THEN S \cup {new} ELSE S
    <3>1. \A id \in Ids : id \in T <=> id \in S
      BY <1>1, <1>2, <1>4 DEF ShieldedThisMonth, Live
    <3>2. new \in T <=> u = v
      BY <1>1, <1>2, <1>4 DEF ShieldedThisMonth, Live
    <3>3. T \subseteq Ids \cup {new} /\ S \subseteq Ids
      BY <1>1 DEF ShieldedThisMonth
    <3> QED
      BY <1>1, <3>1, <3>2, <3>3
  <2>5. /\ \A id \in S : f[id] = g[id] /\ f[id] \in Nat
        /\ u = v => g[new] = cents
    BY <1>1, <2>2, <2>4
  <2> HIDE DEF S, T, f, g
  <2>6. SumFunctionOnSet(f, S) = SumFunctionOnSet(g, S)
    BY <2>2, <2>5, SumEqual
  <2>7. CASE u = v
    <3>1. new \notin S /\ T = S \cup {new} /\ \A id \in S \cup {new} : g[id] \in Int
      BY <1>1, <2>2, <2>4, <2>5, <2>7
    <3>2. SumFunctionOnSet(g, S \cup {new}) = g[new] + SumFunctionOnSet(g, S)
      BY <2>2, <3>1, SumAdd
    <3>3. CentsShieldedThisMonth(u)' = cents + CentsShieldedThisMonth(u)
      BY <2>1, <2>5, <2>6, <2>7, <3>1, <3>2
    <3>4. UsedIn(shieldUsage'[u], MonthKey(now'))
            = UsedIn(shieldUsage[u], MonthKey(now)) + cents
      BY <1>4, <1>5, <2>7 DEF UsedIn
    <3> QED
      BY <2>2, <2>3, <3>3, <3>4
  <2>8. CASE u # v
    <3>1. CentsShieldedThisMonth(u)' = CentsShieldedThisMonth(u)
      BY <2>1, <2>4, <2>6, <2>8
    <3>2. shieldUsage'[u] = shieldUsage[u]
      BY <1>5, <2>8
    <3> QED
      BY <1>4, <2>3, <3>1, <3>2
  <2> QED
    BY <2>7, <2>8
<1>8. BudgetNotOvercounted'
  BY <1>7 DEF BudgetNotOvercounted
<1> QED
  BY <1>3, <1>6, <1>8 DEF Budget

LEMMA LandBudget ==
  ASSUME Budget, Inv', NEW jd, Land(jd)
  PROVE  Budget'
<1>1. /\ jd \in DOMAIN pendingShields /\ ~pendingShields[jd].cancelled
      /\ DOMAIN pendingShields' = DOMAIN pendingShields \ {jd}
      /\ \A id \in DOMAIN pendingShields \ {jd} :
            pendingShields'[id] = pendingShields[id]
      /\ queuedAs' = queuedAs
  BY LandEffect DEF Budget
<1>2. now' = now /\ shieldUsage' = shieldUsage
  BY DEF Land, usage
<1>3. EntriesCharged' /\ BucketsPast'
  BY <1>1, <1>2 DEF Budget, EntriesCharged, BucketsPast
<1>4. \A id : (id \in DOMAIN pendingShields => Live(id))'
                = (id \in DOMAIN pendingShields => Live(id))
  BY <1>1 DEF Live
<1>5. \A u : ShieldedThisMonth(u)' = ShieldedThisMonth(u)
  BY <1>1, <1>2, <1>4 DEF ShieldedThisMonth, Ids
<1>6. \A u : CentsShieldedThisMonth(u)' = CentsShieldedThisMonth(u)
  BY <1>1, <1>5 DEF CentsShieldedThisMonth
<1>7. BudgetNotOvercounted'
  BY <1>2, <1>6 DEF Budget, BudgetNotOvercounted
<1> QED
  BY <1>3, <1>7 DEF Budget

LEMMA RefundedUse ==
  ASSUME NEW vol \in MonthlyVolume, NEW mk \in Nat, NEW cents \in Nat
  PROVE  /\ Refunded(vol, mk, cents).monthKey = vol.monthKey
         /\ UsedIn(Refunded(vol, mk, cents), mk)
              = IF UsedIn(vol, mk) <= cents THEN 0 ELSE UsedIn(vol, mk) - cents
<1>1. vol.monthKey \in Nat /\ vol.usdCentsUsed \in Nat
  BY DEF MonthlyVolume
<1>2. CASE cents = 0 \/ vol.monthKey # mk
  BY <1>1, <1>2 DEF Refunded, UsedIn
<1>3. CASE cents # 0 /\ vol.monthKey = mk
  <2>1. Refunded(vol, mk, cents) =
          [vol EXCEPT !.usdCentsUsed =
             IF vol.usdCentsUsed <= cents THEN 0 ELSE vol.usdCentsUsed - cents]
    BY <1>3 DEF Refunded
  <2>2. /\ Refunded(vol, mk, cents).monthKey = vol.monthKey
        /\ Refunded(vol, mk, cents).usdCentsUsed =
             IF vol.usdCentsUsed <= cents THEN 0 ELSE vol.usdCentsUsed - cents
    BY <2>1 DEF MonthlyVolume
  <2> QED
    BY <1>3, <2>2 DEF UsedIn
<1> QED
  BY <1>2, <1>3

LEMMA RefundBudget ==
  ASSUME Budget, Inv', NEW jd, Refund(jd)
  PROVE  Budget'
<1> DEFINE v == queuedAs[jd].shielder
           c == queuedAs[jd].cents
<1>0. TypeOK
  BY DEF Budget, Inv
<1>1. /\ jd \in DOMAIN pendingShields /\ ~pendingShields[jd].cancelled
      /\ DOMAIN pendingShields' = DOMAIN pendingShields
      /\ \A id \in DOMAIN pendingShields :
            pendingShields'[id].cancelled = (id = jd \/ pendingShields[id].cancelled)
      /\ queuedAs' = queuedAs
  BY <1>0, RefundEffect
<1>2. jd \in Ids /\ v \in Users /\ c \in Nat /\ MonthKey(now) \in Nat
      /\ shieldUsage \in [Users -> MonthlyVolume]
  BY <1>0, <1>1, IdsType, BudgetTypes DEF QueuedAs, TypeOK
<1>3. /\ now' = now
      /\ shieldUsage' = [shieldUsage EXCEPT ![v] =
                           Refunded(shieldUsage[v], MonthKey(now), c)]
  BY <1>1 DEF Refund, Budget, EntriesCharged
<1>4. EntriesCharged'
  BY <1>0, <1>1, RefundKeeps DEF Budget, EntriesCharged
<1> HIDE DEF v, c
<1>5. ASSUME NEW u \in Users
      PROVE  /\ u # v => shieldUsage'[u] = shieldUsage[u]
             /\ u = v => shieldUsage'[u] = Refunded(shieldUsage[u], MonthKey(now), c)
  BY <1>2, <1>3
<1>6. \A u \in Users : shieldUsage'[u].monthKey = shieldUsage[u].monthKey
  BY <1>2, <1>5, RefundedUse
<1>7. BucketsPast'
  BY <1>3, <1>6 DEF Budget, BucketsPast
<1>8. ASSUME NEW u \in Users
      PROVE  UsedIn(shieldUsage'[u], MonthKey(now')) <= CentsShieldedThisMonth(u)'
  <2> DEFINE S == ShieldedThisMonth(u)
             f == [id \in S |-> queuedAs[id].cents]
             T == ShieldedThisMonth(u)'
             g == [id \in T |-> queuedAs'[id].cents]
             before == UsedIn(shieldUsage[u], MonthKey(now))
  <2>1. /\ CentsShieldedThisMonth(u) = SumFunctionOnSet(f, S)
        /\ CentsShieldedThisMonth(u)' = SumFunctionOnSet(g, T)
    BY DEF CentsShieldedThisMonth, SumFunction
  <2>2. /\ IsFiniteSet(S) /\ S \subseteq Ids
        /\ before \in Nat
        /\ CentsShieldedThisMonth(u) \in Nat
        /\ \A id \in Ids : queuedAs[id].cents \in Nat
    BY <1>0, BudgetTypes
  <2>3. before <= CentsShieldedThisMonth(u)
    BY DEF Budget, BudgetNotOvercounted
  <2>4. T = S \ {jd} /\ (jd \in S => u = v)
    BY <1>1, <1>3 DEF ShieldedThisMonth, Live, Ids, v
  <2>5. /\ \A id \in T : f[id] = g[id]
        /\ \A id \in S : f[id] \in Nat
        /\ jd \in S => f[jd] = c
    BY <1>1, <2>2, <2>4 DEF c
  <2> HIDE DEF S, T, f, g
  <2>6. SumFunctionOnSet(f, T) = SumFunctionOnSet(g, T)
        /\ SumFunctionOnSet(f, T) \in Nat
    <3>1. IsFiniteSet(T) /\ \A id \in T : f[id] \in Nat
      BY <2>2, <2>4, <2>5, FS_Subset
    <3> QED
      BY <2>5, <3>1, SumEqual, SumNat
  <2>7. CASE u # v
    <3>1. T = S /\ shieldUsage'[u] = shieldUsage[u]
      BY <1>5, <2>4, <2>7
    <3> QED
      BY <1>3, <2>1, <2>3, <2>6, <3>1
  <2>8. CASE u = v
    <3>1. UsedIn(shieldUsage'[u], MonthKey(now)) = IF before <= c THEN 0 ELSE before - c
      BY <1>2, <1>5, <2>8, RefundedUse
    <3>2. CASE jd \in S
      <4>1. SumFunctionOnSet(f, S) = c + SumFunctionOnSet(f, T)
        BY <2>2, <2>4, <2>5, <3>2, SumRemove
      <4> HIDE DEF before
      <4> QED
        BY <1>2, <1>3, <2>1, <2>2, <2>3, <2>6, <3>1, <4>1
    <3>3. CASE jd \notin S
      <4>1. T = S
        BY <2>4, <3>3
      <4> HIDE DEF before
      <4> QED
        BY <1>2, <1>3, <2>1, <2>2, <2>3, <2>6, <3>1, <4>1
    <3> QED
      BY <3>2, <3>3
  <2> QED
    BY <2>7, <2>8
<1>9. BudgetNotOvercounted'
  BY <1>8 DEF BudgetNotOvercounted
<1> QED
  BY <1>4, <1>7, <1>9 DEF Budget

LEMMA NextBudget == Budget /\ [Next]_vars => Budget'
<1> SUFFICES ASSUME Budget, [Next]_vars PROVE Budget'
  OBVIOUS
<1>0. Inv'
  BY NextInv DEF Budget
<1>1. CASE Environment
  <2>1. CASE Tick
    BY <1>0, <2>1, TickBudget
  <2>2. CASE \E a \in Assets, p \in Prices : PriceMoves(a, p)
    BY <1>0, <2>2, QuietBudget DEF PriceMoves, usage, queue
  <2> QED
    BY <1>1, <2>1, <2>2 DEF Environment
<1>2. CASE Admin
  <2>1. UNCHANGED <<now, shieldUsage, pendingShields, queuedAs>>
    BY <1>2
    DEF Admin, AddSupportedAsset, DisableSupportedAsset, SetDefaultMonthlyCap,
        SetAddressMonthlyCap, SetFastTrackAllowed, SetShieldWaitTime, WeAreFull,
        WeFoundRoom, SetDepositsHalted, queue, usage
  <2> QED
    BY <1>0, <2>1, QuietBudget
<1>3. CASE Queueing
  BY <1>0, <1>3, ShieldBudget, LandBudget, RefundBudget
  DEF Queueing, ExecuteShield, ExecuteShieldImmediate, CancelShield, ContestShield
<1>4. CASE Spending
  <2>1. UNCHANGED <<now, shieldUsage, pendingShields, queuedAs>>
    BY <1>4
    DEF Spending, Prove, Transfer, Unshield, UnshieldBundled, PrivateSwap,
        queue, usage
  <2> QED
    BY <1>0, <2>1, QuietBudget
<1>5. CASE UNCHANGED vars
  BY <1>0, <1>5, QuietBudget DEF vars, usage, queue
<1> QED
  BY <1>1, <1>2, <1>3, <1>4, <1>5 DEF Next

\* A cancel or a contest in the month of the shield gives its budget back, and
\* nothing else is ever counted: the bucket of the current month holds no more
\* cents than the shields queued this month that stand.
THEOREM BudgetIsEarned == Spec => []BudgetNotOvercounted
<1>1. Init => Budget
  BY InitBudget
<1>2. Budget /\ [Next]_vars => Budget'
  BY NextBudget
<1>3. Budget => BudgetNotOvercounted
  BY DEF Budget
<1> QED
  BY <1>1, <1>2, <1>3, PTL DEF Spec

-----------------------------------------------------------------------------
(* What leaves is charged *)

LEMMA DivCarry ==
  ASSUME NEW m \in Nat, NEW n \in Nat, NEW s \in Nat \ {0}
  PROVE  /\ m \div s \in Nat /\ n \div s \in Nat
         /\ m \div s + n \div s <= (m + n) \div s
         /\ (m + n) \div s <= m \div s + n \div s + (IF n = 0 THEN 0 ELSE 1)
<1> DEFINE p == m \div s
           q == n \div s
           r == (m + n) \div s
<1>1. /\ p \in Nat /\ s * p <= m /\ m < s * (p + 1)
      /\ q \in Nat /\ s * q <= n /\ n < s * (q + 1)
      /\ r \in Nat /\ s * r <= m + n /\ m + n < s * (r + 1)
  OBVIOUS
<1>0. n = 0 => q = 0 /\ r = p
  OBVIOUS
<1> HIDE DEF p, q, r
<1>2. /\ s * p \in Nat /\ s * q \in Nat /\ s * r \in Nat
      /\ s * (p + 1) = s * p + s /\ s * (q + 1) = s * q + s /\ s * (r + 1) = s * r + s
      /\ s * (p + q) = s * p + s * q
  BY <1>1
<1>3. p + q <= r
  <2> SUFFICES ASSUME r + 1 <= p + q PROVE FALSE
    BY <1>1
  <2>1. s * (r + 1) <= s * (p + q)
    BY <1>1
  <2> QED
    BY <1>1, <1>2, <2>1
<1>4. r <= p + q + 1
  <2> SUFFICES ASSUME p + q + 2 <= r PROVE FALSE
    BY <1>1
  <2>1. s * (p + q + 2) <= s * r
    BY <1>1
  <2>2. s * (p + q + 2) = s * p + s * q + s + s
    BY <1>1
  <2> QED
    BY <1>1, <1>2, <2>1, <2>2
<1> QED
  BY <1>0, <1>1, <1>3, <1>4 DEF p, q, r

\* What slot i takes of asset a, in cents, and whether it takes any.
SlotCents(p, i) ==
  [a \in Assets |->
     IF i \in DOMAIN p.exits /\ p.exits[i].asset = a THEN ExitCents(p, i) ELSE 0]
SlotTakes(p, i) ==
  [a \in Assets |->
     IF i \in DOMAIN p.exits /\ p.exits[i].asset = a THEN 1 ELSE 0]

LEMMA SlotSums ==
  ASSUME TypeOK, IsFiniteSet(Assets), NEW p \in proved, NEW i
  PROVE  /\ \A a \in Assets : SlotCents(p, i)[a] \in Nat /\ SlotTakes(p, i)[a] \in Nat
         /\ SumFunctionOnSet(SlotCents(p, i), Assets) = ExitCents(p, i)
         /\ SumFunctionOnSet(SlotTakes(p, i), Assets)
              = (IF i \in DOMAIN p.exits THEN 1 ELSE 0)
<1>1. ExitCents(p, i) \in Nat
  BY ExitAmountType
<1>2. \A a \in Assets : SlotCents(p, i)[a] \in Nat /\ SlotTakes(p, i)[a] \in Nat
  BY <1>1 DEF SlotCents, SlotTakes
<1>3. CASE i \in DOMAIN p.exits
  <2> DEFINE A == p.exits[i].asset
  <2>1. A \in Assets
    <3>1. p.exits \in Seq(Exit)
      BY DEF TypeOK, Spend
    <3>2. p.exits[i] \in Exit
      BY <1>3, <3>1, ElementType
    <3> QED
      BY <3>2 DEF Exit
  <2>2. /\ SlotCents(p, i)[A] = ExitCents(p, i) /\ SlotTakes(p, i)[A] = 1
        /\ \A a \in Assets \ {A} : SlotCents(p, i)[a] = 0 /\ SlotTakes(p, i)[a] = 0
    BY <1>3, <2>1 DEF SlotCents, SlotTakes
  <2> HIDE DEF A
  <2> QED
    BY <1>1, <1>3, <2>1, <2>2, SumSingle
<1>4. CASE i \notin DOMAIN p.exits
  <2>1. \A a \in Assets : SlotCents(p, i)[a] = 0 /\ SlotTakes(p, i)[a] = 0
    BY <1>4 DEF SlotCents, SlotTakes
  <2>2. ExitCents(p, i) = 0
    BY <1>4 DEF ExitCents, Paid
  <2> QED
    BY <1>4, <2>1, <2>2, SumZero
<1> QED
  BY <1>2, <1>3, <1>4

\* Rounding the slots down one by one loses less than a cent for each slot but
\* the first.
LEMMA WorthOfExits ==
  ASSUME TypeOK, NEW p \in proved, NEW a \in Assets
  PROVE  /\ PriceUsdCents(a, TotalOut(p, a)) \in Nat
         /\ SlotCents(p, 1)[a] + SlotCents(p, 2)[a] + SlotCents(p, 3)[a]
              <= PriceUsdCents(a, TotalOut(p, a))
         /\ PriceUsdCents(a, TotalOut(p, a))
              <= SlotCents(p, 1)[a] + SlotCents(p, 2)[a] + SlotCents(p, 3)[a]
                   + SlotTakes(p, 2)[a] + SlotTakes(p, 3)[a]
<1> DEFINE x(i) == ExitAmount(p, i, a)
<1>0. price[a] \in Nat /\ PriceScale \in Nat \ {0}
  BY PampaloAssumption DEF TypeOK
<1>1. \A i : x(i) \in Nat
  BY ExitAmountType
<1>2. \A i : PriceUsdCents(a, x(i)) = SlotCents(p, i)[a]
  <2> TAKE i
  <2>1. CASE Paid(p, i) /\ p.exits[i].asset = a
    BY <2>1 DEF ExitAmount, SlotCents, ExitCents, Paid
  <2>2. CASE ~(Paid(p, i) /\ p.exits[i].asset = a)
    <3>1. x(i) = 0 /\ SlotCents(p, i)[a] = 0
      BY <2>2 DEF ExitAmount, SlotCents, ExitCents
    <3>2. 0 * price[a] = 0 /\ 0 \div PriceScale = 0
      BY <1>0
    <3> QED
      BY <3>1, <3>2 DEF PriceUsdCents
  <2> QED
    BY <2>1, <2>2
<1>3. \A i : (IF x(i) * price[a] = 0 THEN 0 ELSE 1) <= SlotTakes(p, i)[a]
  <2> TAKE i
  <2>1. CASE i \in DOMAIN p.exits /\ p.exits[i].asset = a
    BY <2>1 DEF SlotTakes
  <2>2. CASE ~(i \in DOMAIN p.exits /\ p.exits[i].asset = a)
    <3>1. x(i) = 0 /\ SlotTakes(p, i)[a] = 0
      BY <2>2 DEF ExitAmount, SlotTakes, Paid
    <3>2. 0 * price[a] = 0
      BY <1>0
    <3> QED
      BY <3>1, <3>2
  <2> QED
    BY <2>1, <2>2
<1>4. TotalOut(p, a) = x(1) + x(2) + x(3)
  BY DEF TotalOut
<1> HIDE DEF x
<1> DEFINE m(i) == x(i) * price[a]
<1>5. \A i : m(i) \in Nat
  BY <1>0, <1>1
<1>6. TotalOut(p, a) * price[a] = m(1) + m(2) + m(3)
  BY <1>0, <1>1, <1>4
<1>7. \A i : m(i) \div PriceScale = SlotCents(p, i)[a]
  BY <1>2 DEF PriceUsdCents
<1>8. \A i : (IF m(i) = 0 THEN 0 ELSE 1) <= SlotTakes(p, i)[a]
  BY <1>3
<1>9. \A i : SlotTakes(p, i)[a] \in Nat
  BY DEF SlotTakes
<1> HIDE DEF m
<1>10. /\ m(1) \div PriceScale \in Nat /\ m(2) \div PriceScale \in Nat
       /\ m(1) \div PriceScale + m(2) \div PriceScale <= (m(1) + m(2)) \div PriceScale
       /\ (m(1) + m(2)) \div PriceScale
            <= m(1) \div PriceScale + m(2) \div PriceScale + (IF m(2) = 0 THEN 0 ELSE 1)
  BY <1>0, <1>5, DivCarry
<1>11. /\ (m(1) + m(2)) \div PriceScale \in Nat /\ m(3) \div PriceScale \in Nat
       /\ (m(1) + m(2)) \div PriceScale + m(3) \div PriceScale
            <= (m(1) + m(2) + m(3)) \div PriceScale
       /\ (m(1) + m(2) + m(3)) \div PriceScale
            <= (m(1) + m(2)) \div PriceScale + m(3) \div PriceScale
                 + (IF m(3) = 0 THEN 0 ELSE 1)
  <2>1. m(1) + m(2) \in Nat
    BY <1>5
  <2> QED
    BY <1>0, <1>5, <2>1, DivCarry
<1>12. PriceUsdCents(a, TotalOut(p, a)) = (m(1) + m(2) + m(3)) \div PriceScale
  BY <1>6 DEF PriceUsdCents
<1>13. (m(1) + m(2) + m(3)) \div PriceScale \in Nat
  <2>1. m(1) + m(2) \in Nat /\ m(1) + m(2) + m(3) \in Nat
    BY <1>5
  <2> QED
    BY <1>0, <1>5, <2>1, DivCarry
<1> QED
  BY <1>7, <1>8, <1>9, <1>10, <1>11, <1>12, <1>13

\* What leaves of each asset, in cents.
Leaving == [a \in Assets |-> PriceUsdCents(a, balance[a] - balance'[a])]

\* The bucket of the caller, and no other, counts the charge.
LEMMA ChargedToBucket ==
  ASSUME TypeOK, NEW p \in proved, NEW sender \in Users,
         ProcessExitsAndCharge(p, sender)
  PROVE  /\ UsedIn(unshieldUsage'[sender], MonthKey(now))
              - UsedIn(unshieldUsage[sender], MonthKey(now)) = TotalCents(p)
         /\ \A u \in Users \ {sender} : unshieldUsage'[u] = unshieldUsage[u]
<1> DEFINE mk == MonthKey(now)
           used == UsedIn(unshieldUsage[sender], mk)
<1>1. /\ unshieldUsage \in [Users -> MonthlyVolume] /\ TotalCents(p) \in Nat
  <2>1. TotalCents(p) \in Nat
    BY ExitAmountType DEF TotalCents
  <2> QED
    BY <2>1 DEF TypeOK
<1>2. used \in Nat
  BY <1>1 DEF UsedIn, MonthlyVolume
<1>3. CASE TotalCents(p) = 0 /\ UNCHANGED unshieldUsage
  <2>1. UsedIn(unshieldUsage'[sender], mk) = used
    BY <1>3
  <2> QED
    BY <1>2, <1>3, <2>1
<1>4. CASE unshieldUsage' = [unshieldUsage EXCEPT
             ![sender] = Bumped(unshieldUsage[sender], mk, TotalCents(p))]
  <2>1. \A u \in Users \ {sender} : unshieldUsage'[u] = unshieldUsage[u]
    BY <1>1, <1>4
  <2>2. UsedIn(unshieldUsage'[sender], mk) = used + TotalCents(p)
    BY <1>1, <1>4 DEF UsedIn, Bumped
  <2> HIDE DEF mk, used
  <2>3. UsedIn(unshieldUsage'[sender], mk) - used = TotalCents(p)
    BY <1>1, <1>2, <2>2
  <2> QED
    BY <2>1, <2>3 DEF mk, used
<1> QED
  BY <1>3, <1>4 DEF ProcessExitsAndCharge

LEMMA ExitsCharged ==
  ASSUME Books, IsFiniteSet(Assets),
         NEW p \in proved, p.circuit \notin {"transfer", "swap"},
         NEW sender \in Users, ProcessExitsAndCharge(p, sender)
  PROVE  /\ TotalCents(p) <= SumFunctionOnSet(Leaving, Assets)
         /\ SumFunctionOnSet(Leaving, Assets) <= TotalCents(p) + MaxExits - 1
<1> DEFINE Sum(f) == SumFunctionOnSet(f, Assets)
           c(i) == SlotCents(p, i)
           d(i) == SlotTakes(p, i)
           worth == Leaving
<1>0. TypeOK
  BY DEF Books, Inv
<1>1. \A a \in Assets : worth[a] = PriceUsdCents(a, TotalOut(p, a))
  <2>1. \A a : TotalOut(p, a) \in Nat
    BY <1>0, ExitAmountType DEF TotalOut
  <2>2. \A a \in Assets : balance[a] \in Nat /\ balance'[a] = balance[a] - TotalOut(p, a)
    BY <1>0 DEF ProcessExitsAndCharge, TypeOK
  <2>3. \A a \in Assets : balance[a] - balance'[a] = TotalOut(p, a)
    BY <2>1, <2>2
  <2> QED
    BY <2>3 DEF Leaving
<1>2. \A i : /\ \A a \in Assets : c(i)[a] \in Nat /\ d(i)[a] \in Nat
             /\ Sum(c(i)) = ExitCents(p, i)
             /\ Sum(d(i)) = (IF i \in DOMAIN p.exits THEN 1 ELSE 0)
  BY <1>0, SlotSums
<1>3. \A a \in Assets : /\ worth[a] \in Nat
                        /\ c(1)[a] + c(2)[a] + c(3)[a] <= worth[a]
                        /\ worth[a] <= c(1)[a] + c(2)[a] + c(3)[a] + d(2)[a] + d(3)[a]
  BY <1>0, <1>1, WorthOfExits
<1>4. \A i : ExitCents(p, i) \in Nat
  BY <1>0, ExitAmountType
<1> HIDE DEF c, d, worth
<1> DEFINE c12 == [a \in Assets |-> c(1)[a] + c(2)[a]]
           low == [a \in Assets |-> c12[a] + c(3)[a]]
           low2 == [a \in Assets |-> low[a] + d(2)[a]]
           high == [a \in Assets |-> low2[a] + d(3)[a]]
<1>5. \A a \in Assets : /\ c(1)[a] \in Int /\ c(2)[a] \in Int /\ c(3)[a] \in Int
                        /\ d(2)[a] \in Int /\ d(3)[a] \in Int /\ worth[a] \in Int
                        /\ c12[a] \in Int /\ c12[a] = c(1)[a] + c(2)[a]
                        /\ low[a] \in Int /\ low[a] = c12[a] + c(3)[a]
                        /\ low2[a] \in Int /\ low2[a] = low[a] + d(2)[a]
                        /\ high[a] \in Int /\ high[a] = low2[a] + d(3)[a]
  BY <1>2, <1>3
<1>6. \A a \in Assets : low[a] <= worth[a] /\ worth[a] <= high[a]
  BY <1>3, <1>5
<1> HIDE DEF c12, low, low2, high
<1>7. Sum(c12) = Sum(c(1)) + Sum(c(2))
  BY <1>5, SumPlus
<1>8. Sum(low) = Sum(c12) + Sum(c(3))
  BY <1>5, SumPlus
<1>9. Sum(low2) = Sum(low) + Sum(d(2))
  BY <1>5, SumPlus
<1>10. Sum(high) = Sum(low2) + Sum(d(3))
  BY <1>5, SumPlus
<1>11. Sum(low) <= Sum(worth)
  BY <1>5, <1>6, SumAtMost
<1>12. Sum(worth) <= Sum(high)
  BY <1>5, <1>6, SumAtMost
<1>13. Sum(worth) \in Int
  BY <1>5, SumInt
<1>14. /\ 1 \in DOMAIN p.exits /\ MaxExits \in 1 .. 3
       /\ 2 \in DOMAIN p.exits => MaxExits >= 2
       /\ 3 \in DOMAIN p.exits => MaxExits = 3
  <2>1. MaxExits \in 0 .. 3
    BY PampaloAssumption
  <2>2. p.exits \in Payments(MaxExits, Users \cup {NoAddress}) /\ p.exits # << >>
    BY DEF Books, SpendsBalanced
  <2>3. PICK k \in 0 .. MaxExits :
           p.exits \in [1 .. k -> [to : Users \cup {NoAddress}, asset : Assets,
                                 amount : Amounts]]
    BY <2>1, <2>2, PaymentsType
  <2>4. k # 0
    <3> SUFFICES ASSUME k = 0 PROVE FALSE
      OBVIOUS
    <3>1. 1 .. 0 = {}
      OBVIOUS
    <3> QED
      BY <2>2, <2>3, <3>1, EmptyFunction
  <2> QED
    BY <2>1, <2>3, <2>4
<1>15. TotalCents(p) = ExitCents(p, 1) + ExitCents(p, 2) + ExitCents(p, 3)
  BY DEF TotalCents
<1>16. Sum(low) = TotalCents(p)
  BY <1>2, <1>4, <1>7, <1>8, <1>15
<1>17. Sum(high) <= TotalCents(p) + MaxExits - 1
  BY <1>2, <1>4, <1>9, <1>10, <1>14, <1>15, <1>16
<1> HIDE DEF Sum
<1>18. TotalCents(p) \in Int /\ Sum(high) \in Int
  BY <1>2, <1>4, <1>9, <1>10, <1>15, <1>16
<1> QED
  BY <1>11, <1>12, <1>13, <1>14, <1>16, <1>17, <1>18 DEF Sum, worth

\* Whoever sends the proof of an exit is charged, in the current month of his own
\* bucket and nowhere else, for all that leaves the contract in the call: not less
\* than it is worth, but for a cent lost to rounding in each slot after the first,
\* and not more (_processExits, _chargeUnshield).
THEOREM ExitsPaid ==
  ASSUME IsFiniteSet(Assets)
  PROVE  Spec => ExitsAreCharged
<1> DEFINE Charged ==
      \A p \in proved, sender \in Users :
        (Unshield(p, sender) \/ UnshieldBundled(p, sender)) =>
          LET worth == SumFunction(
                         [a \in Assets |-> PriceUsdCents(a, balance[a] - balance'[a])])
              used(usg) == UsedIn(usg[sender], MonthKey(now))
              charged == used(unshieldUsage') - used(unshieldUsage)
          IN  /\ charged <= worth /\ worth <= charged + MaxExits - 1
              /\ \A u \in Users \ {sender} : unshieldUsage'[u] = unshieldUsage[u]
<1>1. Books => Charged
  <2> SUFFICES ASSUME Books, NEW p \in proved, NEW sender \in Users,
                      Unshield(p, sender) \/ UnshieldBundled(p, sender)
               PROVE  LET charged == UsedIn(unshieldUsage'[sender], MonthKey(now))
                                       - UsedIn(unshieldUsage[sender], MonthKey(now))
                      IN  /\ charged <= SumFunction(Leaving)
                          /\ SumFunction(Leaving) <= charged + MaxExits - 1
                          /\ \A u \in Users \ {sender} : unshieldUsage'[u] = unshieldUsage[u]
    BY DEF Leaving
  <2>1. ProcessExitsAndCharge(p, sender) /\ p.circuit \notin {"transfer", "swap"}
    BY DEF Unshield, UnshieldBundled
  <2>2. DOMAIN Leaving = Assets
    BY DEF Leaving
  <2>3. /\ UsedIn(unshieldUsage'[sender], MonthKey(now))
              - UsedIn(unshieldUsage[sender], MonthKey(now)) = TotalCents(p)
        /\ \A u \in Users \ {sender} : unshieldUsage'[u] = unshieldUsage[u]
    BY <2>1, ChargedToBucket DEF Books, Inv
  <2>4. /\ TotalCents(p) <= SumFunctionOnSet(Leaving, Assets)
        /\ SumFunctionOnSet(Leaving, Assets) <= TotalCents(p) + MaxExits - 1
    BY <2>1, ExitsCharged
  <2> QED
    BY <2>2, <2>3, <2>4 DEF SumFunction
<1>2. Charged => [Charged]_vars
  OBVIOUS
<1> QED
  BY <1>1, <1>2, BooksInvariant, PTL DEF Spec, ExitsAreCharged

=============================================================================
