------------------------------- MODULE Pampalo -------------------------------
(***************************************************************************)
(* contracts/contracts/Pampalo.sol: public tokens are shielded into a      *)
(* queue of escrowed entries, an entry lands in the note tree after its    *)
(* wait (or is cancelled by its shielder or contested by a vigilant        *)
(* citizen), and landed notes are spent privately (transfer) or back into  *)
(* the public layer (unshield, unshieldBundled).  Finance managers and     *)
(* booth operators turn the knobs while entries wait.                      *)
(*                                                                         *)
(* Every external function of the contract is one atomic action: the EVM   *)
(* reverts the whole call when a require fails.  What interleaves are the  *)
(* calls of different actors, the clock, the oracles, and the spends that  *)
(* a wallet has proved but not yet sent (several devices of one owner may  *)
(* hold proofs over the same notes).                                       *)
(*                                                                         *)
(* The tree is its append-only log of leaves: module MerkleTree shows that *)
(* the contract's incremental tree with epoch rollover implements it.      *)
(***************************************************************************)
EXTENDS MonthlyCaps, Integers, Sequences, FiniteSets, Functions

CONSTANTS
  Users,              \* addresses that shield, spend and receive
  NoAddress,          \* address(0)
  Assets,             \* tokens an oracle exists for (native ETH is one of them)
  Amounts,            \* amounts a note or an exit may carry
  Funds,              \* public tokens of each asset a user starts with
  Prices,             \* answers of the oracles; 0 is an unusable (stale) answer
  PriceScale,         \* cents = amount * price \div PriceScale, rounded down
  Caps,               \* values the finance manager gives the monthly caps
  DefaultCap,         \* cap in force at deployment
  Waits,              \* values the finance manager asks for as shieldWaitTime
  DefaultWait,        \* shieldWaitTime at deployment
  MinShieldWaitTime,
  MonthLength,        \* ticks of the clock in one calendar month
  EpochSize,          \* leaves of one tree (MAX_LEAF_INDEX)
  Circuits,           \* circuits with a verifier: "swap" in the swap deployments only
  Fills,              \* amounts a venue may answer a swap with
  MaxTime,            \* bound: ticks of the clock
  MaxShields,         \* bound: shields ever queued
  MaxSpends,          \* bound: spends ever proved
  MaxOutputs,         \* bound: outputs of one spend, at most 3
  MaxExits            \* bound: exits of one spend, at most 3

ASSUME PampaloAssumption ==
  /\ NoAddress \notin Users
  /\ Amounts \subseteq Nat \ {0}
  /\ Prices \subseteq Nat
  /\ Caps \subseteq Nat
  /\ Waits \subseteq Nat
  /\ {Funds, DefaultCap, DefaultWait, MaxTime, MaxShields, MaxSpends} \subseteq Nat
  /\ {PriceScale, MinShieldWaitTime, MonthLength, EpochSize} \subseteq Nat \ {0}
  /\ MaxOutputs \in 0..3 /\ MaxExits \in 0..3
  /\ Circuits \subseteq {"transfer", "withdraw", "transferExternal", "swap"}
  /\ Fills \subseteq Nat
  /\ DefaultWait >= MinShieldWaitTime

VARIABLES
  now,                   \* block.timestamp
  price,                 \* oracle answer per asset
  enabled,               \* supportedAssets[_].enabled
  defaultMonthlyCap,
  addressMonthlyCap,     \* 0: use the default
  fastTrackAllowedMonth, \* month key for which a user skips the wait, 0: never
  shieldWaitTime,
  depositsHalted,
  shieldUsage,
  unshieldUsage,
  pendingShields,        \* id -> entry; a deleted or unknown id is outside the domain
  nextPendingId,
  leaves,                \* every commitment inserted, in order, across the epochs
  nullifierUsed,         \* the landed notes whose nullifier is burnt
  balance,               \* public tokens the contract holds
  wallet,                \* public tokens of each user
  proved,                \* spends a wallet has proved and may send, any number of times
  nextSecret,            \* a fresh secret makes each commitment unique
  queuedAs               \* history: what each id was when it was queued

admin == <<price, enabled, defaultMonthlyCap, addressMonthlyCap,
           fastTrackAllowedMonth, shieldWaitTime, depositsHalted>>
usage == <<shieldUsage, unshieldUsage>>
queue == <<pendingShields, nextPendingId, queuedAs>>
tree == <<leaves, nullifierUsed>>
funds == <<balance, wallet>>
client == <<proved, nextSecret>>
vars == <<now, admin, usage, queue, tree, funds, client>>

-----------------------------------------------------------------------------
(* Types *)

Note == [owner : Users, asset : Assets, amount : Amounts, secret : Nat]
Exit == [to : Users \cup {NoAddress}, asset : Assets, amount : Amounts]

PendingShield ==
  [shielder : Users, asset : Assets, amount : Amounts, leafCommitment : Note,
   unlockTime : Nat, usdCentsCharged : Nat, cancelled : BOOLEAN]

\* A proved spend: its circuit and public inputs.  The root stands for the
\* length of the log at which the proof was made; swapIn is the input_amount of
\* the swap circuit.
Spend ==
  [circuit : Circuits, root : Nat, ins : SUBSET Note, outs : Seq(Note),
   exits : Seq(Exit), swapIn : Nat]

QueuedAs ==
  [shielder : Users, note : Note, at : Nat, cents : Nat, vouched : BOOLEAN]

TypeOK ==
  /\ now \in Nat
  /\ price \in [Assets -> Prices]
  /\ enabled \in [Assets -> BOOLEAN]
  /\ defaultMonthlyCap \in Nat
  /\ addressMonthlyCap \in [Users -> Nat]
  /\ fastTrackAllowedMonth \in [Users -> Nat]
  /\ shieldWaitTime \in Nat /\ shieldWaitTime >= MinShieldWaitTime
  /\ depositsHalted \in BOOLEAN
  /\ shieldUsage \in [Users -> MonthlyVolume]
  /\ unshieldUsage \in [Users -> MonthlyVolume]
  /\ nextPendingId \in Nat
  /\ DOMAIN pendingShields \subseteq 0 .. nextPendingId - 1
  /\ pendingShields \in [DOMAIN pendingShields -> PendingShield]
  /\ queuedAs \in [0 .. nextPendingId - 1 -> QueuedAs]
  /\ leaves \in Seq(Note)
  /\ nullifierUsed \subseteq Note
  /\ balance \in [Assets -> Nat]
  /\ wallet \in [Users \X Assets -> Nat]
  /\ proved \subseteq Spend
  /\ nextSecret \in Nat

-----------------------------------------------------------------------------
(* Reads shared by the operations *)

\* Month keys grow with the calendar and are never the zero that means "none"
\* (module DateMath checks the calendar arithmetic itself).
MonthKey(t) == 1 + t \div MonthLength

\* Mutant of IsFastTracked: the waiver outlives its month.
IsFastTrackedForGood(u) == fastTrackAllowedMonth[u] # 0

IsFastTracked(u) == fastTrackAllowedMonth[u] = MonthKey(now)

CapOf(u) == EffectiveCap(addressMonthlyCap[u], defaultMonthlyCap)

\* A stale or non-positive feed makes priceUsdCents revert.
OracleAnswers(a) == price[a] > 0
PriceUsdCents(a, amount) == (amount * price[a]) \div PriceScale

\* Mutant of Live: the cancelled flag is not looked at.
Known(id) == id \in DOMAIN pendingShields

Live(id) == id \in DOMAIN pendingShields /\ ~pendingShields[id].cancelled

Landed == Range(leaves)

-----------------------------------------------------------------------------
Init ==
  /\ now = 0
  /\ price \in [Assets -> Prices]
  /\ enabled = [a \in Assets |-> FALSE]
  /\ defaultMonthlyCap = DefaultCap
  /\ addressMonthlyCap = [u \in Users |-> 0]
  /\ fastTrackAllowedMonth = [u \in Users |-> 0]
  /\ shieldWaitTime = DefaultWait
  /\ depositsHalted = FALSE
  /\ shieldUsage = [u \in Users |-> NoVolume]
  /\ unshieldUsage = [u \in Users |-> NoVolume]
  /\ pendingShields = << >> /\ nextPendingId = 0 /\ queuedAs = << >>
  /\ leaves = << >> /\ nullifierUsed = {}
  /\ balance = [a \in Assets |-> 0]
  /\ wallet = [ua \in Users \X Assets |-> Funds]
  /\ proved = {} /\ nextSecret = 0

-----------------------------------------------------------------------------
(* Environment: the clock and the price feeds *)

Tick ==
  /\ now < MaxTime
  /\ now' = now + 1
  /\ UNCHANGED <<admin, usage, queue, tree, funds, client>>

PriceMoves(a, p) ==
  /\ price[a] # p
  /\ price' = [price EXCEPT ![a] = p]
  /\ UNCHANGED <<now, enabled, defaultMonthlyCap, addressMonthlyCap,
                 fastTrackAllowedMonth, shieldWaitTime, depositsHalted,
                 usage, queue, tree, funds, client>>

-----------------------------------------------------------------------------
(* Finance manager and booth operator *)

AddSupportedAsset(a) ==
  /\ enabled' = [enabled EXCEPT ![a] = TRUE]
  /\ UNCHANGED <<now, price, defaultMonthlyCap, addressMonthlyCap,
                 fastTrackAllowedMonth, shieldWaitTime, depositsHalted,
                 usage, queue, tree, funds, client>>

DisableSupportedAsset(a) ==
  /\ enabled' = [enabled EXCEPT ![a] = FALSE]
  /\ UNCHANGED <<now, price, defaultMonthlyCap, addressMonthlyCap,
                 fastTrackAllowedMonth, shieldWaitTime, depositsHalted,
                 usage, queue, tree, funds, client>>

SetDefaultMonthlyCap(c) ==
  /\ defaultMonthlyCap' = c
  /\ UNCHANGED <<now, price, enabled, addressMonthlyCap,
                 fastTrackAllowedMonth, shieldWaitTime, depositsHalted,
                 usage, queue, tree, funds, client>>

SetAddressMonthlyCap(u, c) ==
  /\ addressMonthlyCap' = [addressMonthlyCap EXCEPT ![u] = c]
  /\ UNCHANGED <<now, price, enabled, defaultMonthlyCap,
                 fastTrackAllowedMonth, shieldWaitTime, depositsHalted,
                 usage, queue, tree, funds, client>>

SetFastTrackAllowed(u, allowed) ==
  /\ fastTrackAllowedMonth' =
       [fastTrackAllowedMonth EXCEPT ![u] = IF allowed THEN MonthKey(now) ELSE 0]
  /\ UNCHANGED <<now, price, enabled, defaultMonthlyCap, addressMonthlyCap,
                 shieldWaitTime, depositsHalted,
                 usage, queue, tree, funds, client>>

\* Mutant of WaitAllowed: the floor is not enforced.
AnyWaitAllowed(w) == TRUE

WaitAllowed(w) == w >= MinShieldWaitTime

SetShieldWaitTime(w) ==
  /\ WaitAllowed(w)
  /\ shieldWaitTime' = w
  /\ UNCHANGED <<now, price, enabled, defaultMonthlyCap, addressMonthlyCap,
                 fastTrackAllowedMonth, depositsHalted,
                 usage, queue, tree, funds, client>>

SetDepositsHalted(halted) ==
  /\ depositsHalted' = halted
  /\ UNCHANGED <<now, price, enabled, defaultMonthlyCap, addressMonthlyCap,
                 fastTrackAllowedMonth, shieldWaitTime,
                 usage, queue, tree, funds, client>>

WeAreFull == SetDepositsHalted(TRUE)
WeFoundRoom == SetDepositsHalted(FALSE)

-----------------------------------------------------------------------------
(* The shield queue *)

UnlockTime(u) == IF IsFastTracked(u) THEN now ELSE now + shieldWaitTime

\* shield and shieldNative: take the tokens, check the asset and the cap, queue.
\* The deposit proof binds commitment, asset and amount: the note is the one
\* paid for.  MaxShields is a bound, and so is the clock: entries are queued
\* only while their wait still fits below MaxTime.
Shield(u, a, amount) ==
  LET note  == [owner |-> u, asset |-> a, amount |-> amount, secret |-> nextSecret]
      cents == PriceUsdCents(a, amount)
      id    == nextPendingId
      entry == [shielder |-> u, asset |-> a, amount |-> amount,
                leafCommitment |-> note, unlockTime |-> UnlockTime(u),
                usdCentsCharged |-> cents, cancelled |-> FALSE]
      was   == [shielder |-> u, note |-> note, at |-> now, cents |-> cents,
                vouched |-> fastTrackAllowedMonth[u] = MonthKey(now)]
  IN
  /\ nextPendingId < MaxShields /\ now + shieldWaitTime <= MaxTime
  /\ ~depositsHalted
  /\ wallet[<<u, a>>] >= amount
  /\ enabled[a]
  /\ OracleAnswers(a)
  /\ Fits(shieldUsage[u], MonthKey(now), CapOf(u), cents)
  /\ shieldUsage' = [shieldUsage EXCEPT ![u] = Bumped(@, MonthKey(now), cents)]
  /\ nextPendingId' = id + 1
  /\ pendingShields' = [i \in DOMAIN pendingShields \cup {id} |->
                          IF i = id THEN entry ELSE pendingShields[i]]
  /\ queuedAs' = [i \in 0 .. id |-> IF i = id THEN was ELSE queuedAs[i]]
  /\ wallet' = [wallet EXCEPT ![<<u, a>>] = @ - amount]
  /\ balance' = [balance EXCEPT ![a] = @ + amount]
  /\ nextSecret' = nextSecret + 1
  /\ UNCHANGED <<now, admin, unshieldUsage, tree, proved>>

Deleted(id) == Restrict(pendingShields, DOMAIN pendingShields \ {id})

\* _insert the commitment, then delete the entry.
Land(id) ==
  /\ Live(id)
  /\ leaves' = Append(leaves, pendingShields[id].leafCommitment)
  /\ pendingShields' = Deleted(id)
  /\ UNCHANGED <<now, admin, usage, nextPendingId, queuedAs, nullifierUsed,
                 funds, client>>

\* Mutant of WaitOver: halting deposits halts the landing of queued ones too.
WaitOverUnlessHalted(id) == now >= pendingShields[id].unlockTime /\ ~depositsHalted

WaitOver(id) == now >= pendingShields[id].unlockTime

\* Anyone may land an entry whose wait is over.
ExecuteShield(id) == Live(id) /\ WaitOver(id) /\ Land(id)

\* The booth operator lands an entry without the wait.
ExecuteShieldImmediate(id) == Land(id)

\* Mutant of PaidBack: the entry is closed and the tokens leave, to nobody.
NotPaidBack(p) == wallet

PaidBack(p) == [wallet EXCEPT ![<<p.shielder, p.asset>>] = @ + p.amount]

\* Mutant of Marked: the entry is paid back but stays live.
NotMarked(id) == pendingShields

Marked(id) == [pendingShields EXCEPT ![id].cancelled = TRUE]

\* _refundEscrow, _refundShieldCap, mark as cancelled.  The entry stays in the
\* mapping.
Refund(id) ==
  LET p == pendingShields[id] IN
  /\ Live(id)
  /\ balance[p.asset] >= p.amount
  /\ balance' = [balance EXCEPT ![p.asset] = @ - p.amount]
  /\ wallet' = PaidBack(p)
  /\ shieldUsage' = [shieldUsage EXCEPT
        ![p.shielder] = Refunded(@, MonthKey(now), p.usdCentsCharged)]
  /\ pendingShields' = Marked(id)
  /\ UNCHANGED <<now, admin, unshieldUsage, nextPendingId, queuedAs, tree, client>>

\* The shielder takes an entry back at any time before it lands.
CancelShield(u, id) ==
  /\ Live(id)
  /\ pendingShields[id].shielder = u
  /\ Refund(id)

\* A vigilant citizen contests it, likewise at any time before it lands.
ContestShield(id) == Refund(id)

-----------------------------------------------------------------------------
(* Spending notes *)

EpochOf(position) == (position - 1) \div EpochSize
Position(n) == CHOOSE i \in DOMAIN leaves : leaves[i] = n

\* A proof opens all its inputs against one root, the root of one epoch's tree.
SameTree(S) ==
  \A m, n \in S : EpochOf(Position(m)) = EpochOf(Position(n))

\* The freshest root of the tree S is in: a sealed epoch's last one, or the
\* current one.
RootOf(S) ==
  LET sealedAt == (EpochOf(Position(CHOOSE n \in S : TRUE)) + 1) * EpochSize
  IN  IF sealedAt < Len(leaves) THEN sealedAt ELSE Len(leaves)

SumOf(slots, a) ==
  SumFunction([i \in DOMAIN slots |->
                 IF slots[i].asset = a THEN slots[i].amount ELSE 0])

ValueOf(S, a) ==
  SumFunction([n \in S |-> IF n.asset = a THEN n.amount ELSE 0])

\* assert_balanced of the circuits, and of prepareTransfer before it, per asset.
Balanced(ins, outs, exits) ==
  \A a \in Assets : ValueOf(ins, a) = SumOf(outs, a) + SumOf(exits, a)

\* The withdraw circuit: each input note leaves whole, through the exit of its
\* own slot.
ExitsMirror(ins, exits) ==
  \E note \in [DOMAIN exits -> ins] :
     /\ IsInjective(note) /\ Range(note) = ins
     /\ \A i \in DOMAIN exits :
           exits[i].asset = note[i].asset /\ exits[i].amount = note[i].amount

\* The input notes of a swap are of one asset.
AssetOf(ins) == (CHOOSE n \in ins : TRUE).asset

\* What a swap sends to the venue: the value of its inputs but for the change,
\* which is its second output.
SwapIn(circuit, ins, outs) ==
  IF circuit = "swap"
  THEN ValueOf(ins, AssetOf(ins)) - (IF Len(outs) = 2 THEN outs[2].amount ELSE 0)
  ELSE 0

\* The spends the wallet, the SDK and the helpers build, and their circuits
\* accept: notes and exits fill the first slots, and a slot that carries none is
\* zero in the witness and in the public inputs alike.  (The circuits leave such a
\* slot alone, and withdraw its third one: see the README.)  The three output
\* slots of transfer_external are shared by the notes and the exits.  The first
\* output of a swap is worth whatever target the wallet names.
Builds(circuit, ins, outs, exits) ==
  \/ /\ circuit = "transfer"
     /\ Balanced(ins, outs, exits)
  \/ /\ circuit = "withdraw"
     /\ Len(exits) <= 2
     /\ ExitsMirror(ins, exits)
  \/ /\ circuit = "transferExternal"
     /\ exits # << >> /\ Len(outs) + Len(exits) <= 3
     /\ Balanced(ins, outs, exits)
  \/ /\ circuit = "swap"
     /\ Len(outs) \in 1 .. 2
     /\ \A n \in ins : n.asset = AssetOf(ins)
     /\ Len(outs) = 2 => outs[2].asset = AssetOf(ins)
     /\ SwapIn(circuit, ins, outs) > 0

\* The output notes of a spend: each one gets a fresh secret.
FreshOf(outs) ==
  [i \in DOMAIN outs |->
     [owner |-> outs[i].to, asset |-> outs[i].asset,
      amount |-> outs[i].amount, secret |-> nextSecret + i - 1]]

\* The notes a wallet holds and believes unspent.
Spendable(u) == {n \in Landed \ nullifierUsed : n.owner = u}

\* A wallet proves a spend of notes it owns; a swap pays its prover.  What
\* becomes of the proof is decided later, when (and if) it is sent.
Prove(u, circuit, ins, outs, exits) ==
  /\ ins # {} /\ Cardinality(ins) <= 3
  /\ ins \subseteq Spendable(u)
  /\ SameTree(ins)
  /\ Builds(circuit, ins, outs, exits)
  /\ SwapIn(circuit, ins, outs) \in Nat
  /\ circuit = "swap" => \A i \in DOMAIN outs : outs[i].to = u
  /\ proved' = proved \cup
       {[circuit |-> circuit, root |-> RootOf(ins), ins |-> ins,
         outs |-> FreshOf(outs), exits |-> exits,
         swapIn |-> SwapIn(circuit, ins, outs)]}
  /\ nextSecret' = nextSecret + Len(outs)
  /\ UNCHANGED <<now, admin, usage, queue, tree, funds>>

IsKnownRoot(root) == root <= Len(leaves)

\* Mutant of Unspent: no nullifier is looked up.
TakenAsUnspent(ins) == TRUE

Unspent(ins) == ins \cap nullifierUsed = {}

BurnInsertCheck(p) ==
  /\ IsKnownRoot(p.root)
  /\ Unspent(p.ins)
  /\ nullifierUsed' = nullifierUsed \cup p.ins
  /\ leaves' = leaves \o p.outs

\* An exit to address(0) is passed over: its note is burnt and nothing is paid.
Paid(p, i) == i \in DOMAIN p.exits /\ p.exits[i].to # NoAddress

\* What exit slot i of p pays, 0 for an empty slot.
ExitAmount(p, i, a) ==
  IF Paid(p, i) /\ p.exits[i].asset = a THEN p.exits[i].amount ELSE 0
ExitTo(p, i, u, a) ==
  IF Paid(p, i) /\ p.exits[i].to = u THEN ExitAmount(p, i, a) ELSE 0
ExitCents(p, i) ==
  IF Paid(p, i) THEN PriceUsdCents(p.exits[i].asset, p.exits[i].amount) ELSE 0

\* Mutant of TotalOut: only the first exit leaves the contract's books.
FirstOut(p, a) == ExitAmount(p, 1, a)

\* Mutant of TotalCents: the loop overwrites the sum instead of adding to it.
LastCents(p) ==
  LET paid == {i \in DOMAIN p.exits : Paid(p, i)}
  IN  IF paid = {} THEN 0 ELSE ExitCents(p, CHOOSE i \in paid : \A k \in paid : k <= i)

TotalOut(p, a) == ExitAmount(p, 1, a) + ExitAmount(p, 2, a) + ExitAmount(p, 3, a)
TotalTo(p, u, a) == ExitTo(p, 1, u, a) + ExitTo(p, 2, u, a) + ExitTo(p, 3, u, a)
TotalCents(p) == ExitCents(p, 1) + ExitCents(p, 2) + ExitCents(p, 3)

\* Pay every exit, then charge their summed worth to the caller's bucket.
ProcessExitsAndCharge(p, sender) ==
  /\ \A i \in DOMAIN p.exits : Paid(p, i) =>
        enabled[p.exits[i].asset] /\ OracleAnswers(p.exits[i].asset)
  /\ \A a \in Assets : balance[a] >= TotalOut(p, a)
  /\ balance' = [a \in Assets |-> balance[a] - TotalOut(p, a)]
  /\ wallet' = [ua \in Users \X Assets |-> wallet[ua] + TotalTo(p, ua[1], ua[2])]
  /\ \/ TotalCents(p) = 0 /\ UNCHANGED unshieldUsage
     \/ /\ TotalCents(p) > 0
        /\ Fits(unshieldUsage[sender], MonthKey(now), CapOf(sender), TotalCents(p))
        /\ unshieldUsage' = [unshieldUsage EXCEPT
              ![sender] = Bumped(@, MonthKey(now), TotalCents(p))]

Transfer(p) ==
  /\ p.circuit = "transfer"
  /\ BurnInsertCheck(p)
  /\ UNCHANGED <<now, admin, usage, queue, funds, client>>

Unshield(p, sender) ==
  /\ p.circuit = "withdraw"
  /\ BurnInsertCheck(p)
  /\ ProcessExitsAndCharge(p, sender)
  /\ UNCHANGED <<now, admin, shieldUsage, queue, client>>

UnshieldBundled(p, sender) ==
  /\ p.circuit = "transferExternal"
  /\ BurnInsertCheck(p)
  /\ ProcessExitsAndCharge(p, sender)
  /\ UNCHANGED <<now, admin, shieldUsage, queue, client>>

\* Mutant of Floor: the target is not enforced.
AnyFill(p, got) == TRUE

\* Both the venue adapters and privateSwap itself require it.
Floor(p, got) == got >= p.outs[1].amount

\* What a swap moves of asset a: to the venue, and from it.
Given(p, a) == IF a = AssetOf(p.ins) THEN p.swapIn ELSE 0
Taken(p, a, got) == IF a = p.outs[1].asset THEN got ELSE 0

\* The venue answers with got; what exceeds the target note stays unowned.  No
\* cap, no halt and no enabled flag stands in the way.
PrivateSwap(p, got) ==
  /\ p.circuit = "swap"
  /\ BurnInsertCheck(p)
  /\ \A a \in Assets : balance[a] >= Given(p, a)
  /\ Floor(p, got)
  /\ balance' = [a \in Assets |-> balance[a] - Given(p, a) + Taken(p, a, got)]
  /\ UNCHANGED <<now, admin, usage, queue, wallet, client>>

-----------------------------------------------------------------------------
Ids == DOMAIN queuedAs

\* The outputs and exits a proof may name: to whom, which asset, how much.  What
\* transfer_external sends to address(0) is an internal output.
Payments(n, to) ==
  UNION {[1 .. k -> [to : to, asset : Assets, amount : Amounts]] : k \in 0 .. n}

OutsOf(circuit) ==
  IF circuit = "withdraw" THEN {<< >>} ELSE Payments(MaxOutputs, Users)

ExitsOf(circuit) ==
  CASE circuit = "withdraw" -> Payments(MaxExits, Users \cup {NoAddress})
    [] circuit = "transferExternal" -> Payments(MaxExits, Users)
    [] OTHER -> {<< >>}

Environment ==
  \/ Tick
  \/ \E a \in Assets, p \in Prices : PriceMoves(a, p)

Admin ==
  \/ \E a \in Assets : AddSupportedAsset(a) \/ DisableSupportedAsset(a)
  \/ \E c \in Caps : SetDefaultMonthlyCap(c)
  \/ \E u \in Users, c \in Caps : SetAddressMonthlyCap(u, c)
  \/ \E u \in Users, allowed \in BOOLEAN : SetFastTrackAllowed(u, allowed)
  \/ \E w \in Waits : SetShieldWaitTime(w)
  \/ WeAreFull
  \/ WeFoundRoom

Queueing ==
  \/ \E u \in Users, a \in Assets, amount \in Amounts : Shield(u, a, amount)
  \/ \E id \in Ids : ExecuteShield(id) \/ ExecuteShieldImmediate(id)
  \/ \E u \in Users, id \in Ids : CancelShield(u, id)
  \/ \E id \in Ids : ContestShield(id)

\* MaxSpends is a bound.
Spending ==
  \/ /\ Cardinality(proved) < MaxSpends
     /\ \E u \in Users, circuit \in Circuits :
          \E ins \in SUBSET Spendable(u) \ {{}},
             outs \in OutsOf(circuit), exits \in ExitsOf(circuit) :
             Prove(u, circuit, ins, outs, exits)
  \/ \E p \in proved : Transfer(p)
  \/ \E p \in proved, sender \in Users : Unshield(p, sender)
  \/ \E p \in proved, sender \in Users : UnshieldBundled(p, sender)
  \/ \E p \in proved, got \in Fills : PrivateSwap(p, got)

Next == Environment \/ Admin \/ Queueing \/ Spending

Spec == Init /\ [][Next]_vars

\* The clock does not stop, and somebody calls executeShield on an entry that
\* stays executable: anyone may, and the shielder's wallet offers it.
FairSpec ==
  /\ Spec
  /\ WF_vars(Tick)
  /\ \A id \in 0 .. MaxShields - 1 : WF_vars(id \in Ids /\ ExecuteShield(id))

-----------------------------------------------------------------------------
(* Properties *)

EscrowOf(a) ==
  SumFunction([id \in DOMAIN pendingShields |->
                 IF Live(id) /\ pendingShields[id].asset = a
                 THEN pendingShields[id].amount ELSE 0])

\* What the contract owes: the escrow of the live entries and the value of the
\* landed, unspent notes.
Owed(a) == EscrowOf(a) + ValueOf(Landed \ nullifierUsed, a)

\* Spends that leave tokens of a to nobody: the venue answers a swap with more
\* than its target, an exit goes to address(0).
Forfeits(p, a) ==
  \/ p.circuit = "swap" /\ p.outs[1].asset = a
  \/ \E i \in DOMAIN p.exits : ~Paid(p, i) /\ p.exits[i].asset = a

\* The contract holds what it owes, asset by asset, and no more than that until
\* a spend that forfeits tokens of the asset has been sent.  No order of
\* cancels, contests, executions and (re-sent) spends creates or strands value.
Conservation ==
  \A a \in Assets :
     /\ balance[a] >= Owed(a)
     /\ balance[a] > Owed(a) =>
          \E p \in proved : Forfeits(p, a) /\ p.ins \subseteq nullifierUsed

\* What the contract holds beyond what it owes only ever grows, and only when
\* notes are burnt: a swap, whose outputs are fixed before the venue has
\* answered, is never paid out of an escrow, a note or the surplus of another.
SurplusOnlyGrows ==
  [][\A a \in Assets :
       LET surplus == balance[a] - Owed(a) IN
       /\ surplus' >= surplus
       /\ surplus' > surplus => nullifierUsed' # nullifierUsed]_vars

\* What u owns of asset a: public tokens, entries u may still cancel, and
\* unspent notes.
Wealth(u, a) ==
  LET entries == [id \in DOMAIN pendingShields |->
                    IF /\ Live(id)
                       /\ pendingShields[id].shielder = u
                       /\ pendingShields[id].asset = a
                    THEN pendingShields[id].amount ELSE 0]
  IN  wallet[<<u, a>>] + SumFunction(entries) + ValueOf(Spendable(u), a)

\* Nobody but the owner of a burnt note gets poorer, whoever calls what:
\* shielding, landing, cancelling, contesting and every admin knob leave each
\* user's wealth alone.
OnlyTheSpenderPays ==
  [][\A u \in Users, a \in Assets :
       Wealth(u, a)' < Wealth(u, a) =>
         \E n \in nullifierUsed' \ nullifierUsed : n.owner = u /\ n.asset = a]_vars

\* A commitment enters the tree at most once: executeShield and
\* executeShieldImmediate never both land an entry, a re-sent spend never
\* inserts its outputs again.
LandedOnce == IsInjective(leaves)

\* An entry that was cancelled or contested never has its note in the tree,
\* and one still in the queue does not have it there yet.
EscrowOrNote ==
  \A id \in DOMAIN pendingShields : pendingShields[id].leafCommitment \notin Landed

\* Without the booth operator's hand on it (executeShieldImmediate) or a waiver
\* for the month it was queued in, no entry lands before the contest window of
\* MIN_SHIELD_WAIT_TIME has passed since it was queued, whatever was done to
\* the wait time or the waivers in between.
ContestWindow ==
  [][\A id \in Ids : ExecuteShield(id) =>
       \/ queuedAs[id].vouched
       \/ now >= queuedAs[id].at + MinShieldWaitTime]_vars

\* The shields of u in the current month that were not paid back.
ShieldedThisMonth(u) ==
  {id \in Ids :
     /\ queuedAs[id].shielder = u
     /\ MonthKey(queuedAs[id].at) = MonthKey(now)
     /\ id \in DOMAIN pendingShields => Live(id)}

CentsShieldedThisMonth(u) ==
  SumFunction([id \in ShieldedThisMonth(u) |-> queuedAs[id].cents])

\* A cancel or a contest gives the budget back: a bucket never counts more than
\* the shields of this month that stand.
BudgetNotOvercounted ==
  \A u \in Users :
     UsedIn(shieldUsage[u], MonthKey(now)) <= CentsShieldedThisMonth(u)

\* "Refunding it into the new month would be a free top-up; skip"
\* (_refundShieldCap): a bucket never counts less than the shields of this month
\* that stand.
NoFreeTopUp ==
  \A u \in Users :
     CentsShieldedThisMonth(u) <= UsedIn(shieldUsage[u], MonthKey(now))

\* shieldBudget and unshieldBudget answer what _bumpUsage enforces: a positive
\* charge is accepted if and only if it is within the remaining budget shown.
BudgetViewAgrees ==
  \A u \in Users : \A vol \in {shieldUsage[u], unshieldUsage[u]} :
     \A cents \in {PriceUsdCents(a, n) : a \in Assets, n \in Amounts} \ {0} :
        Fits(vol, MonthKey(now), CapOf(u), cents)
          <=> cents <= Remaining(vol, MonthKey(now), CapOf(u))

\* Whatever leaves the contract in an unshield is charged, in the same call and
\* at the price of the moment, to the current month of the caller, and to nobody
\* else; each exit slot is rounded down to a cent on its own.
ExitsAreCharged ==
  [][\A p \in proved, sender \in Users :
       (Unshield(p, sender) \/ UnshieldBundled(p, sender)) =>
         LET worth == SumFunction(
                        [a \in Assets |-> PriceUsdCents(a, balance[a] - balance'[a])])
             used(usg) == UsedIn(usg[sender], MonthKey(now))
             charged == used(unshieldUsage') - used(unshieldUsage)
         IN  /\ charged <= worth /\ worth <= charged + MaxExits - 1
             /\ \A u \in Users \ {sender} : unshieldUsage'[u] = unshieldUsage[u]]_vars

\* Halting deposits, disabling the asset, a dead oracle, an exhausted cap: none
\* of them traps an escrow.  Every queued entry is eventually resolved.
EscrowResolved ==
  \A id \in 0 .. MaxShields - 1 : (id \in Ids /\ Live(id)) ~> ~Live(id)
=============================================================================
