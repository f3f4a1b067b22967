----------------------------- MODULE RelayerPool -----------------------------
(***************************************************************************)
(* convex/relayer: the pool of funded accounts that send the users'        *)
(* transactions.  A relay locks an idle account, simulates, reads the      *)
(* account's nonce, signs, broadcasts, and releases the lock with an       *)
(* upper bound of the cost deducted from the tracked balance.  Each of     *)
(* those is an await: a mutation is atomic, the relay is not.  A reaper    *)
(* frees locks held too long, a reconciler overwrites tracked balances     *)
(* with those of the chain.  Nothing bounds how long a relay takes, so the *)
(* reaper may free the lock of one that is merely slow; and a mutation may *)
(* commit although its caller sees it throw.                               *)
(***************************************************************************)
EXTENDS Integers, FiniteSetsExt

CONSTANTS
  PoolSize,      \* RELAYER_POOL_SIZE
  Relays,        \* the relays asked for, each once (a bound)
  InitialFunds,  \* what the accounts are funded with, and topped up to
  Floor,         \* minRelayerBalanceWei
  EstCost,       \* gasLimit * maxFeePerGas; a transaction costs 1 .. EstCost
  ZombieLock,    \* ZOMBIE_LOCK_MS, in ticks
  Mishaps,       \* what may go wrong, of "die", "rpc", "lostReply"
  MaxMishaps     \* bound: things that go wrong

ASSUME RelayerAssumption ==
  /\ {InitialFunds, Floor, MaxMishaps} \subseteq Nat
  /\ {PoolSize, EstCost, ZombieLock} \subseteq Nat \ {0}
  /\ Mishaps \subseteq {"die", "rpc", "lostReply"}

Accounts == 1 .. PoolSize

VARIABLES
  busy,        \* the lock of each account
  age,         \* time since busySince, capped once beyond ZombieLock
  tracked,     \* balanceWei of the row
  lastBroadcastAt,  \* when each account's last broadcast was released, 0: never
  broadcasts,  \* the time of that: how many were released
  relay,       \* what each relay is doing
  funds,       \* true balance of each account
  accepted,    \* transactions the chain has accepted, the next nonce
  mined,       \* and those mined
  reconciler,  \* the account the reconciler is at, and the balance it read
  mishaps,     \* how many things went wrong
  astray       \* history: relays that do not have their account to themselves

rows == <<busy, age, tracked, lastBroadcastAt, broadcasts>>
onChain == <<funds, accepted, mined>>
vars == <<rows, relay, onChain, reconciler, mishaps, astray>>

-----------------------------------------------------------------------------
(* Relays *)

New == [pc |-> "new"]
Done == [pc |-> "done"]
NotRead == -1

\* "refused" is an early return inside the try, "failing" is the catch: both
\* have but a release left.
Holding == {"locked", "signed", "refused", "sent", "failing"}
Holds(r, a) == relay[r].pc \in Holding /\ relay[r].account = a

At(r, pc) == relay[r].pc = pc
Goto(r, state) == relay' = [relay EXCEPT ![r] = state]

Init ==
  /\ busy = [a \in Accounts |-> FALSE]
  /\ age = [a \in Accounts |-> 0]
  /\ tracked = [a \in Accounts |-> InitialFunds]
  /\ lastBroadcastAt = [a \in Accounts |-> 0] /\ broadcasts = 0
  /\ relay = [r \in Relays |-> New]
  /\ funds = [a \in Accounts |-> InitialFunds]
  /\ accepted = [a \in Accounts |-> 0]
  /\ mined = [a \in Accounts |-> 0]
  /\ reconciler = [account |-> 1, read |-> NotRead]
  /\ mishaps = 0
  /\ astray = {}

\* MaxMishaps is a bound.
Mishap(what) ==
  /\ what \in Mishaps /\ mishaps < MaxMishaps
  /\ mishaps' = mishaps + 1

\* Mutant of Acquirable: the busy flag is not looked at.
FundedOnly(a) == tracked[a] >= Floor

Acquirable(a) == ~busy[a] /\ tracked[a] >= Floor

\* Least recently used first, then by index.
ComesFirst(a, b) ==
  \/ lastBroadcastAt[a] < lastBroadcastAt[b]
  \/ lastBroadcastAt[a] = lastBroadcastAt[b] /\ a <= b

\* acquireRelayerLock, or POOL_EXHAUSTED.
Acquire(r) ==
  /\ At(r, "new")
  /\ \/ /\ \A a \in Accounts : ~Acquirable(a)
        /\ Goto(r, Done) /\ UNCHANGED <<rows, astray>>
     \/ \E pick \in Accounts :
        /\ Acquirable(pick)
        /\ \A a \in Accounts : Acquirable(a) => ComesFirst(pick, a)
        /\ busy' = [busy EXCEPT ![pick] = TRUE]
        /\ age' = [age EXCEPT ![pick] = 0]
        /\ Goto(r, [pc |-> "locked", account |-> pick])
        /\ astray' = IF \E s \in Relays : Holds(s, pick) THEN astray \cup {r} ELSE astray
        /\ UNCHANGED <<tracked, lastBroadcastAt, broadcasts>>
  /\ UNCHANGED <<onChain, reconciler, mishaps>>

\* The simulation reverts (the user's doing, no mishap) or the address, the
\* route or the encoding is refused.
WouldRevert(r) ==
  /\ At(r, "locked")
  /\ Goto(r, [pc |-> "refused", account |-> relay[r].account])
  /\ UNCHANGED <<rows, onChain, reconciler, mishaps, astray>>

\* Mutant of NonceRead: the count is asked for as of "latest".
LatestNonce(a) == mined[a]

\* eth_getTransactionCount(address, "pending").
NonceRead(a) == accepted[a]

\* The simulation passes; the pending nonce is read and the transaction signed.
Sign(r) ==
  /\ At(r, "locked")
  /\ Goto(r, [pc |-> "signed", account |-> relay[r].account,
              nonce |-> NonceRead(relay[r].account)])
  /\ UNCHANGED <<rows, onChain, reconciler, mishaps, astray>>

\* What the chain accepts: the next nonce, and funds for all that is pending.
Accepts(r) ==
  LET a == relay[r].account IN
  /\ relay[r].nonce = accepted[a]
  /\ funds[a] >= (accepted[a] - mined[a] + 1) * EstCost

\* eth_sendRawTransaction.  Its reply may be lost although the chain accepted.
Broadcast(r) ==
  LET a == relay[r].account IN
  /\ At(r, "signed")
  /\ \/ /\ Accepts(r)
        /\ accepted' = [accepted EXCEPT ![a] = @ + 1]
        /\ \/ Goto(r, [pc |-> "sent", account |-> a]) /\ UNCHANGED mishaps
           \/ Goto(r, [pc |-> "failing", account |-> a]) /\ Mishap("lostReply")
     \/ /\ ~Accepts(r)
        /\ Goto(r, [pc |-> "failing", account |-> a])
        /\ UNCHANGED <<accepted, mishaps>>
  /\ UNCHANGED <<rows, funds, mined, reconciler, astray>>

\* An RPC before the broadcast fails, or a mutation that releases the lock fails
\* without an effect: to the catch.
CallFails(r) ==
  /\ relay[r].pc \in Holding \ {"failing"}
  /\ Mishap("rpc")
  /\ Goto(r, [pc |-> "failing", account |-> relay[r].account])
  /\ UNCHANGED <<rows, onChain, reconciler, astray>>

\* Mutant of Deducted: the balance is not kept from going below zero.
Overdrawn(old) == old - EstCost

Deducted(old) == IF old >= EstCost THEN old - EstCost ELSE 0

\* The account is free, whoever holds it by now.
Unlock(a) ==
  /\ busy' = [busy EXCEPT ![a] = FALSE]
  /\ age' = [age EXCEPT ![a] = 0]

\* A mutation that released the lock returns; or its reply is lost and the catch
\* releases the account, which is free already, once more.
Returned(r) ==
  \/ /\ Goto(r, Done)
     /\ astray' = astray \ {r}
     /\ UNCHANGED mishaps
  \/ /\ Mishap("lostReply")
     /\ Goto(r, [pc |-> "failing", account |-> relay[r].account])
     /\ astray' = astray \cup {r}

\* releaseRelayerLock: free the account, deduct, mark as the most recent one.
ReleaseRelayerLock(r) ==
  LET a == relay[r].account IN
  /\ At(r, "sent")
  /\ Unlock(a)
  /\ tracked' = [tracked EXCEPT ![a] = Deducted(@)]
  /\ lastBroadcastAt' = [lastBroadcastAt EXCEPT ![a] = broadcasts + 1]
  /\ broadcasts' = broadcasts + 1
  /\ Returned(r)
  /\ UNCHANGED <<onChain, reconciler>>

\* releaseLockNoCharge of an early return: free the account and nothing else.
ReleaseRefused(r) ==
  /\ At(r, "refused")
  /\ Unlock(relay[r].account)
  /\ Returned(r)
  /\ UNCHANGED <<tracked, lastBroadcastAt, broadcasts, onChain, reconciler>>

\* releaseLockNoCharge of the catch.  If it throws, so does the action.
ReleaseLockNoCharge(r) ==
  /\ At(r, "failing")
  /\ Unlock(relay[r].account)
  /\ Goto(r, Done)
  /\ astray' = astray \ {r}
  /\ UNCHANGED <<tracked, lastBroadcastAt, broadcasts, onChain, reconciler, mishaps>>

\* The action crashes, hangs for good or throws in its catch: nobody releases
\* its lock.
Die(r) ==
  /\ relay[r].pc \in Holding
  /\ Mishap("die")
  /\ Goto(r, Done)
  /\ astray' = astray \ {r}
  /\ UNCHANGED <<rows, onChain, reconciler>>

-----------------------------------------------------------------------------
(* The clock, the reaper, the chain, the reconciler *)

\* Time passes, for relays that are at work as for dead ones.
Tick ==
  /\ \E a \in Accounts : busy[a] /\ age[a] <= ZombieLock
  /\ age' = [a \in Accounts |->
               IF busy[a] /\ age[a] <= ZombieLock THEN age[a] + 1 ELSE age[a]]
  /\ UNCHANGED <<busy, tracked, lastBroadcastAt, broadcasts, relay, onChain, reconciler, mishaps, astray>>

\* Mutant of IsZombie: the comparison is the wrong way round.
IsYoung(a) == busy[a] /\ age[a] < ZombieLock

IsZombie(a) == busy[a] /\ age[a] > ZombieLock

\* reapZombieLocks: all the accounts at once, their holders alive or not.
ReapZombieLocks ==
  /\ \E a \in Accounts : IsZombie(a)
  /\ busy' = [a \in Accounts |-> busy[a] /\ ~IsZombie(a)]
  /\ age' = [a \in Accounts |-> IF IsZombie(a) THEN 0 ELSE age[a]]
  /\ astray' = astray \cup {r \in Relays : \E a \in Accounts : IsZombie(a) /\ Holds(r, a)}
  /\ UNCHANGED <<tracked, lastBroadcastAt, broadcasts, relay, onChain, reconciler, mishaps>>

\* A pending transaction is mined and costs at most the estimate.
MineTx(a) ==
  /\ mined[a] < accepted[a]
  /\ mined' = [mined EXCEPT ![a] = @ + 1]
  /\ \E cost \in 1 .. EstCost : funds' = [funds EXCEPT ![a] = @ - cost]
  /\ UNCHANGED <<rows, relay, accepted, reconciler, mishaps, astray>>

\* The operator tops an account up.
TopUp(a) ==
  /\ funds[a] < InitialFunds
  /\ funds' = [funds EXCEPT ![a] = InitialFunds]
  /\ UNCHANGED <<rows, relay, accepted, mined, reconciler, mishaps, astray>>

NextAccount == (reconciler.account % PoolSize) + 1

\* eth_getBalance of the account at hand, as of the latest block.
ReadBalance ==
  /\ reconciler.read = NotRead
  /\ reconciler' = [reconciler EXCEPT !.read = funds[reconciler.account]]
  /\ UNCHANGED <<rows, relay, onChain, mishaps, astray>>

\* It fails: the account keeps its balance until the next round.
SkipBalance ==
  /\ reconciler.read = NotRead
  /\ Mishap("rpc")
  /\ reconciler' = [reconciler EXCEPT !.account = NextAccount]
  /\ UNCHANGED <<rows, relay, onChain, astray>>

\* Mutant of Reconciled: a balance is only ever corrected downwards.
LowerOf(old, read) == Min({old, read})

Reconciled(old, read) == read

\* setReconciledBalance: the row takes the balance read, whatever was charged
\* or mined meanwhile.
SetReconciledBalance ==
  /\ reconciler.read # NotRead
  /\ tracked' = [tracked EXCEPT ![reconciler.account] =
                   Reconciled(@, reconciler.read)]
  /\ reconciler' = [account |-> NextAccount, read |-> NotRead]
  /\ UNCHANGED <<busy, age, lastBroadcastAt, broadcasts, relay, onChain, mishaps, astray>>

Reconcile == ReadBalance \/ SetReconciledBalance

\* The steps a relay takes by itself.
Progress(r) ==
  \/ Acquire(r) \/ Sign(r) \/ Broadcast(r)
  \/ ReleaseRelayerLock(r) \/ ReleaseRefused(r) \/ ReleaseLockNoCharge(r)

Next ==
  \/ \E r \in Relays : Progress(r) \/ WouldRevert(r) \/ CallFails(r) \/ Die(r)
  \/ Tick \/ ReapZombieLocks
  \/ \E a \in Accounts : MineTx(a) \/ TopUp(a)
  \/ Reconcile \/ SkipBalance

Spec == Init /\ [][Next]_vars

\* The crons fire, the clock runs, pending transactions get mined, and a relay
\* that does not die goes on.
FairSpec ==
  /\ Spec
  /\ WF_vars(Tick) /\ WF_vars(ReapZombieLocks) /\ WF_vars(Reconcile)
  /\ \A a \in Accounts : WF_vars(MineTx(a))
  /\ \A r \in Relays : WF_vars(Progress(r))

-----------------------------------------------------------------------------
(* Properties *)

RelayType ==
  {New, Done}
    \cup [pc : Holding \ {"signed"}, account : Accounts]
    \cup [pc : {"signed"}, account : Accounts, nonce : Nat]

TypeOK ==
  /\ busy \in [Accounts -> BOOLEAN]
  /\ age \in [Accounts -> 0 .. ZombieLock + 1]
  /\ tracked \in [Accounts -> Nat] /\ funds \in [Accounts -> Nat]
  /\ lastBroadcastAt \in [Accounts -> 0 .. broadcasts] /\ broadcasts \in Nat
  /\ relay \in [Relays -> RelayType]
  /\ accepted \in [Accounts -> Nat] /\ mined \in [Accounts -> Nat]
  /\ reconciler \in [account : Accounts, read : Nat \cup {NotRead}]
  /\ mishaps \in Nat /\ astray \subseteq Relays

\* The acquire/release pair is a mutex as far as it goes: relays share an account
\* only when the lock was taken from under them, by the reaper or by a release
\* that committed with its reply lost, and then all who share it did not have it
\* to themselves.  Deaths, failures and late second releases add no other way.
NeverCollide ==
  \A r, s \in Relays, a \in Accounts :
     Holds(r, a) /\ Holds(s, a) /\ r # s => {r, s} \subseteq astray

\* A signed transaction is never overtaken while its relay has the account to
\* itself: the nonce it was signed with is still the next one when it is
\* broadcast, whatever was mined, lost or left pending by relays before it.
NonceStaysFresh ==
  \A r \in Relays :
     At(r, "signed") /\ r \notin astray => relay[r].nonce = accepted[relay[r].account]

\* "The mutex that guarantees two concurrent relays never collide on the same
\* account" (store.ts): as the comment has it, no two relays are at work on one.
MutexAsClaimed ==
  \A r, s \in Relays, a \in Accounts :
     Holds(r, a) /\ Holds(s, a) /\ {relay[r].pc, relay[s].pc} \subseteq {"locked", "signed"}
       => r = s

\* No lock outlives a dead relay for ever: every account comes back.
AccountsComeBack == \A a \in Accounts : busy[a] ~> ~busy[a]

\* Whatever was charged, lost, mined or read too early, once the relays are
\* through the tracked balances settle at the true ones.
BalancesSettle == <>[](tracked = funds)
=============================================================================
