---------------------------- MODULE RelayerProofs ----------------------------
(***************************************************************************)
(* What the lock of the relayer pool guarantees, for any number of relays  *)
(* and accounts and whatever dies, fails, is slow or is lost: who shares   *)
(* an account had its lock taken from under it, and the nonce of a relay   *)
(* that has its account to itself is still free when it is broadcast.      *)
(***************************************************************************)
EXTENDS RelayerPool, TLAPS

LockType ==
  /\ busy \in [Accounts -> BOOLEAN]
  /\ relay \in [Relays -> RelayType]
  /\ accepted \in [Accounts -> Nat]
  /\ astray \subseteq Relays

\* Who has an account to itself has it locked.
HeldIsLocked ==
  \A r \in Relays, a \in Accounts : Holds(r, a) /\ r \notin astray => busy[a]

LockInv == LockType /\ HeldIsLocked /\ NeverCollide /\ NonceStaysFresh

LEMMA InitLock == Init => LockInv
BY RelayerAssumption
   DEF Init, LockInv, LockType, HeldIsLocked, NeverCollide, NonceStaysFresh,
       Holds, Holding, At, New, RelayType

LEMMA HoldsItsAccount ==
  ASSUME LockType, NEW r \in Relays, relay[r].pc \in Holding
  PROVE  relay[r].account \in Accounts /\ Holds(r, relay[r].account)
BY DEF LockType, RelayType, Holding, New, Done, Holds

\* A relay that lets go of its account, or dies, and possibly frees it.
LEMMA LetGoKeepsLock ==
  ASSUME LockInv, NEW r \in Relays, NEW a \in Accounts,
         Holds(r, a), Goto(r, Done), UNCHANGED accepted, astray' = astray \ {r},
         UNCHANGED busy \/ busy' = [busy EXCEPT ![a] = FALSE]
  PROVE  LockInv'
<1>1. LockType'
  <2>1. busy' \in [Accounts -> BOOLEAN]
    BY DEF LockInv, LockType
  <2>2. relay' \in [Relays -> RelayType]
    BY DEF LockInv, LockType, Goto, RelayType
  <2> QED
    BY <2>1, <2>2 DEF LockInv, LockType
<1>2. \A s \in Relays, b \in Accounts : Holds(s, b)' => s # r /\ Holds(s, b)
  BY DEF LockInv, LockType, Holds, Holding, Goto, Done
<1>3. HeldIsLocked'
  <2> SUFFICES ASSUME NEW s \in Relays, NEW b \in Accounts, Holds(s, b)', s \notin astray'
               PROVE  busy'[b]
    BY DEF HeldIsLocked
  <2>1. s # r /\ Holds(s, b) /\ s \notin astray
    BY <1>2
  <2>2. b # a /\ busy[b]
    BY <2>1 DEF LockInv, NeverCollide, HeldIsLocked
  <2> QED
    BY <2>2 DEF LockInv, LockType
<1>4. NeverCollide'
  <2> SUFFICES ASSUME NEW s \in Relays, NEW t \in Relays, NEW b \in Accounts,
                      Holds(s, b)', Holds(t, b)', s # t
               PROVE  {s, t} \subseteq astray'
    BY DEF NeverCollide
  <2>1. s # r /\ t # r /\ Holds(s, b) /\ Holds(t, b)
    BY <1>2
  <2>2. {s, t} \subseteq astray
    BY <2>1 DEF LockInv, NeverCollide
  <2> QED
    BY <2>1, <2>2
<1>5. NonceStaysFresh'
  BY DEF LockInv, LockType, NonceStaysFresh, At, Goto, Done
<1> QED
  BY <1>1, <1>3, <1>4, <1>5 DEF LockInv

\* A relay that keeps its account and moves on to a release.
LEMMA MoveOnKeepsLock ==
  ASSUME LockInv, NEW r \in Relays, relay[r].pc \in Holding,
         NEW pc \in {"refused", "failing"},
         Goto(r, [pc |-> pc, account |-> relay[r].account]),
         UNCHANGED <<busy, accepted, astray>>
  PROVE  LockInv'
<1>1. relay[r].account \in Accounts
  BY HoldsItsAccount DEF LockInv
<1>2. LockType'
  BY <1>1 DEF LockInv, LockType, Goto, RelayType, Holding
<1>3. \A s \in Relays, b \in Accounts : Holds(s, b)' => Holds(s, b)
  BY DEF LockInv, LockType, Holds, Goto
<1>4. HeldIsLocked' /\ NeverCollide'
  BY <1>3 DEF LockInv, HeldIsLocked, NeverCollide
<1>5. NonceStaysFresh'
  BY DEF LockInv, LockType, NonceStaysFresh, At, Goto
<1> QED
  BY <1>2, <1>4, <1>5 DEF LockInv

\* A release that commits with its reply lost: the relay is on its way to the
\* catch, its account is free.
LEMMA LostReplyKeepsLock ==
  ASSUME LockInv, NEW r \in Relays, relay[r].pc \in Holding,
         Goto(r, [pc |-> "failing", account |-> relay[r].account]),
         busy' = [busy EXCEPT ![relay[r].account] = FALSE],
         astray' = astray \cup {r}, UNCHANGED accepted
  PROVE  LockInv'
<1> DEFINE a == relay[r].account
<1>1. a \in Accounts /\ Holds(r, a)
  BY HoldsItsAccount DEF LockInv
<1>2. LockType'
  BY <1>1 DEF LockInv, LockType, Goto, RelayType, Holding
<1>3. \A s \in Relays, b \in Accounts : Holds(s, b)' => Holds(s, b)
  BY DEF LockInv, LockType, Holds, Goto
<1>4. HeldIsLocked'
  <2> SUFFICES ASSUME NEW s \in Relays, NEW b \in Accounts, Holds(s, b)', s \notin astray'
               PROVE  busy'[b]
    BY DEF HeldIsLocked
  <2>1. s # r /\ Holds(s, b) /\ s \notin astray
    BY <1>3
  <2>2. b # a /\ busy[b]
    BY <1>1, <2>1 DEF LockInv, NeverCollide, HeldIsLocked
  <2> QED
    BY <2>2 DEF LockInv, LockType
<1>5. NeverCollide'
  BY <1>3 DEF LockInv, NeverCollide
<1>6. NonceStaysFresh'
  BY DEF LockInv, LockType, NonceStaysFresh, At, Goto
<1> QED
  BY <1>2, <1>4, <1>5, <1>6 DEF LockInv

LEMMA ReleaseKeepsLock ==
  ASSUME LockInv, NEW r \in Relays, relay[r].pc \in Holding,
         Unlock(relay[r].account), Returned(r), UNCHANGED accepted
  PROVE  LockInv'
<1>1. relay[r].account \in Accounts /\ Holds(r, relay[r].account)
  BY HoldsItsAccount DEF LockInv
<1>2. CASE Goto(r, Done) /\ astray' = astray \ {r}
  BY <1>1, <1>2, LetGoKeepsLock DEF Unlock
<1>3. CASE /\ Goto(r, [pc |-> "failing", account |-> relay[r].account])
           /\ astray' = astray \cup {r}
  BY <1>3, LostReplyKeepsLock DEF Unlock
<1> QED
  BY <1>2, <1>3 DEF Returned

LEMMA AcquireKeepsLock ==
  ASSUME LockInv, NEW r \in Relays, Acquire(r)
  PROVE  LockInv'
<1>1. CASE Goto(r, Done) /\ UNCHANGED <<busy, accepted, astray>>
  <2>1. LockType'
    BY <1>1 DEF LockInv, LockType, Goto, Done, RelayType
  <2>2. \A s \in Relays, b \in Accounts : Holds(s, b)' => Holds(s, b)
    BY <1>1 DEF LockInv, LockType, Holds, Holding, Goto, Done
  <2>3. HeldIsLocked' /\ NeverCollide'
    BY <1>1, <2>2 DEF LockInv, HeldIsLocked, NeverCollide
  <2>4. NonceStaysFresh'
    BY <1>1 DEF LockInv, LockType, NonceStaysFresh, At, Goto, Done
  <2> QED
    BY <2>1, <2>3, <2>4 DEF LockInv
<1>2. ASSUME NEW pick \in Accounts,
             ~busy[pick],
             busy' = [busy EXCEPT ![pick] = TRUE],
             Goto(r, [pc |-> "locked", account |-> pick]),
             astray' = IF \E s \in Relays : Holds(s, pick) THEN astray \cup {r} ELSE astray,
             UNCHANGED accepted
      PROVE  LockInv'
  <2>1. LockType'
    BY <1>2 DEF LockInv, LockType, Goto, RelayType, Holding
  <2>2. \A s \in Relays : Holds(s, pick) => s \in astray
    BY <1>2 DEF LockInv, HeldIsLocked
  <2>3. \A s \in Relays, b \in Accounts :
          Holds(s, b)' => (s = r /\ b = pick) \/ (s # r /\ Holds(s, b))
    BY <1>2 DEF LockInv, LockType, Holds, Goto
  <2>4. astray \subseteq astray'
    BY <1>2
  <2>5. HeldIsLocked'
    <3>1. busy'[pick]
      BY <1>2 DEF LockInv, LockType
    <3>2. \A b \in Accounts : b # pick => busy'[b] = busy[b]
      BY <1>2 DEF LockInv, LockType
    <3> QED
      BY <2>3, <2>4, <3>1, <3>2 DEF LockInv, HeldIsLocked
  <2>6. NeverCollide'
    <3> SUFFICES ASSUME NEW s \in Relays, NEW t \in Relays, NEW b \in Accounts,
                        Holds(s, b)', Holds(t, b)', s # t
                 PROVE  s \in astray' /\ t \in astray'
      BY DEF NeverCollide
    <3>1. CASE s # r /\ t # r
      BY <2>3, <2>4, <3>1 DEF LockInv, NeverCollide
    <3>2. CASE s = r
      <4>1. b = pick /\ Holds(t, pick)
        BY <2>3, <3>2
      <4> QED
        BY <1>2, <2>2, <3>2, <4>1
    <3>3. CASE t = r
      <4>1. b = pick /\ Holds(s, pick)
        BY <2>3, <3>3
      <4> QED
        BY <1>2, <2>2, <3>3, <4>1
    <3> QED
      BY <3>1, <3>2, <3>3
  <2>7. NonceStaysFresh'
    BY <1>2, <2>4 DEF LockInv, LockType, NonceStaysFresh, At, Goto
  <2> QED
    BY <2>1, <2>5, <2>6, <2>7 DEF LockInv
<1>3. UNCHANGED accepted
  BY DEF Acquire, onChain
<1>4. CASE Goto(r, Done) /\ UNCHANGED <<rows, astray>>
  BY <1>1, <1>3, <1>4 DEF rows
<1>5. CASE \E pick \in Accounts :
             /\ ~busy[pick]
             /\ busy' = [busy EXCEPT ![pick] = TRUE]
             /\ Goto(r, [pc |-> "locked", account |-> pick])
             /\ astray' = IF \E s \in Relays : Holds(s, pick) THEN astray \cup {r} ELSE astray
  BY <1>2, <1>3, <1>5
<1> QED
  BY <1>4, <1>5 DEF Acquire, Acquirable

LEMMA SignKeepsLock ==
  ASSUME LockInv, NEW r \in Relays, Sign(r)
  PROVE  LockInv'
<1>1. relay[r].account \in Accounts
  BY DEF Sign, At, LockInv, LockType, RelayType, New, Done
<1>2. accepted[relay[r].account] \in Nat
  BY <1>1 DEF LockInv, LockType
<1>3. LockType'
  BY <1>1, <1>2 DEF Sign, NonceRead, LockInv, LockType, Goto, RelayType, rows, onChain
<1>4. \A s \in Relays, b \in Accounts : Holds(s, b)' => Holds(s, b)
  BY DEF Sign, At, LockInv, LockType, Holds, Holding, Goto
<1>5. HeldIsLocked' /\ NeverCollide'
  BY <1>4 DEF Sign, rows, LockInv, HeldIsLocked, NeverCollide
<1>6. NonceStaysFresh'
  BY DEF Sign, NonceRead, onChain, LockInv, LockType, NonceStaysFresh, At, Goto
<1> QED
  BY <1>3, <1>5, <1>6 DEF LockInv

LEMMA BroadcastKeepsLock ==
  ASSUME LockInv, NEW r \in Relays, Broadcast(r)
  PROVE  LockInv'
<1> DEFINE a == relay[r].account
<1>1. At(r, "signed") /\ a \in Accounts /\ Holds(r, a)
  BY DEF Broadcast, At, LockInv, LockType, RelayType, New, Done, Holds, Holding
<1>2. CASE ~Accepts(r)
  BY <1>1, <1>2, MoveOnKeepsLock DEF Broadcast, rows, Holds
<1>3. CASE Accepts(r)
  <2>1. accepted' = [accepted EXCEPT ![a] = @ + 1] /\ UNCHANGED <<busy, astray>>
    BY <1>3 DEF Broadcast, rows
  <2>2. PICK pc \in {"sent", "failing"} : Goto(r, [pc |-> pc, account |-> a])
    BY <1>3 DEF Broadcast
  <2>3. LockType'
    BY <1>1, <2>1, <2>2 DEF LockInv, LockType, Goto, RelayType, Holding
  <2>4. \A s \in Relays, b \in Accounts : Holds(s, b)' => Holds(s, b)
    BY <1>1, <2>2 DEF LockInv, LockType, Holds, Goto
  <2>5. HeldIsLocked' /\ NeverCollide'
    BY <2>1, <2>4 DEF LockInv, HeldIsLocked, NeverCollide
  <2>6. ASSUME NEW s \in Relays, At(s, "signed")', s \notin astray'
        PROVE  relay'[s].nonce = accepted'[relay'[s].account]
    <3>1. s # r /\ relay'[s] = relay[s] /\ At(s, "signed") /\ s \notin astray
      BY <2>1, <2>2, <2>6 DEF LockInv, LockType, At, Goto
    <3>2. relay[s].account \in Accounts /\ Holds(s, relay[s].account)
      BY <3>1 DEF LockInv, LockType, RelayType, New, Done, At, Holds, Holding
    <3>3. relay[s].account # a
      BY <1>1, <3>1, <3>2 DEF LockInv, NeverCollide
    <3> QED
      BY <2>1, <3>1, <3>2, <3>3 DEF LockInv, LockType, NonceStaysFresh
  <2>7. NonceStaysFresh'
    BY <2>6 DEF NonceStaysFresh, At
  <2> QED
    BY <2>3, <2>5, <2>7 DEF LockInv
<1> QED
  BY <1>2, <1>3

LEMMA ReapKeepsLock ==
  ASSUME LockInv, ReapZombieLocks
  PROVE  LockInv'
<1>1. LockType'
  BY DEF ReapZombieLocks, LockInv, LockType, onChain, IsZombie
<1>2. \A s \in Relays, b \in Accounts : Holds(s, b)' <=> Holds(s, b)
  BY DEF ReapZombieLocks, Holds
<1>3. astray \subseteq astray'
  BY DEF ReapZombieLocks
<1>4. ASSUME NEW r \in Relays, NEW a \in Accounts, Holds(r, a)', r \notin astray'
      PROVE  busy'[a]
  <2>1. busy[a] /\ ~IsZombie(a)
    BY <1>2, <1>3, <1>4 DEF ReapZombieLocks, LockInv, HeldIsLocked
  <2> QED
    BY <2>1 DEF ReapZombieLocks
<1>5. NeverCollide'
  BY <1>2, <1>3 DEF LockInv, NeverCollide
<1>6. NonceStaysFresh'
  BY <1>3 DEF ReapZombieLocks, onChain, LockInv, NonceStaysFresh, At
<1> QED
  BY <1>1, <1>4, <1>5, <1>6 DEF LockInv, HeldIsLocked

\* What leaves the locks, the relays and the nonces alone keeps the invariant.
LEMMA StutterKeepsLock ==
  ASSUME LockInv, UNCHANGED <<busy, relay, accepted, astray>>
  PROVE  LockInv'
BY DEF LockInv, LockType, HeldIsLocked, NeverCollide, NonceStaysFresh, Holds, At

LEMMA NextKeepsLock ==
  ASSUME LockInv, [Next]_vars
  PROVE  LockInv'
<1>1. ASSUME NEW r \in Relays, Progress(r) PROVE LockInv'
  <2>1. CASE Acquire(r)
    BY <2>1, AcquireKeepsLock
  <2>2. CASE Sign(r)
    BY <2>2, SignKeepsLock
  <2>3. CASE Broadcast(r)
    BY <2>3, BroadcastKeepsLock
  <2>4. CASE ReleaseRelayerLock(r)
    BY <2>4, ReleaseKeepsLock DEF ReleaseRelayerLock, At, Holding, onChain
  <2>5. CASE ReleaseRefused(r)
    BY <2>5, ReleaseKeepsLock DEF ReleaseRefused, At, Holding, onChain
  <2>6. CASE ReleaseLockNoCharge(r)
    <3>1. relay[r].account \in Accounts /\ Holds(r, relay[r].account)
      BY <2>6, HoldsItsAccount DEF ReleaseLockNoCharge, At, Holding, LockInv
    <3> QED
      BY <2>6, <3>1, LetGoKeepsLock DEF ReleaseLockNoCharge, Unlock, onChain
  <2> QED
    BY <1>1, <2>1, <2>2, <2>3, <2>4, <2>5, <2>6 DEF Progress
<1>2. ASSUME NEW r \in Relays, WouldRevert(r) \/ CallFails(r) PROVE LockInv'
  BY <1>2, MoveOnKeepsLock DEF WouldRevert, CallFails, At, Holding, rows, onChain
<1>3. ASSUME NEW r \in Relays, Die(r) PROVE LockInv'
  <2>1. relay[r].account \in Accounts /\ Holds(r, relay[r].account)
    BY <1>3, HoldsItsAccount DEF Die, LockInv
  <2> QED
    BY <1>3, <2>1, LetGoKeepsLock DEF Die, rows, onChain
<1>4. CASE Tick
  BY <1>4, StutterKeepsLock DEF Tick, onChain
<1>5. CASE ReapZombieLocks
  BY <1>5, ReapKeepsLock
<1>6. ASSUME NEW a \in Accounts, MineTx(a) \/ TopUp(a) PROVE LockInv'
  BY <1>6, StutterKeepsLock DEF MineTx, TopUp, rows
<1>7. CASE Reconcile \/ SkipBalance
  BY <1>7, StutterKeepsLock
     DEF Reconcile, ReadBalance, SetReconciledBalance, SkipBalance, rows, onChain
<1>8. CASE UNCHANGED vars
  BY <1>8, StutterKeepsLock DEF vars, rows, onChain
<1> QED
  BY <1>1, <1>2, <1>3, <1>4, <1>5, <1>6, <1>7, <1>8 DEF Next

\* The acquire/release pair (store.ts) as a mutex: relays that share an account
\* had its lock taken from under them, all of them, by the reaper or by a release
\* whose reply was lost.  Nothing is assumed of how long a relay takes.
THEOREM Mutex == Spec => []NeverCollide
<1>1. LockInv /\ [Next]_vars => LockInv'
  BY NextKeepsLock
<1>2. LockInv => NeverCollide
  BY DEF LockInv
<1> QED
  BY <1>1, <1>2, InitLock, PTL DEF Spec

\* The nonce of a relay that has its account to itself is never taken by another
\* one (node.ts reads it once, before signing).
THEOREM FreshNonces == Spec => []NonceStaysFresh
<1>1. LockInv /\ [Next]_vars => LockInv'
  BY NextKeepsLock
<1>2. LockInv => NonceStaysFresh
  BY DEF LockInv
<1> QED
  BY <1>1, <1>2, InitLock, PTL DEF Spec

-----------------------------------------------------------------------------
(* Every account can pay for what it has pending, so no true balance falls    *)
(* below zero; and no tracked balance does.                                   *)

RowType ==
  /\ busy \in [Accounts -> BOOLEAN]
  /\ age \in [Accounts -> 0 .. ZombieLock + 1]
  /\ tracked \in [Accounts -> Nat]
  /\ lastBroadcastAt \in [Accounts -> 0 .. broadcasts] /\ broadcasts \in Nat
ChainType ==
  /\ funds \in [Accounts -> Nat]
  /\ accepted \in [Accounts -> Nat] /\ mined \in [Accounts -> Nat]
RestType ==
  /\ relay \in [Relays -> RelayType]
  /\ reconciler \in [account : Accounts, read : Nat \cup {NotRead}]
  /\ mishaps \in Nat /\ astray \subseteq Relays

\* The greatest cost of what account a has pending.
Pending(a) == (accepted[a] - mined[a]) * EstCost

Solvent == \A a \in Accounts : mined[a] <= accepted[a] /\ Pending(a) <= funds[a]

PoolInv == RowType /\ ChainType /\ RestType /\ Solvent

LEMMA TimesSteps ==
  ASSUME NEW n \in Int, NEW c \in Int
  PROVE  (n + 1) * c = n * c + c /\ (n - 1) * c = n * c - c
OBVIOUS

LEMMA TimesIsNat ==
  ASSUME NEW n \in Nat, NEW c \in Nat
  PROVE  n * c \in Nat
OBVIOUS

LEMMA InitPool == Init => PoolInv
<1> SUFFICES ASSUME Init PROVE PoolInv
  OBVIOUS
<1>1. 1 \in Accounts
  BY RelayerAssumption DEF Accounts
<1>2. RowType /\ ChainType /\ RestType
  BY <1>1, RelayerAssumption
     DEF Init, RowType, ChainType, RestType, RelayType, New, NotRead
<1>3. Solvent
  BY RelayerAssumption DEF Init, Solvent, Pending
<1> QED
  BY <1>2, <1>3 DEF PoolInv

\* Who is in an account's hands.
LEMMA HolderHasAccount ==
  ASSUME RestType, NEW r \in Relays, relay[r].pc \in Holding
  PROVE  relay[r].account \in Accounts
BY DEF RestType, RelayType, Holding, New, Done

\* What leaves the chain alone leaves the accounts solvent.
LEMMA ChainStutters ==
  ASSUME PoolInv, UNCHANGED onChain
  PROVE  ChainType' /\ Solvent'
BY DEF PoolInv, ChainType, Solvent, Pending, onChain

LEMMA RowsStutter ==
  ASSUME PoolInv, UNCHANGED rows
  PROVE  RowType'
BY DEF PoolInv, RowType, rows

LEMMA FreedIsTyped ==
  ASSUME RowType, NEW x,
         busy' = [busy EXCEPT ![x] = FALSE], age' = [age EXCEPT ![x] = 0]
  PROVE  busy' \in [Accounts -> BOOLEAN] /\ age' \in [Accounts -> 0 .. ZombieLock + 1]
<1>1. busy' \in [Accounts -> BOOLEAN]
  BY DEF RowType
<1>2. 0 \in 0 .. ZombieLock + 1
  BY RelayerAssumption
<1>3. age' \in [Accounts -> 0 .. ZombieLock + 1]
  BY <1>2 DEF RowType
<1> QED
  BY <1>1, <1>3

LEMMA ReturnedIsTyped ==
  ASSUME RestType, NEW r \in Relays, relay[r].account \in Accounts,
         Returned(r), UNCHANGED reconciler
  PROVE  RestType'
<1>1. relay' \in [Relays -> RelayType]
  BY DEF Returned, Goto, RestType, RelayType, Holding, Done
<1>2. astray' \subseteq Relays /\ mishaps' \in Nat
  BY DEF Returned, Mishap, RestType
<1> QED
  BY <1>1, <1>2 DEF RestType

LEMMA RelayKeepsPool ==
  ASSUME PoolInv, NEW r \in Relays,
         Progress(r) \/ WouldRevert(r) \/ CallFails(r) \/ Die(r)
  PROVE  PoolInv'
<1> DEFINE a == relay[r].account
<1>1. CASE Acquire(r)
  <2>1. RestType'
    <3>1. relay' \in [Relays -> RelayType]
      BY <1>1 DEF Acquire, Goto, PoolInv, RestType, RelayType, Done, Holding
    <3>2. astray' \subseteq Relays
      BY <1>1 DEF Acquire, PoolInv, RestType
    <3> QED
      BY <1>1, <3>1, <3>2 DEF Acquire, PoolInv, RestType
  <2>2. RowType'
    <3>1. CASE UNCHANGED rows
      BY <3>1, RowsStutter
    <3>2. ASSUME NEW pick \in Accounts,
                 busy' = [busy EXCEPT ![pick] = TRUE],
                 age' = [age EXCEPT ![pick] = 0],
                 UNCHANGED <<tracked, lastBroadcastAt, broadcasts>>
          PROVE  RowType'
      BY <3>2, RelayerAssumption DEF PoolInv, RowType
    <3> QED
      BY <1>1, <3>1, <3>2 DEF Acquire
  <2> QED
    BY <1>1, <2>1, <2>2, ChainStutters DEF Acquire, PoolInv
<1>2. CASE Sign(r)
  <2>1. a \in Accounts
    BY <1>2, HolderHasAccount DEF Sign, At, Holding, PoolInv
  <2>2. accepted[a] \in Nat
    BY <2>1 DEF PoolInv, ChainType
  <2>3. RestType'
    BY <1>2, <2>1, <2>2 DEF Sign, NonceRead, Goto, PoolInv, RestType, RelayType
  <2> QED
    BY <1>2, <2>3, RowsStutter, ChainStutters DEF Sign, PoolInv
<1>3. CASE Broadcast(r)
  <2>1. PICK c \in Accounts : c = relay[r].account
    BY <1>3, HolderHasAccount DEF Broadcast, At, Holding, PoolInv
  <2>2. RestType'
    <3>1. mishaps' \in Nat
      BY <1>3 DEF Broadcast, Mishap, PoolInv, RestType
    <3>2. PICK pc \in {"sent", "failing"} : Goto(r, [pc |-> pc, account |-> c])
      BY <1>3, <2>1 DEF Broadcast
    <3> QED
      BY <1>3, <2>1, <3>1, <3>2 DEF Broadcast, Goto, PoolInv, RestType, RelayType, Holding
  <2>3. CASE UNCHANGED accepted
    BY <1>3, <2>2, <2>3, RowsStutter, ChainStutters DEF Broadcast, PoolInv, onChain
  <2>4. CASE Accepts(r) /\ accepted' = [accepted EXCEPT ![c] = @ + 1]
    <3> DEFINE n == accepted[c] - mined[c]
    <3>1. n \in Nat /\ accepted[c] \in Nat /\ mined[c] \in Nat /\ mined[c] <= accepted[c]
      BY <2>1 DEF PoolInv, ChainType, Solvent
    <3>2. funds[c] >= (n + 1) * EstCost
      BY <2>1, <2>4 DEF Accepts
    <3>3. accepted'[c] = accepted[c] + 1
      BY <2>1, <2>4 DEF PoolInv, ChainType
    <3>4. \A b \in Accounts : b # c => accepted'[b] = accepted[b]
      BY <2>4 DEF PoolInv, ChainType
    <3>5. UNCHANGED <<funds, mined>>
      BY <1>3 DEF Broadcast
    <3>6. accepted'[c] - mined'[c] = n + 1
      BY <3>1, <3>3, <3>5
    <3>7. Pending(c)' <= funds'[c]
      <4>1. Pending(c)' = (n + 1) * EstCost
        BY <3>6 DEF Pending
      <4>2. (n + 1) * EstCost \in Nat /\ funds[c] \in Nat
        BY <2>1, <3>1, RelayerAssumption, TimesIsNat DEF PoolInv, ChainType
      <4> QED
        BY <3>2, <3>5, <4>1, <4>2
    <3>8. mined'[c] <= accepted'[c]
      BY <3>1, <3>3, <3>5
    <3>9. Solvent'
      <4> SUFFICES ASSUME NEW b \in Accounts
                   PROVE  mined'[b] <= accepted'[b] /\ Pending(b)' <= funds'[b]
        BY DEF Solvent
      <4>1. CASE b = c
        BY <4>1, <3>7, <3>8
      <4>2. CASE b # c
        <5>1. Pending(b)' = Pending(b)
          BY <4>2, <3>4, <3>5 DEF Pending
        <5> QED
          BY <4>2, <3>4, <3>5, <5>1 DEF PoolInv, Solvent
      <4> QED
        BY <4>1, <4>2
    <3>10. ChainType'
      BY <2>1, <2>4, <3>5 DEF PoolInv, ChainType
    <3> QED
      BY <1>3, <2>2, <3>9, <3>10, RowsStutter DEF Broadcast, PoolInv
  <2> QED
    BY <1>3, <2>1, <2>3, <2>4 DEF Broadcast
<1>4. CASE ReleaseRelayerLock(r)
  <2>1. a \in Accounts
    BY <1>4, HolderHasAccount DEF ReleaseRelayerLock, At, Holding, PoolInv
  <2>2. RowType'
    <3>1. busy' \in [Accounts -> BOOLEAN] /\ age' \in [Accounts -> 0 .. ZombieLock + 1]
      BY <1>4, FreedIsTyped DEF ReleaseRelayerLock, Unlock, PoolInv
    <3>2. Deducted(tracked[a]) \in Nat
      BY <2>1, RelayerAssumption DEF Deducted, PoolInv, RowType
    <3>3. tracked' \in [Accounts -> Nat]
      BY <1>4, <3>2 DEF ReleaseRelayerLock, PoolInv, RowType
    <3>4. broadcasts' \in Nat /\ lastBroadcastAt' \in [Accounts -> 0 .. broadcasts']
      <4>1. broadcasts \in Nat /\ lastBroadcastAt \in [Accounts -> 0 .. broadcasts]
        BY DEF PoolInv, RowType
      <4>2. broadcasts' = broadcasts + 1
            /\ lastBroadcastAt' = [lastBroadcastAt EXCEPT ![a] = broadcasts + 1]
        BY <1>4 DEF ReleaseRelayerLock
      <4>3. \A b \in Accounts : lastBroadcastAt'[b] \in 0 .. broadcasts'
        <5> SUFFICES ASSUME NEW b \in Accounts
                     PROVE  lastBroadcastAt'[b] \in 0 .. broadcasts'
          OBVIOUS
        <5>1. CASE b = a
          BY <2>1, <4>1, <4>2, <5>1
        <5>2. CASE b # a
          BY <4>1, <4>2, <5>2
        <5> QED
          BY <5>1, <5>2
      <4>4. lastBroadcastAt' = [b \in Accounts |-> lastBroadcastAt'[b]]
        BY <4>1, <4>2
      <4>5. lastBroadcastAt' \in [Accounts -> 0 .. broadcasts']
        BY <4>3, <4>4
      <4> QED
        BY <4>1, <4>2, <4>5
    <3> QED
      BY <3>1, <3>3, <3>4 DEF RowType
  <2>3. RestType'
    BY <1>4, <2>1, ReturnedIsTyped DEF ReleaseRelayerLock, PoolInv
  <2> QED
    BY <1>4, <2>2, <2>3, ChainStutters DEF ReleaseRelayerLock, PoolInv
<1>5. CASE ReleaseLockNoCharge(r)
  <2>1. RowType'
    BY <1>5, FreedIsTyped DEF ReleaseLockNoCharge, Unlock, PoolInv, RowType
  <2>2. RestType'
    BY <1>5 DEF ReleaseLockNoCharge, Goto, PoolInv, RestType, RelayType, Done
  <2> QED
    BY <1>5, <2>1, <2>2, ChainStutters DEF ReleaseLockNoCharge, PoolInv
<1>6. CASE WouldRevert(r) \/ CallFails(r)
  <2>1. a \in Accounts
    BY <1>6, HolderHasAccount DEF WouldRevert, CallFails, At, Holding, PoolInv
  <2>2. RestType'
    BY <1>6, <2>1
       DEF WouldRevert, CallFails, Mishap, Goto, PoolInv, RestType, RelayType, Holding
  <2> QED
    BY <1>6, <2>2, RowsStutter, ChainStutters DEF WouldRevert, CallFails, PoolInv
<1>8. CASE ReleaseRefused(r)
  <2>1. a \in Accounts
    BY <1>8, HolderHasAccount DEF ReleaseRefused, At, Holding, PoolInv
  <2>2. RowType'
    BY <1>8, FreedIsTyped DEF ReleaseRefused, Unlock, PoolInv, RowType
  <2>3. RestType'
    BY <1>8, <2>1, ReturnedIsTyped DEF ReleaseRefused, PoolInv
  <2> QED
    BY <1>8, <2>2, <2>3, ChainStutters DEF ReleaseRefused, PoolInv
<1>7. CASE Die(r)
  <2>1. RestType'
    BY <1>7 DEF Die, Mishap, Goto, PoolInv, RestType, RelayType, Done
  <2> QED
    BY <1>7, <2>1, RowsStutter, ChainStutters DEF Die, PoolInv
<1> QED
  BY <1>1, <1>2, <1>3, <1>4, <1>5, <1>6, <1>7, <1>8 DEF Progress

LEMMA ClockKeepsPool ==
  ASSUME PoolInv, Tick \/ ReapZombieLocks
  PROVE  PoolInv'
<1>1. CASE Tick
  <2>1. age' \in [Accounts -> 0 .. ZombieLock + 1]
    BY <1>1, RelayerAssumption DEF Tick, PoolInv, RowType
  <2> QED
    BY <1>1, <2>1, ChainStutters DEF Tick, PoolInv, RowType, RestType
<1>2. CASE ReapZombieLocks
  <2>1. age' \in [Accounts -> 0 .. ZombieLock + 1] /\ busy' \in [Accounts -> BOOLEAN]
    BY <1>2, RelayerAssumption DEF ReapZombieLocks, IsZombie, PoolInv, RowType
  <2> QED
    BY <1>2, <2>1, ChainStutters DEF ReapZombieLocks, PoolInv, RowType, RestType
<1> QED
  BY <1>1, <1>2

LEMMA MiningKeepsPool ==
  ASSUME PoolInv, NEW a \in Accounts, MineTx(a) \/ TopUp(a)
  PROVE  PoolInv'
<1>1. RestType' /\ RowType'
  BY RowsStutter DEF MineTx, TopUp, PoolInv, RestType
<1>2. \A b \in Accounts : funds[b] \in Nat /\ accepted[b] \in Nat /\ mined[b] \in Nat
  BY DEF PoolInv, ChainType
<1>3. CASE MineTx(a)
  <2>1. PICK cost \in 1 .. EstCost : funds' = [funds EXCEPT ![a] = funds[a] - cost]
    BY <1>3 DEF MineTx
  <2> DEFINE n == accepted[a] - mined[a]
  <2>2. n \in Nat /\ n - 1 \in Nat /\ n > 0
    BY <1>2, <1>3 DEF MineTx, PoolInv, Solvent
  <2>3. mined' = [mined EXCEPT ![a] = mined[a] + 1] /\ UNCHANGED accepted
    BY <1>3 DEF MineTx
  <2>4. EstCost \in Nat /\ n * EstCost <= funds[a]
    BY RelayerAssumption DEF PoolInv, Solvent, Pending
  <2>5. (n - 1) * EstCost = n * EstCost - EstCost /\ (n - 1) * EstCost \in Nat
        /\ n * EstCost \in Nat
    BY <2>2, <2>4, TimesSteps, TimesIsNat
  <2>6. (n - 1) * EstCost <= funds[a] - cost /\ funds[a] - cost \in Nat
    <3> HIDE DEF n
    <3> QED
      BY <1>2, <2>4, <2>5
  <2>7. ChainType'
    BY <1>2, <2>1, <2>3, <2>6 DEF PoolInv, ChainType
  <2>8. mined'[a] = mined[a] + 1 /\ funds'[a] = funds[a] - cost
    BY <2>1, <2>3 DEF PoolInv, ChainType
  <2>9. accepted'[a] - mined'[a] = n - 1
    BY <1>2, <2>3, <2>8
  <2>10. Solvent'
    <3> SUFFICES ASSUME NEW b \in Accounts
                 PROVE  mined'[b] <= accepted'[b] /\ Pending(b)' <= funds'[b]
      BY DEF Solvent
    <3>1. CASE b = a
      BY <1>2, <2>2, <2>3, <2>6, <2>8, <2>9, <3>1 DEF Pending
    <3>2. CASE b # a
      <4>1. mined'[b] = mined[b] /\ funds'[b] = funds[b]
        BY <2>1, <2>3, <3>2 DEF PoolInv, ChainType
      <4> QED
        BY <2>3, <4>1 DEF PoolInv, Solvent, Pending
    <3> QED
      BY <3>1, <3>2
  <2> QED
    BY <1>1, <2>7, <2>10 DEF PoolInv
<1>4. CASE TopUp(a)
  <2>1. UNCHANGED <<accepted, mined>> /\ funds' = [funds EXCEPT ![a] = InitialFunds]
    BY <1>4 DEF TopUp
  <2>2. \A b \in Accounts : funds[b] <= funds'[b] /\ funds'[b] \in Nat
    BY <1>2, <1>4, <2>1, RelayerAssumption DEF TopUp, PoolInv, ChainType
  <2>3. ChainType'
    BY <2>1, RelayerAssumption DEF PoolInv, ChainType
  <2>4. Solvent'
    <3> SUFFICES ASSUME NEW b \in Accounts
                 PROVE  mined[b] <= accepted[b] /\ Pending(b) <= funds'[b]
      BY <2>1 DEF Solvent, Pending
    <3>1. mined[b] <= accepted[b] /\ Pending(b) <= funds[b]
      BY DEF PoolInv, Solvent
    <3>2. Pending(b) \in Nat
      BY <1>2, <3>1, TimesIsNat, RelayerAssumption DEF Pending
    <3> QED
      BY <1>2, <2>2, <3>1, <3>2
  <2> QED
    BY <1>1, <2>3, <2>4 DEF PoolInv
<1> QED
  BY <1>3, <1>4

LEMMA ReconcileKeepsPool ==
  ASSUME PoolInv, Reconcile \/ SkipBalance
  PROVE  PoolInv'
<1>1. NextAccount \in Accounts
  BY RelayerAssumption DEF NextAccount, Accounts, PoolInv, RestType
<1>2. funds[reconciler.account] \in Nat
  BY DEF PoolInv, ChainType, RestType
<1>3. CASE ReadBalance
  <2>1. RestType'
    BY <1>2, <1>3 DEF ReadBalance, PoolInv, RestType
  <2> QED
    BY <1>3, <2>1, RowsStutter, ChainStutters DEF ReadBalance, PoolInv
<1>4. CASE SkipBalance
  <2>1. RestType'
    BY <1>1, <1>4 DEF SkipBalance, Mishap, PoolInv, RestType
  <2> QED
    BY <1>4, <2>1, RowsStutter, ChainStutters DEF SkipBalance, PoolInv
<1>5. CASE SetReconciledBalance
  <2>1. RestType'
    BY <1>1, <1>5 DEF SetReconciledBalance, PoolInv, RestType
  <2>2. reconciler.read \in Nat
    BY <1>5 DEF SetReconciledBalance, PoolInv, RestType
  <2>3. RowType'
    BY <1>5, <2>2 DEF SetReconciledBalance, Reconciled, PoolInv, RowType
  <2> QED
    BY <1>5, <2>1, <2>3, ChainStutters DEF SetReconciledBalance, PoolInv
<1> QED
  BY <1>3, <1>4, <1>5 DEF Reconcile

\* Type correctness; that no balance goes below zero is the part that is not
\* obvious, and rests on what the chain refuses (Accepts).
THEOREM PoolIsTyped == Spec => []TypeOK
<1>1. PoolInv /\ [Next]_vars => PoolInv'
  <2>1. PoolInv /\ UNCHANGED vars => PoolInv'
    BY RowsStutter, ChainStutters DEF vars, PoolInv, RestType
  <2> QED
    BY <2>1, RelayKeepsPool, ClockKeepsPool, MiningKeepsPool, ReconcileKeepsPool
       DEF Next
<1>2. PoolInv => TypeOK
  BY DEF PoolInv, RowType, ChainType, RestType, TypeOK
<1> QED
  BY <1>1, <1>2, InitPool, PTL DEF Spec
=============================================================================
