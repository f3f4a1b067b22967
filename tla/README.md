# Pampalo: formal models and proofs

Pampalo is private money on the EVM.  Public ERC-20 tokens (and ETH) are
*shielded* into a queue of escrowed entries; after a contest window an entry
lands as a note (a Poseidon commitment) in a Merkle tree; notes are spent with
zero-knowledge proofs, either into other notes (`transfer`) or back to public
addresses (`unshield`, `unshieldBundled`).  Monthly USD caps bound what an
address may move in each direction.  Around the contract stand a wallet, an
indexer that copies the contract's events into a database, a pool of relayers
that send transactions for the users, and a compliance scan that contests
suspicious shields.

This directory models the parts that carry state and can go wrong, checks them
with TLC on small instances, and proves the central results for every value of
the constants with TLAPS.

## 1. Inventory

Paths are relative to `src/`.  "Hard" names what a test of the part would
hardly reach; PROJECT.json lists each of those hazards at its line.

| Component | State | Operations | Hard | What makes it correct |
|---|---|---|---|---|
| **Pampalo core** `contracts/contracts/Pampalo.sol` | escrowed entries, caps and usage buckets, wait time, waivers, halt flag, nullifiers, token balances | `shield`, `shieldNative`, `executeShield`, `executeShieldImmediate`, `cancelShield`, `contestShield`, `transfer`, `unshield`, `unshieldBundled`, admin knobs | four ways to close an entry race; knobs turn and prices move while entries wait; months roll over; spends are re-sent | the contract owns exactly what it owes; an entry lands once or is refunded once; the contest window; budgets charge and give back the right cents; no escrow is trapped |
| **Note tree** `contracts/contracts/PoseidonMerkleTree.sol`, `shared/classes/PoseidonMerkleTree.ts` | epoch, next index, cached subtrees, known roots; the wallet's node map | `_insert`, `insert`, `getRoot`, `getProof` | rollover at the last leaf; leaves arriving out of order at a wallet | incremental root = reference root; no root forgotten; an append-only log |
| **Circuits** `circuits/*` | none | deposit, transfer, withdraw, transfer_external, swap | balance per asset across shared slots; slots that carry no note | what the wallet builds is accepted, balances and is its own |
| **Wallet spend preparation** `src/lib/transfer-prep.ts`, `unshield-prep.ts`, `swap-prep.ts` | notes, drafted spends | select inputs, make outputs, prove | several devices prove over the same notes | inputs are owned, landed, of one tree |
| **Oracle, calendar** `contracts/contracts/oracles`, `libraries/DateMath.sol` | price feed; none | `priceUsdCents`, `monthKey` | stale answers, rounding to a cent, leap years | cents rounded down; the month key is the calendar's |
| **Shield indexer** `convex/shieldQueue` | cursor, queue rows, leaves, nullifiers, assets, activity | `refreshShieldQueue` (cron, shadow pass, manual button), upserts | several passes run at once from stale cursors; a log whose handling throws; one pass spread over many transactions | the rows are those of the chain up to the cursor |
| **Relayer pool** `convex/relayer` | lock, nonce-owning account, balance | acquire, relay, release, reap, reconcile | a reaper frees locks by time while the holder works | one holder per account unless its lock was taken from it; nonces stay fresh; balances settle |
| **Compliance scan** `convex/compliance` | blocklist, oracle cursor, verdicts | index, scan, contest | passes over the oracle overlap and die; a batch of fixed size; the contest races the landing | the blocklist is the oracle's; the first scan that takes a flagged shield in contests it |
| **Private swap** `PampaloSwapBase.sol`, `SwapV3/V4` | none of its own | `privateSwap` | the output is fixed in a proof made before the venue answers; the trade moves everybody's tokens | solvency of the contract after a swap |
| **Private payments** `PampaloPayments.sol`, `PrivatePaymentAcceptor.sol` | open payments | `verifyAndBurn`, redeem | double redeem, expiry | a burn pays one order once |
| **Usernames** `contracts/contracts/pampalo.eth` | names, owners | register, renew, resolve | commit/reveal timing | one live owner per name |
| **Accounts and preferences** `convex/auth`, `convex/preferences`, `src/lib/preferences*.ts` | ceremonies, sessions; per device a cache and a record of the preferences, one encrypted blob at the server | begin/finish; pull, merge, push | devices push blobs they merged earlier; a sign-out empties the memory | nobody's unpushed setting is lost, all devices agree in the end |
| **Wallet synchronisation** `src/lib/sync-shield-notes.ts`, `idb-notes.ts`, `use-shield-queue-sync.ts` | the notes of a device, a cursor | sync, watch, optimistic writes of the sheets | each write awaits IndexedDB between reading and replacing the list; closed pages; rows, leaves, payloads and nullifiers arrive apart; the sheets write an outcome before it is mined | the device shows its notes as the chain has them |
| **Agent SDK, CLI** `sdk/src`, `cli/src` | SQLite: notes, leaves, cursor | sync, shield, transfer, unshield | a command dies between broadcast and record; scans die, throw and repeat; transactions are dropped; rows without a leaf index | what is proved lies in a prefix of the tree; the balance is the chain's |
| Balances, prices, catalog, send proxies; user interface, site | caches | reads | none that changes protocol state | - |

How they interact.  The wallet and the relayers call the contract; the contract
calls the tree, the oracle, the calendar and the verifiers within the same
transaction.  The indexer polls the contract's events and writes the database;
the wallet reads leaves, payloads and nullifiers from there and builds its own
copy of the tree to prove against.  The compliance scan reads the queue rows and
sends `contestShield` through its own key, with a blocklist it indexes from a
sanctions oracle.  An agent uses neither server: it scans the contract's logs
itself and broadcasts with its own key.

## 2. Modules

| Module | Models | Role |
|---|---|---|
| `MonthlyCaps` | `_budgetView`, `_bumpUsage`, `_refundShieldCap` | pure operators on one usage bucket |
| `Pampalo` | the core contract, `privateSwap`, the oracle, the wallets that prove spends | the detailed specification |
| `ShieldLifecycle` | - | abstract: a queued note lands once or is refunded, never both |
| `PampaloLifecycle` | - | refinement mapping Pampalo -> ShieldLifecycle, inductive invariant |
| `Calendar` | `DateMath` | the month key, computed as the code does, and a calendar that counts days |
| `MCPampalo` | - | instance for TLC of `Pampalo` with `Calendar`, with next-state relations for parts of it |
| `MerkleTree` | the contract's tree and the wallet's copy | detailed specification of the tree |
| `LeafLog` | - | abstract: an append-only log whose prefix roots stay accepted |
| `MCMerkleTree` | - | instance for TLC |
| `ShieldIndexer` | `convex/shieldQueue` | index passes over a chain, one mutation at a time |
| `RelayerPool` | `convex/relayer` | relays, locks, reaper, reconciler |
| `ComplianceScan` | `convex/compliance` | index passes over the oracle, the scan, the queue it protects |
| `WalletSync` | `src/lib/sync-shield-notes.ts`, `idb-notes.ts`, `use-shield-queue-sync.ts`, the sheets | the jobs of one page over one store |
| `PreferencesSync` | `src/lib/preferences*.ts`, `convex/preferences` | devices that edit, pull and push |
| `AgentAccount` | `sdk/src` | scans and commands over one SQLite file |
| `PampaloProofs` | - | theorems on the queue (types, lives of shields, refinement, window, budget views) and on money (conservation, surplus, who pays, the monthly budget) |
| `MerkleProofs`, `IndexerProofs`, `RelayerProofs`, `ComplianceProofs`, `WalletProofs`, `PreferencesProofs`, `AgentProofs` | - | theorems on the module each is named after |

### Correspondence: `Pampalo`

One action is one external call, with everything it calls: the EVM reverts the
whole call when a `require` fails, so a call that fails is a step that does not
exist.  What interleaves are the calls of different actors, the clock (`Tick`),
the oracle (`PriceMoves`, where price 0 is an answer the adapter rejects), and
the *proved* spends: `Prove` is the wallet producing a proof, and `Transfer`,
`Unshield` and `UnshieldBundled` are its delivery, at any later time, by any
sender, any number of times or never.  Two devices of one owner may hold
proofs over the same notes.

* `pendingShields` has the entries whose storage is set.  Landing deletes the
  entry; cancelling or contesting sets `cancelled` and keeps it, as the code
  does.  `Live(id)` is the pair of checks every resolving function starts with.
* `Refund` is the common body of `cancelShield` and `contestShield`:
  `_refundEscrow`, `_refundShieldCap` (at the cents charged when the entry was
  queued), the mark.
* `leaves` is the log of all commitments across epochs (`LeafLog`); a root is
  the length of the prefix it is the root of.  `MerkleTree` justifies it.
* A nullifier is represented by the note it burns.
* `Spend.circuit` is the verifier a proof is for; `Builds` says which spends the
  repository's own builders make of it (`transfer-prep.ts`, `unshield-prep.ts`,
  `swap-prep.ts`, the SDK's `intents.ts`, the helpers of the contract tests) and
  the circuit accepts.  See section 5, *Spends*.
* `Paid` is the pair of early `continue`s of `_processExitsAndCharge`: an exit to
  `address(0)` burns its note, pays nothing and is not charged.  An exit slot is
  rounded down to a cent on its own and the three slots are charged together
  (`PriceUsdCents`, `TotalCents`).
* `queuedAs` is a history variable: what each id was when it was queued.
* `PrivateSwap` is `privateSwap` with the venue of its adapter: the proof fixes
  what is given (`swapIn`) and the amount of the output note, which is the floor
  of the trade; the venue answers with any member of `Fills`, and what it gives
  above the floor stays in the contract.  `Circuits` has `"swap"` in a deployment
  with an adapter.
* Months have a fixed length here, so that one ends in every behaviour; what
  makes that the code's month is `MonthsAreCalendarMonths`, over `Calendar`.

### Correspondence: `MerkleTree`

`Climb` is the loop shared by `_insert`, the mirror's `insert` and the circuits'
`compute_merkle_root`.  `filledSubtrees` and `mirror` are the two sparse node
maps, a missing node reading as the zero subtree of its level.  The mirror may
be filled with the leaves of an epoch in any order, twice, partially.

### Correspondence: `ShieldIndexer`

A Convex mutation is a transaction; an action (`refreshShieldQueue`) is a
sequence of mutations, queries and RPCs with awaits in between.  So a pass is a
process with a program counter, and each step of it is one query, one RPC or
one mutation:

* `Begin` reads the deployment row, cursor included, which the pass keeps;
  `ReadHead` is `eth_blockNumber` and the choice of the first block, cold start
  included; `GetLogs` takes the snapshot of one window; `Ingest` is the *next
  mutation* of the log at hand (`Writes` lists those of each event, in order);
  `AdvanceCursor` is the forward-only `_advanceCursor`.
* `FailLog` is the `catch` around one log: what it had written stays, the loop
  goes on.  `Abort` is everything else that ends a pass early.
* Several passes run at once: the cron (which Convex never overlaps with
  itself), its shadow tick 30 seconds later, and the public Refresh button.
* The chain is a list of logs with the block each was mined in, what each
  contract call emits in the contract's order.  `Reorg` replaces the newest
  block, never one under `ConfirmationDepth` others.
* Rows are reduced to their keys, and to the fields a later write may change:
  the state of a queue entry, the preview of an activity row, the enabled flag
  of an asset.  `floor` and `failed` are history variables.

### Correspondence: `RelayerPool`

A relay is a process in the same sense: `Acquire` and the releases are
mutations; the simulation, the nonce, the signature and the broadcast happen
between them, and each takes any time, for no call has a timeout.  `Sign` reads
the pending nonce, `Broadcast` is accepted when that nonce is still the next one
and the account can pay for what is pending.  A relay may be refused by its
simulation (`WouldRevert`, then `ReleaseRefused`), have a call fail
(`CallFails`), lose the reply of a broadcast the chain accepted, or `Die` with
its lock.  A release may commit and its reply be lost (`Returned`): the `catch`
then releases the account a second time, whoever holds it by now.  `Tick` ages
the locks, of living relays too, and `ReapZombieLocks` frees the ones beyond the
threshold, all in one mutation.  `astray` is a history variable: the relays that
do not have their account to themselves, because the reaper or a release whose
reply was lost freed it under them, or because they acquired it after that.  The
reconciler visits the accounts in turn, reading a balance and writing it in two
separate steps.

### Correspondence: `ComplianceScan`

The unit of time is a period of the cron.  Nothing makes a scan, the mining of
what it sent or the indexer keep within a period: `Tick` waits for none of them,
and counts for each shield the periods it lost that way (`missed`).  An index pass
takes a window of oracle events, writes their rows one mutation at a time, then
its cursor; the cron's pass and one on demand overlap.  The scan reads a batch of
queued rows (`Batch` is the 200 of the code), screens them against the blocklist,
and sends one `contestShield` after the other; it may die or lose a reply at each.
The wait of a shield is that of the contract when it was queued, none for a
depositor who was fast-tracked (`Pampalo.sol:410-415`), and
`ExecuteShieldImmediate` waives it.  Shields are numbered in the order in which
their rows were queued, so the batch is kept as the set of its rows and worked
through from the least (`AtHand`) on.

### Correspondence: `WalletSync`

`patchNoteByLeaf` and `appendNote` compute the whole next list, await IndexedDB
and replace the list in memory.  So a write is two steps of its job: `Writes`
keeps the list as it was, `FinishWrite` replaces.  The jobs of a page are the
sync (rows behind the cursor, leaves, payloads, nullifiers, in the code's order),
the watcher of the user's own rows, and the sheets' optimistic writes.  The world
around them is the contract's view of each note, the indexer that writes a note's
logs one after the other, and the list of enabled deployments.

A sheet checks when it is opened (`UserShield`, `UserCancel`, `UserSpend`), signs,
broadcasts (`UserBroadcast`) and writes the outcome it expects (`UserRecord`), all
before the transaction is mined: `Mine` decides later what it does, `Drop` that it
does nothing, and a cancel or a spend that comes too late reverts.  A transaction
is the set of notes it names, each with its role; those in flight are `pending`,
those that never took effect `failed`.  The watcher writes the whole list also
when it only corrects `unlockTime` or `queuedTxHash`.  `queuedAt` is the time of
insertion, which two rows may share (`tied`).

### Correspondence: `PreferencesSync`

`memory` and `record` are the four fields the code keeps in the page and in
IndexedDB.  A ceremony is the query, its merge, the mutation, and `markPushed`,
each a step, with edits in between.  `served` is every blob the server's row has
held; the revision is its length.

### Correspondence: `AgentAccount`

A scan reads the cursor (`Begin`), the head and all logs of a range (`Gather`,
which inserts the leaves: the code does that in one synchronous loop), handles
the shields and then the payloads one after the other (`Handle`, an await before
each), and ends with the nullifiers and the cursor (`Finish`, synchronous).  A
command selects a note, proves, broadcasts (`SendSpend`; the node simulates, so a
burnt note throws) and records (`RecordSpend`).  `Mine...` is what the contract
does with it, `Revert` the loser of two spends of one note, `Drop` a transaction
that is never mined.

A row without a leaf has SQL `NULL` in its column, which better-sqlite3 returns as
`null`, so neither `leafIndex !== undefined` (`account.ts:370`) nor `=== undefined`
(`sync.ts:247`) tells it from others.  Hence `Selectable` takes such a row, and
its proof fails (`ProvingFails`); and `Finish` throws at `BigInt(null)`
(`sync.ts:250`) before it saves the cursor, when the range has a nullifier and some
row that is not spent is `Leafless`.  The rows the loop came to before are marked.

## 3. What the runs check

| Run (cfg) | Question | Properties | Size |
|---|---|---|---|
| `queue_and_knobs` (`PampaloQueue`) | do the caps and the contest window survive any turn of the knobs, price moves and month ends? can anything trap an escrow for ever? are the months those of the calendar? | `TypeOK`, `BudgetNotOvercounted`, `BudgetViewAgrees`, `ContestWindow`, `EscrowResolved`, `MonthsAreCalendarMonths` | 478,656 states |
| `ledger` (`PampaloLedger`) | does any order of queueing, resolving, proving, swapping and re-sending, over two assets and several exits, create, strand or move value? are exits charged to the caller in full? is the contract the abstract queue? | `Conservation`, `OnlyTheSpenderPays`, `LandedOnce`, `ImplementsLifecycle`, `SurplusOnlyGrows`, `ExitsAreCharged` | 272,395 |
| `no_free_top_up` (`PampaloFreeTopUp`) | does the guard of `_refundShieldCap` do what its comment says? | `NoFreeTopUp` (violated) | - |
| `note_tree` (`MerkleTree`) | is the incremental tree the Merkle tree of its leaves, across a rollover? can a wallet with part of the leaves prove? | `RootIsReference`, `MirrorOpensNotes`, `ImplementsLog` | 34,213 |
| `indexer` (`ShieldIndexer`) | what can overlapping, dying, failing passes, a cold start and reorganisations do to the tables? does every confirmed log get indexed? | `TypeOK`, `LossIsContained`, `RowsOnChain`, `AlertedOnce`, `ConfirmedIsIndexed` | 425,605 |
| `relayer_pool` (`RelayerPool`) | does a relay have its account to itself until it is reaped or a lost reply releases it? do accounts come back, do balances settle? | `TypeOK`, `NeverCollide`, `NonceStaysFresh`, `AccountsComeBack`, `BalancesSettle` | 346,074 |
| `relayer_mutex` (`RelayerMutex`) | is the lock the mutex its comment says? | `MutexAsClaimed` (violated) | - |
| `compliance` (`ComplianceScan`) | is a shield of a listed address contested before it lands, as far as scans begin, finish and have room? is the list the oracle's, whatever dies or overlaps? | `TypeOK`, `FlaggedNeverLands`, `MirrorAtCursor` | 3,213,783 |
| `wallet_sync` (`WalletSync`) | does a device lose sight of a note, count one that is not there, or take one back? does it end up right? | `TypeOK`, `HydratedBehindCursor`, `SpendableHasLanded`, `StepsForward`, `WalletConverges` | 203,979 |
| `preferences` (`PreferencesSync`) | do devices that push blobs merged earlier lose settings? do they agree in the end? | `TypeOK`, `BaselineIsServers`, `UnpushedSettingsStay`, `DevicesAgree` | 252,672 |
| `agent_account` (`AgentAccount`) | can what an agent selects be proved, and is its balance the chain's, whatever dies between broadcast and record? | `SpendableProves`, `QuietBalance`, `BurntLeavesBalance` | 299,084 |
| `agent_queued` (`AgentQueued`) | does a sync after the wait find a shield that an earlier sync saw queued? | `LandedIsShown` (violated) | - |

### Findings

**Caps.**  `Pampalo.sol:747-749` says that the charge of a shield resolved
after its month "belonged to the old bucket" and that refunding it into the new
month "would be a free top-up; skip".  The guard compares the month of the
*bucket* with the present month.  As soon as the user has shielded anything in
the new month the two agree, and the old charge is subtracted from the new
usage.  The trace TLC finds for `NoFreeTopUp`: queue in month 1, queue in month
2, cancel the first entry; the bucket of month 2 falls below what was shielded
in month 2.

**The lock of a relayer account.**  `relayer/store.ts:13-14` calls
`_acquireAvailable` "the mutex that guarantees two concurrent relays never collide
on the same account".  The reaper (`store.ts:185-195`) frees a lock by its age
alone, and nothing ends a relay that takes longer: the RPC calls of
`convex/lib/alchemy.ts` have no timeout.  The trace TLC finds for
`MutexAsClaimed`: a relay acquires the only account, the threshold passes, the
reaper frees the lock, a second relay acquires the account while the first is
still about to sign.  `NeverCollide` is what does hold.

**Queued shields of an agent.**  `sdk/src/sync.ts:172` decides what a shield has
become while it handles its `ShieldQueued` log, from the logs of the same range;
the cursor is behind that log afterwards, and no later scan looks at stored
notes that are queued.  `cli/src/index.ts:256` tells the user to run a sync after
the wait.  If one also ran during it, the note stays `queued`, and out of the
balance, for ever (the leaf is in the table; only the note's row is stale).

### Observations

What came up while modelling and is excepted by name in a property, or assumed:

* *Asset replays* (`shieldQueue/store.ts:16-17`, "idempotent"): in
  `pampaloAssets` the last writer wins, so an overlapping pass may put an older
  `AssetSupported` over a newer `AssetDisabled`.  No property claims the order.
* *Skipped logs* (`shieldQueue/store.ts:286-289`, "the next tick"): a log that
  throws is skipped and the cursor advances over it.  `LossIsContained` bounds
  the damage: nothing else goes missing.
* *Nullifier backfill* (`refresh.ts:422`): the one-off scan goes up to the head,
  without the confirmation depth of the live indexer.
* *Relayer balance* (`relayer/store.ts:131-132`, "under-counts"): reconciling
  between a broadcast and its mining over-counts until the next reconciliation.
  `BalancesSettle` shows that it does not last.
* *Screening batch* (`compliance/store.ts:363-365`): rows of disabled
  deployments stay queued for ever and take the batch's places.  A shield left out
  for that reason counts the period as missed, like one whose scan died, and
  after enough of them `FlaggedNeverLands` promises it nothing.
* *Waits of none* (`compliance/store.ts:363-365`, "the wait is much longer than the cron
  cadence"): a depositor who was fast-tracked does not wait, and a booth operator
  waives the wait; such shields land before any scan, listed or not.
* *Wallet writes* (`use-shield-queue-sync.ts:29`, "always advance, never
  retract"): two jobs that write at once overwrite each other
  (`idb-notes.ts:345-348`), so a note may go back or disappear; such notes are
  `clobbered`, which `StepsForward` and `HydratedBehindCursor` except.
* *Optimistic writes* (`SendReviewStep.tsx:512-557`,
  `ShieldConfirmSheet.tsx:371-401`): what a sheet expects is written right after
  the broadcast.  Until the transaction is mined the change is shown as spendable
  and is not in the tree, and if it reverts or is dropped that stays so;
  `SpendableHasLanded` excepts notes of transactions that are in flight or failed,
  `WalletConverges` those of failed ones.
* *Ties* (`shieldQueue/store.ts:207`): two rows of one millisecond have one
  `queuedAt`, and a sync whose cursor is at the first skips the second;
  `HydratedBehindCursor` excepts notes that `tied`.
* *Sign-out* (`preferences.ts:273-274`, "notices the dirty IDB record"): a
  sign-in whose sync runs before anything subscribes merges with an empty cache
  and overwrites the dirty record; such devices are `forgotten`.
* *Agent store*: two overlapping scans break `QuietBalance`, because `setCursor`
  is not forward-only and an upsert overwrites `spent`; so does a transaction
  that is dropped, whose note stays spent and whose change stays in the balance.
  `upsertNote` NULLs the columns it is not given, unlike its comment
  (`sdk/src/store.ts:132-133`), so recording a change after a scan has found it
  erases its leaf, and "the next sync" (`account.ts:387`) has passed it.  The
  amount is still shown, `#selectNote` takes it, and its proof fails.  As long as
  a row is without a leaf, every scan that meets a nullifier of anybody throws
  before `setCursor` (`sync.ts:250`, `:264`) and is repeated from where it was;
  `BurntLeavesBalance` has as its premise that this ends.

### Bounds and why they are enough

* Two users are enough for every interaction the properties compare: one's own
  operations against somebody else's.  They are symmetric (symmetry is used in
  the safety runs only).  `PampaloLedger` has two assets, two exits and two
  outputs a spend, since only there may one asset, or one slot, pay for another.
* Two shields (`MaxShields`) let one entry be resolved in each way while the
  other waits, and let a charge of one month meet one of the next.
* `MonthLength` and `MaxTime` put a month boundary inside every behaviour and
  let a wait straddle it.  `Waits` contains a value below the minimum, so that
  the clamp of `setShieldWaitTime` is exercised.
* Caps are small multiples of the prices, so that a cap is met exactly,
  exceeded, and lowered under the usage.  `PriceScale = 2` in `PampaloLedger`
  makes amounts worth half a cent more than whole ones, so that two slots of one
  asset round down separately.  Its shields are of one unit each (`Amounts = {1}`):
  the sums differ by which notes and slots there are; other amounts are covered by
  the theorems.
* `MaxSpends` spends over at most `MaxOutputs` outputs and `MaxExits` exits; a
  proof stays in `proved`, so that re-sending and conflict are always possible.
* A tree of height 3 has 4 leaves an epoch; six insertions roll it over and use
  the new epoch's nodes.
* Two passes over three transactions in windows of one block: one pass can be in
  an older window than the other, a queue log and its resolution lie in different
  windows.  One mishap, of any kind, in any place.  A cold start can skip the
  first block and then has to read on from the second.
* Two accounts and two relays: one account is contended while the other is in
  any state, and two mishaps let a relay die next to one that fails.  Funds of
  twice the cost let an account fall under the floor, and `ZombieLock` of one
  tick separates fresh, old and zombie locks.
* Fills below, at and above the target in `PampaloLedger`: a trade may fail, and a
  surplus may be left behind.
* 4801 calendar months from 1970 on, a whole era of the algorithm, after which it
  repeats; times are reduced to days, as TLC's integers have 32 bits.
* One own shield and two received notes in `WalletSync`, of which a behaviour has
  the first (`Casts = {s1}`: shield, cancel, contest, spend) or the other two (a note
  and the change of its spend); at most one transaction in flight or failed
  (`MaxUnsettled`) and two mishaps.  Every job, every mishap and every
  interleaving of two writes meets each kind of note.
* Two devices, three edits and one mishap in `PreferencesSync`: a device can be
  behind, dirty and overtaken at once.
* A batch of one row, so that a second shield is left out; two addresses, two
  passes, windows of two events, one mishap, and at most three shields, events,
  edits and mishaps together in `ComplianceScan`.  A wait of two periods is the
  shortest that a scan of a later period has to meet; the theorem covers longer ones.
* Two notes, three blocks and two mishaps in `AgentAccount`: a shield, its landing,
  its spend with a change, and the change's own life.
* Bounds appear in the guards of `Tick`, `Shield`, `Spending`, `Insert`, `Mine`
  and `Mishap`, where a comment names them.  Deadlock checking is off where those
  bounds stop the model.

### Fairness

`FairSpec` asks for weak fairness of the clock, which the chain provides, and of
`ExecuteShield(id)` for each entry: the function is open to anybody, and the
shielder's wallet offers it as soon as the wait is over.  No fairness is asked of
the shielder's cancel, of the operators or of the oracle, and none is needed:
`executeShield` depends on neither the halt flag nor the asset's enabled flag
nor the price.

In `ShieldIndexer` the cron starts passes for ever and a pass goes on until it
ends or is aborted (Convex runs actions to completion or failure); aborts are
bounded by `MaxMishaps`, that is, they stop at some time.  Nothing is asked of
the chain.  In `RelayerPool` the two crons fire, the clock runs, accepted
transactions get mined, and a relay that does not die goes on; nothing is asked
of new relays failing or of the operator's top-ups.

In `WalletSync` the wallet is opened and the indexer goes on (weak fairness of
`SyncStart`, `WatchStart` and `Index`), IndexedDB answers (`FinishWrite`), and a job
that is not interrupted goes on (`SyncStep`, `WatchRow`, `UserRecord`).  These are
strongly fair because a job computes its next list when no other write is
under way, and a list can be written again and again meanwhile.  Nothing is asked
of the mining of a transaction, nor of a deployment being enabled again.
In `PreferencesSync` a device is used again and
again and a ceremony that does not fail goes on; edits and failures are bounded,
that is, they stop.  In `AgentAccount` scans start again and again and go on unless
aborted; nothing is asked of the node, the chain or the commands.

## 4. What is proved

Each theorem holds for every value of the constants: any set of users, assets,
amounts, prices, caps and waits, trees of any height, any number of leaves,
relays, passes, devices, notes and mishaps, any window, depth or batch, and any
value of the bounds.  What is
assumed of the constants is the named assumption of the module
(`PampaloAssumption`, `MerkleTreeAssumption`, `IndexerAssumption`, `RelayerAssumption`,
`ComplianceAssumption`, `WalletAssumption`, `PreferencesAssumption`: types,
positive sizes, a wait above its minimum), which TLC evaluates in the runs, and
where the table says so that scans do not overlap, or that there are finitely many
assets.  The theorems on money are about spends as the repository's builders make
them (section 5).

| Theorem | Statement | Argument |
|---|---|---|
| `TypeCorrect` | `Spec => []TypeOK` | inductive; includes that balances never go negative and that the wait time never falls below `MIN_SHIELD_WAIT_TIME` |
| `Invariance` | `Spec => []Inv` | inductive invariant, below |
| `LandsOnce` | `Spec => []LandedOnce` | conjunct of `Inv` |
| `NoNoteInEscrow` | `Spec => []EscrowOrNote` | conjunct of `Inv` |
| `Refinement` | `Spec => ImplementsLifecycle` | step by step from `Inv` |
| `WindowHolds` | `Spec => ContestWindow` | `WindowInv`: an entry's unlock time was fixed when it was queued |
| `BudgetViewsAgree` | `Spec => []BudgetViewAgrees` | arithmetic from the types |
| `SurplusIsSafe` | `Spec => SurplusOnlyGrows` | `Books`, below |
| `Conserves` | `Spec => []Conservation` | `SurplusIsSafe`'s accounts, exact as long as no swap or exit has forfeited a remainder |
| `SpenderPays` | `Spec => OnlyTheSpenderPays` | `Books`, with the weights of one user |
| `BudgetIsEarned` | `Spec => []BudgetNotOvercounted` | `Budget`, below |
| `ExitsPaid` | finitely many assets: `Spec => ExitsAreCharged` | from the types, below: the bucket of the caller |
| `RootsAreReference` | `Spec => []RootIsReference` | conjunct of `TreeInv`, below |
| `WalletOpensNotes` | `Spec => []MirrorOpensNotes` | from `TreeInv` and `MirrorInv`, below |
| `TreeImplementsLog` | `Spec => ImplementsLog` | step by step from `TreeInv`: the storage *is* the log |
| `IndexerTyped` | `Spec => []TypeOK` | weaker than the types in `IndexInv` |
| `LossContained` | `Spec => []LossIsContained` | conjunct of `IndexInv`, below |
| `RowsStemFromChain` | `Spec => []RowsOnChain` | from `IndexInv`: the rows stem from final logs |
| `AlertOnce` | `Spec => []AlertedOnce` | conjunct of `IndexInv`: who was alerted of has a row |
| `Mutex` | `Spec => []NeverCollide` | `LockInv`, below |
| `FreshNonces` | `Spec => []NonceStaysFresh` | conjunct of `LockInv` |
| `PoolIsTyped` | `Spec => []TypeOK` | `PoolInv`: funds stay natural because of `Solvent` |
| `ComplianceTyped` | `Spec => []TypeOK` | inductive |
| `MirrorHolds` | `Spec => []MirrorAtCursor` | `MirrorInv`, below |
| `FlaggedNeverLand` | `Spec => []FlaggedNeverLands` | `ScreenInv`, below |
| `DeviceTyped` | `Spec => []TypeOK` | weaker than `DeviceInv` |
| `SpendableLanded` | `Spec => []SpendableHasLanded` | `DeviceInv`, below |
| `NotesStepForward` | `Spec => StepsForward` | step by step from `DeviceInv` |
| `HydrationHolds` | `Spec => []HydratedBehindCursor` | `HydrationInv`, below |
| `PreferencesTyped` | `Spec => []TypeOK` | weaker than the types of `PrefsInv` |
| `BaselineTheorem` | `Spec => []BaselineIsServers` | `PrefsInv`, below |
| `UnpushedTheorem` | `Spec => UnpushedSettingsStay` | step by step from `PrefsInv` |
| `SpendsProve` | `Spec => []SpendableProves` | `LeafInv`, below; any number of overlapping scans |
| `QuietBalanceHolds` | one element in `Passes` at most: `Spec => []QuietBalance` | `QuietInv`, below |

**The queue.**  `LandedOnce` alone is not inductive: a spend could insert an
output equal to a leaf that is there already.  What excludes it is that secrets
are fresh, so `Inv` adds that every secret in use is below the counter
(`QueuedFresh`, `LeavesFresh`, `OutputsFresh`), that the queue entry is the note
it was queued with (`EntriesFaithful`), that outputs of distinct proofs are
disjoint and distinct from queued notes (`OutputsFresh`), and that a proof with
all inputs unspent has not been delivered (`SpendsPending`): delivering it burns
an input, and since inputs are never empty a second delivery fails.

**The books.**  `Books` adds to `Inv` that an entry escrows what its note is
worth (`EntriesBacked`), that what is burnt had landed (`BurntLanded`) and that a
proved spend balances, input against outputs, exits and the venue
(`SpendsBalanced`, from what `Builds` says of each kind of spend).  What the contract owes is then the worth of the notes of
live entries and of unspent leaves, a sum with a *weight* for each note; every
call moves some notes from one of the two sets to the other, or burns and
creates them, and the lemmas say by how much the sum of any weight changes
(`QueueWorth`, `NotesWorth`).  Weighing a note by its amount in one asset gives
`SurplusIsSafe`: a step leaves the difference as it was, or sends a spend that
leaves something to nobody (`Forfeited`: the venue answers above its target, or
an exit names no address, which `_processExits` skips).  `Conserves` follows: there
is no surplus before such a spend.  Weighing only the notes of one user gives
`SpenderPays`.  `Budget` compares a bucket with the sum of the shields of the
month that stand; it adds that an entry was charged what its history says
(`EntriesCharged`) and that no bucket is of a month to come (`BucketsPast`), so
that a refund into the bucket of the present month is one of a charge the sum
has lost in the same step, or of an older one, and never leaves more than was
earned.  `ExitsPaid` sums over assets what a call takes out of the contract, which needs a
finite set of them, and compares it with what the bucket of the caller gains,
while every other bucket stays.  The slots are spread over assets (`SlotCents`),
and an asset loses at most one cent to rounding for each of its slots after the
first (`DivCarry`), so all of them together at most one for each slot after the
first; a proof has `MaxExits` slots at most.

Sums, greatest elements and cardinalities are proved by induction on finite
*sets*.  The induction theorems of the library take an operator, which no prover
here can instantiate; `FiniteInduction` takes instead the family of the sets
for which a claim holds.  From it `PampaloProofs` derives what the sum of the
community modules, a recursion in an order left to `CHOOSE`, does when an
element comes, goes or changes.  The few such facts that other proof modules
need (a greatest element, the image of a finite set) are proved where they are
used, so that each of these modules rests on its component and the library only.

**The tree.**  The claim is about three functions that recurse on the level:
`zeros`, the path that `Climb` computes, and the nodes of the reference tree
(`ReferenceNodes`).  That each exists, and so satisfies its equation, and what it
computes is proved by induction on levels, again with a set in the place of the
operator (`UptoInduction`).  Three facts carry everything else.  A node depends
only on the leaves below it (`NodesLocal`), so a subtree without leaves is a zero
(`NodesEmpty`).  When one leaf is written, the climb from it, with the *old*
tree's nodes as siblings, gives the new tree's nodes on its path
(`ClimbUpdates`) and the others keep theirs (`NodesBeside`).  And the root
determines the leaves (`RootDetermines`): this is where the hash being free is
used, and what makes "accepted *only* if a prefix arrived" true.
`RootIsReference` is not inductive, since the next insertion reads siblings from
the storage.  `TreeInv` adds that *every* node, of every epoch, that the storage
holds or stands for by its absence is that of the reference tree (`StoreInv`),
epochs to come included, for a rollover starts to write there, and that epochs
fill up one after the other (`LogInv`).  `MirrorInv` says the same of the
wallet's copy, with the leaves that reached it in the place of the log; a leaf
that arrives twice puts what is there already.  On the abstract side `StoreInv`
at level 0 says that the storage is the log (`LogView`), so an insertion appends
to it.  Positions and levels meet in `\div` and powers of two; that
`2^(n+1) = 2 * 2^n` comes from the library's theorem on the number of subsets
of a finite set (`FS_SUBSET`).

**The indexer.**  `IndexInv` has three parts.  Of the chain: shields are
numbered in order (`KeysCount`), each is resolved once and later than it was
queued (`ResolvedOnce`), a payload comes with a nullifier (`PayloadsPaid`), and
the head is never further below its peak than the confirmation depth.  Of the
tables: every row stems from a *final* log, one at that depth below the peak
(`RowsFrom(Final)`), which no later reorganisation can take away; this, and not
`RowsOnChain`, is what a step preserves.  Of the passes: what lies before the
window a pass is about to read is settled, and of the window at hand every log
is settled or still to be handled (`WalkingOK`, `HandlingOK`); between the two
writes of a log the first stands.  All three are needed for the one hard step,
the resolution that finds no row.  Its queue log comes earlier on the chain, so
the pass has handled it, or it is behind the cursor the pass started from;
since there is no row it was lost, and the resolution is one of the losses
`LossIsContained` names.  The cursor may go up to the end of a window because
everything before is settled, whichever pass settled it: a settled log stays so.

**The relayer pool.**  `LockInv` adds to the two properties that an account held by
a relay that is not `astray` is locked (`HeldIsLocked`).  So `Acquire` does not
give it to another relay; and whatever unlocks it under its holder, the reaper or
a second release after a lost reply, makes that holder astray in the same step.
Nothing is assumed of how long a relay takes.  The nonce needs
`NeverCollide`: only the holder broadcasts from an account.  `PoolInv` needs
`Solvent`: what is pending was accepted only because the account could pay for
all of it.

**The compliance scan.**  `MirrorInv`: each address whose last event is behind
the cursor, *or behind where a pass stands in its window*, is listed as the oracle
lists it, unless an older pass overtook (`ReadIsMirrored`).  A pass has to count as much as
the cursor, for it writes the rows first and the cursor last.  `ScreenInv`
accounts for time: a flagged shield that is still queued (`Kept`; `FlagsNoted`
keeps the history of who was on no list) is at most one period older than the
periods it has missed, and if a scan has begun in the present period, it is to do,
sent, or left out and about to be counted as missed (`WaitsInTime`, `Covered`).  So
when it lands at the end of its wait, all of the wait but one period was missed.

**The device.**  `DeviceInv` says of the list in memory *and of the list each job
is about to write* that a spendable note has landed or is the change of a transaction of this device that
is in flight or failed (`Backed`), that a cancelled one is cancelled on chain or by
such a transaction (`Recalled`), that a position is that of a
leaf, and that the list to be written is nowhere a step back from the one it was
computed from.  The same of memory alone is not inductive, since a job replaces
the whole list at once; and that two jobs overwrite each other costs steps
forward (`clobbered`) but not truth.  `HydrationInv` is about time: rows get
times ahead of all that were given (`Timed`, `Reached`) unless it shares
one with another row (`tied`), so a row that appears while a sync runs is not behind the cursor the sync will save; and a sync under
way still holds, or has kept, every row up to the cursor it is going to save
(`SyncHolds`).  Saving the cursor last is all that makes an interrupted sync
harmless.

**Preferences.**  `PrefsInv` adds that a page that has loaded its record equals
it (`PageIsRecord`), so that whatever a page merges or pushes is what the record
says; that a ceremony which has read or written a revision holds the blob the
server had there (`CeremonyHolds`), whatever was edited meanwhile; and that no
backup time lies in the future (`Settable`), so that a new one never goes back.
The exceptions enter at one step each: `raced` at `MarkPushed`, `forgotten` at
`Store`.

**The agent.**  `LeafInv` says that there is a block `w` such that the table holds
the leaves up to `w` and no others, and no scan starts beyond `w + 1` (`ReadTo`).
The block is in no variable, and the cursor is not it: a scan that dies has
inserted leaves beyond the cursor, and an older scan that ends later takes the
cursor back.  Since the contract numbers its leaves in the order of its blocks
(`LeavesNumbered`), such a table is a prefix of the tree.  `QuietInv` says that
what a row shows is justified by the chain, by a pending transaction or by a lost
one (`RowOK`); that whatever is not yet in a row is still ahead of the scan: a
note that nobody holds has a log beyond the cursor or in hand (`Ahead`), and a
note that is burnt but shown as spendable has its nullifier beyond the cursor;
and that what a command is about to record is true (`CommandOK`).  The hard step
is `Finish`, which moves the cursor over all nullifiers of the range at once: it
moves it only when there is no nullifier or no row without a leaf, and then looks
at every row that is not spent; a note whose burning has begun has a row with its
leaf (`InUse`; a command that proves a row without one gets nowhere).  The
hypothesis that scans do not overlap is needed: with two, `QuietBalance` fails (section 3, *Agent store*), for
the older scan upserts a note as spendable after the newer one saw its nullifier.

Every inductive invariant was checked by TLC on the instance of its module's run
before it was proved.

What stays with TLC:

* `EscrowResolved`, `ConfirmedIsIndexed`, `AccountsComeBack`, `BalancesSettle`,
  `WalletConverges`, `DevicesAgree`, `BurntLeavesBalance`: liveness under
  fairness, out of the prover's reach.
* `MonthsAreCalendarMonths`: a finite table of dates, computed.

## 5. Assumptions of the models

* Spends are those the repository's builders make (`Builds`: `transfer-prep.ts`,
  `unshield-prep.ts`, `swap-prep.ts`, `sdk/src/intents.ts` and the helpers of the
  contract tests).  They leave the slots they do not use zero.  The circuits
  constrain the slots that carry a note (`transfer/main.nr:105-112`,
  `transfer_external/main.nr:102-128`; the loop of `withdraw/main.nr:35` ends at
  `NOTE_COUNT - 1`), while the contract acts on every slot of the public inputs;
  what `Pampalo.sol` does with other public inputs is not modelled, and the
  properties and theorems on money (`Conservation`, `OnlyTheSpenderPays`,
  `SurplusOnlyGrows`, `ExitsAreCharged`) do not speak of them.
* The inputs of a spend are notes of its prover, landed, opened against one root.
  That every prover is the repository's wallet, and so that a note has one
  nullifier (the one for the leaf index at which it was inserted), is assumed and
  not checked.
* Poseidon is collision free (a free constructor); wallets draw fresh secrets.
* Tokens are honest: a transfer moves the amount asked for, without fees,
  callbacks or failures.  A shielder that refuses ETH is listed as a hazard.
* No reorganisation is deeper than the confirmation depth; `eth_getLogs` answers
  from the chain its node is on, completely and in order.
* A node accepts a transaction when its nonce is the next pending one and the
  account can pay the upper bound of everything pending; mining costs at most
  that bound.
* One wallet and one tab in `WalletSync`.  One scan at a time, one epoch and no
  reorganisation in `AgentAccount`, as `sync.ts:15` says of itself.
* Roles are granted as deployed; role administration is not modelled.

## 6. Not modelled, and why

The circuits' constraints (arithmetic over a field, out of TLC's reach;
spends are modelled as their builders make them, section 5), the user interface, the site, prices, balances
and catalog (reads and caches, no protocol state).  Of the indexer, the one-off
nullifier backfill, the redeploy and the alert mails; of the relayer pool, the
seed of its rows and the balance of the compliance signer; of the scan, its
detect-only mode and the published lists; of the wallet, retired deployments and
switching wallets; of the SDK, the keystore, the transport, public sends and a
rollover of the tree.  Private payments, usernames and the passkey ceremonies
have state of their own and are left to the plan.

## 7. Plan

Done: the core with its refinement, swaps and calendar; the tree; the indexer;
the relayer pool; the compliance scan; the wallet's notes and preferences; the
agent.  Left, in this order:

1. `Payments`: `verifyAndBurn` and the acceptor as a further entry point of
   `Pampalo`, over the same ledger: one redemption per payment, in a nullifier
   domain of its own.
2. The redeploy of a contract (`seed.ts`) while a pass over the old one is under
   way, in `ShieldIndexer`.
3. `AuthCeremony`: two completions of one pending challenge, expiry and cleaning.
4. `Registrar`: registration, expiry and renewal of names.
5. A second epoch in `AgentAccount`: leaves are keyed by index alone.
