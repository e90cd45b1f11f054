# Verification of pringle-wallet

TLA+ models of pringle-wallet, a command line wallet for the Chia blockchain
that mints NFTs, collects XCH income at an address only the NFT's owner can
spend from (a p2 singleton), and writes, sells, exercises and reclaims options
on those NFTs. Paths below are relative to the repository; `main.rs` is
`src/main.rs`, and so on.

## The system

One invocation of the program runs one command. It reads a JSON state file,
asks a node over HTTP, perhaps prompts the user, pushes a signed bundle of
spends to the node's mempool, and writes into the state file what will be true
once the bundle is in a block. It exits without waiting for that. `sync`,
`status` and `option show-all` later compare each record with the chain. There
is no lock on the state file, no daemon, and no memory but the file.

| Component | State | Operations | Talks to | What makes it correct |
|---|---|---|---|---|
| XCH coins (`wallet.rs`, `main.rs`) | the transaction log, `State::transactions` | every spending command; pruning | node, state file | a coin of a pending bundle is not spent again; a pending transaction is not forgotten; reservations end |
| NFT and options (`main.rs`, `option.rs`, `nft.rs`) | an `NftRecord` per NFT, an `OptionRecord` per option: coin, phase, terms, reclaimed flag | mint, sweep, create, offer, take, exercise, clawback, recover | node, state file, offer files | stale records never lead to a wrong confirmation prompt; flags say what happened; expired options can be reclaimed |
| Reconciliation (`sync.rs`) | none | follow each record to the live coin | node | records catch up; nothing is confirmed that was not seen; closed stays closed |
| Income (`p2_singleton.rs`, `sync.rs`) | a `P2SingletonRecord` per NFT: funded coins, phase | sweep, reconcile | node | pending income is kept, a swept address ends up empty, sweeps respect their cap |
| State file (`state.rs`) | a file and its temporary | load, migrate, save | every command | an interrupted save leaves the old or the new state |
| Key file, `init` (`key.rs`) | a file | create, load | state file | a key is never overwritten, and never has another wallet's records |
| Status view (`status_view.rs`, `main.rs`) | none | phase and chain status to a user state; clawback hints | records, node | what is shown is what can be done |
| Offers (`option.rs`, `inspect.rs`) | offer files | make, inspect, take | node | an offer taken is for a live option coin |
| Node (`coinset.rs`, `chain.rs`) | chain and mempool, external | coin lookups, `push_tx` | | a failed lookup is never taken for a fact |
| Pot Potato (`potato.rs`) | a cache in the state file | walk another project's coins | node | the cache agrees with the walk |
| Puzzles, signing, prompts, output | none | | | cryptography and I/O, not modelled |

The hard part is that everything the wallet knows is a claim about the past or
a bet on the future. Between any two steps of a command blocks arrive, other
wallets buy, exercise and sell, deadlines pass, the mempool forgets a bundle,
or the process dies; a second invocation may be running too. `PROJECT.json`
lists these hazards at the lines where they bite, with the property that would
catch each.

## Modules

| Module | What it is | Proofs | Instance |
|---|---|---|---|
| `CoinReservation` | the log of transactions and the coins it reserves | `CoinReservation_proofs` | `MCCoinReservation` |
| `SpendLedger` | what reserving coins promises: transactions that never compete; `CoinReservation` implements it | | with `CoinReservation` |
| `Lifecycle` | the records of an NFT and of the options on it against the chain: every option command, reconciliation, and what status shows | `Lifecycle_proofs`, `LifecycleViews_proofs`, `LifecycleTracks_proofs` | `MCLifecycle` |
| `RecordTracks` | what a record promises about its singleton: never more than one bundle ahead of the chain; `Lifecycle` implements it | | with `Lifecycle` |
| `Payments` | the amounts of a bundle: selection, sending all, sweep plan, odd mojo, u64 | `Payments_proofs` | with `P2Income` |
| `P2Income` | the income record against the coins at the income address; extends `Payments` | `P2Income_proofs` | `MCP2Income` |
| `WalletFiles` | the key file and the state file as the file system sees them | `WalletFiles_proofs` | `MCWalletFiles` |
| `StateLedger` | what the state file promises: a ledger of edits; `WalletFiles` implements it | | with `WalletFiles` |
| `PotatoWalk` | the cached walk along the Pot Potato while it is passed on | `PotatoWalk_proofs` | `MCPotatoWalk` |

They meet at the state file. `CoinReservation`, `Lifecycle` and `P2Income` load
and save in one step each, which is what `WalletFiles` shows to be sound for one
invocation at a time: the file is an atomic ledger of edits (`StateLedger`).
`P2Income` has the commands that move the NFT for other reasons than a sweep as
one step of the environment, and `Lifecycle` has the sweep as a step that moves
the NFT.

### CoinReservation

| Model | Code |
|---|---|
| `log` | `State::transactions` in the file; a record is its inputs and its watch coin |
| `mem[p]`, `avail[p]`, `plan[p]`, `sent[p]` | the locals of invocation `p`: its loaded log, the coins it may spend, what it selected, the bundle the node took |
| `chain`, `spent`, `mine`, `mempool`, `ids` | the node, external; `mine` are the coins at the wallet's puzzle hash |
| `BeginSpend`, `FetchCoins` | `State::load`; `wallet_spendable_coins`, `spendable_or_error` |
| `SelectAmount`, `SelectAll`, `SelectConsolidate` | `select_for`; `send --all`; `consolidate`, which refuses a single coin |
| `Push`, `PushLost`, `Save` | `push_tx`; a reply that never arrives; `transactions.push` and `state.save` |
| `GiveUp` | every return without a save: no coins, a declined prompt, a failed lookup, a rejection |
| `BeginSync`, `Prune`, `PruneFailed`, `SaveSync` | `sync` and `status`: load, `prune_transactions`, a failed `classify_many`, save |
| `Confirm`, `Drop`, `Crash` | a block, the mempool, the operating system |

Each of these is a step of its own, so blocks and other processes come between
any two. `main.rs` has eight commands that spend coins; they differ in what they
build and share this skeleton, so one spending command stands for all, with any
subset of the coins and any mix of own outputs and change. The NFT and option
coins that some records also list as inputs are left out. Amounts are left out:
any nonempty subset of the coins on offer may be what an amount and a fee need.

`SpendLedger` is what all this is for, without the log and without the steps of
a command: a transaction is submitted for live coins that no pending one takes,
and stays pending until a block settles it (or the mempool loses it). `Ledger`
maps the live coins to `chain \ spent`, and a bundle to its inputs and outputs.
`SpendsNeverCompete` is stronger than `NoResubmit`: it also says that a push
replaces nothing, and that every block settles one bundle whose outputs are new.

### Lifecycle

A singleton's coin id is a hash of its parent's id and its owner's puzzle hash.
The model therefore writes a coin as the sequence of owners since the launch,
and an NFT locked in option `o` has owner `o`. The live coin is the whole
`nft` (or `opt[o]`), a proper prefix is a spent coin, and a sequence that is
not a prefix is an id that no bundle ever created: exactly the three answers a
lookup can give (`Status`). Walking a record forward (`advance_singleton`) is
then replacing a prefix by the whole.

A sale of an option and the exercise of a transfer option pass the singleton
through the settlement puzzle: the bundle makes a coin owned by `Settle` and
spends it again (`Passed`), so that the coin the wallet's record names
(`build_take`, `build_exercise`) is a grandchild of the coin that was live. A
launch also makes a coin that its bundle spends, but a launch starts the path,
and its one coin here is the one it leaves.

| Model | Code |
|---|---|
| `state.nft`, `state.opt[o]` | `NftRecord`, `OptionRecord`: coin, phase, `terms_known`, `underlying_reclaimed`; phase `none` is an absent record |
| `state.ph` | whether `wallet_puzzle_hash` is in the file; `sync` and `status` put it there, `show-all` uses what it finds |
| `job` | the running command: the state it will save, or how far its reconciliation got |
| `terms[o]`, `expired` | what the option's launch commits to, on chain; the clock against the deadline, one deadline for all options |
| `Mint` ... `Clawback`, `Recover` | the `cmd_*` handlers, guards in their order and on the loaded state |
| `MintTx` ... `ClawbackTx` | the builders of `nft.rs`, `p2_singleton.rs`, `option.rs`, as owners |
| `Submit`, `Save` | `push_tx`, then `state.save` |
| `RecoverTaken`, `RecoverTakenFailed` | the attempt of `take` to recover the terms of what it bought |
| `BeginSync`, `SyncNft`, `SyncOpt`, `SyncLookupFailed`, `SaveSync` | `reconcile`, one record per step |
| `Peer*`, `Expire`, `Confirm`, `Drop` | other wallets and the chain, external |

A command's checks and its `push_tx` are one step here. Between them only the
chain moves (one invocation runs at a time in this module), and what a check
found unspent can only become spent, in which case the node refuses the bundle
and the command changes nothing. Between the push and the save anything may
happen. `Submit` replaces a conflicting bundle in the mempool or is refused;
both are explored. The model follows one NFT; the commands that pick an NFT or
an option among several pick by launcher id, so records of different launchers
do not meet. A wallet taking its own offer is left out.

`RecordTracks` says what a record is worth, for any number of singletons: a
block makes a path grow by what one bundle leaves, which is one coin, or two if
the first is a settlement coin (`Grow`); a command claims what a bundle would
leave of a coin of the path (`Claim`); a refresh moves a record forward on the path
(`Follow`); a reset takes it back and closes it (`Reset`); nothing else happens.
`Tracks` maps the NFT to number 0 and every option to its own, and lets only the
NFT's record be reset, by the recovery of an option's terms. A record that lost a
race is thus one bundle off the chain. Its parent may be a settlement coin that
never existed either; the coin that the bundle would have spent is there.

The section before that is `status`: `NftState` and `OptionState` are the
tables of `status_view.rs`, `NftShown` and `OptShown` what `cmd_status` shows of
the file in a state, and `ClawbackEligible` its hint.

### P2Income and Payments

| Model | Code |
|---|---|
| `file` | the NFT record's coin and the `P2SingletonRecord`: funded coins and phase (`none` if there is no record) |
| `job` | the running command: what it has looked up, planned or pushed, or how far its reconciliation got |
| `BeginSweep`, `PlanSweep`, `PushSweep`, `SaveSweep` | `cmd_nft_sweep`, and the sweep arm of `cmd_option_exercise`: the NFT's lookup, the income's lookup with `plan_sweep`, the prompt, the push, the save |
| `BeginSync`, `FetchLive`, `Classify`, `EndClassify`, `SaveSync` | `backfill_nft_p2_singletons`, then `reconcile_p2_singletons` one lookup at a time; `FetchFailed` and `ClassifyFailed` are its two error paths |
| `RecoverTracks` | the income record that `recover_option_terms` adds |
| `Deposit`, `NftMoves`, `PeerSweeps`, `Confirm`, `Drop` | payers, other owners and the chain, external |
| `SelectFor`, `Change`, `Funded`, `SpendAllTxs` | `select_for`, `spend_selection`, `spend_all` |
| `XchTxs`, `TakeTxs` | `xch send` and `consolidate`, `option take`, which check the balance they select from |
| `LaunchTxs`, `ExerciseTxs`, `ClawbackTxs` | `nft mint` and `option create`, `option exercise`, `option clawback`, which do not |
| `Selected`, `CanSweep`, `SweepTx` | `plan_sweep`, the checks and the outputs of `build_sweep` |

Sums that the code checks refuse in the model; those it does not check wrap at
`MaxU64 + 1`, as in a release build. A sweep, a send, a consolidation and a take
check the total, and `BundlesBalance` says that they always balance. A mint, a
create, an exercise and a clawback hand the wallet's coins to `select_for`
unchecked, whose sum may wrap; the subtraction then wraps back, so that the
bundle balances exactly when the change due is a u64. When it is not, the bundle
gives back less than it takes, and the difference goes to the farmer. Which coins
cover an amount is the SDK's choice (`select_coins`), and here any that do; a debug
build panics instead. `Payments` alone has no state: its
operators run inside `P2Income`, and `BundlesBalance` and `SweepTakesMost`
quantify over every fee and amount in each state. The initial record is that of
a fresh NFT or that of a migrated file, which may list coins that are not in a
block (`Legacy`).

### WalletFiles and StateLedger

A file name refers to an inode, and so does an invocation that is writing. A
write first truncates and then fills the file, and may stop in between
(`Crash`, `WriteFails`); a rename is atomic. `Load`, `SaveEdited`, `Write`,
`Rename` are `State::load` and `State::save`; `CheckKey`, `OpenKey`, `WriteKey`,
`SaveFresh` are `cmd_init` with `save_new_wallet`; `RemoveKey` is the user moving
the key away, which is the only way to a second `init` after a first. A state is the set of
wallets whose records it holds and the number of its edits. A command that
needs no key (`potato`) may also run while there is none, which is why `Load`
may find wallet 0. `Ledger` maps the file to `StateLedger` by the edits it
holds, and to "starting" while an `init` has its key and not yet its state.

### PotatoWalk

A round is a lineage of coins, so a coin is its round and its number. `Forward`,
`ForwardEnds`, `Anchor`, `Backward`, `BackwardEnds` are `potato::refresh`, one
lookup at a time; `ForwardMissing`, `AnchorMissing`, `BackwardMissing` the spends
the node does not find, at which the walk stops and reports what it has; `Fail`
every lookup that returns an error; `Refuse` the limit of hops and a walk that
found no holder; `Report` the save of the cache, if the anchor was not given,
and the output. The spent flag of a coin and the lookup of its spend are one
step: both only ever change from unspent to spent, and a spend never changes.
The royalty, the payouts and the time of a claim are left out: they are shown
and not kept.

## Runs

| Run | Bounds | Shows |
|---|---|---|
| `reservation_live` | 1 process, 2 coins, 3 ids for later ones, no fault, fair | `TypeOK`, `NoResubmit`, `ReservationsJustified`, `NoLostRecord`, `ReservationsReleased`, the refinement `SpendsNeverCompete` |
| `reservation_faults` | 1 process, 3 coins, 3 ids, crashes, lost replies, drops | `ResubmitOnlyUnlogged`, `NoLostRecord` |
| `lifecycle_faults` | 1 option, 4 NFT coins, 3 coins of the option, everything | `TypeOK`, `ConfirmedWasSeen`, `ExerciseGuardsSuffice`, `LockedIsShown`, `ExercisedIsShown`, `ReopenedOnlyToMine`, the refinement `RecordsTrack` |
| `lifecycle_two` | 2 options, 4 NFT coins, 2 coins per option, everything but drops | `ReclaimedIsTrue`, `ExerciseGuardsSuffice`, `ReopenedOnlyToMine` |
| `lifecycle_live` | 1 option, other wallets act but never overtake, fair | `SyncCatchesUp` |
| `income` | 3 income coins (3, 3 and 4 mojos, u64 up to 7), caps 2 and 1, 3 NFT coins, every fault until `calm`, fair | `TypeOK`, `SweepIsAllOrNothing`, `SweepTakesMost`, `BundlesBalance`, `PendingIsKept`, `IncomeCatchesUp` |
| `files` | 1 invocation, 3 inodes, 3 wallets, 3 edits, crashes, full disk | `TypeOK`, `Readable`, `NoInheritedRecords`, the refinement `LedgerSpec` |
| `potato` | 2 rounds of 3 passes and 1, a limit of 1 hop, a cache of 2, 0 to 2 previous holders, every fault until `calm`, fair | `TypeOK`, `CacheIsLineage`, `ReportIsReading`, `CacheCatchesUp` |
| `lifecycle_race` | 1 option, offers may be taken and deadlines pass in between, fair | violates `SyncCatchesUp` |
| `lifecycle_flag` | 1 option that may be sold | violates `ClawbackFlagged` |
| `lifecycle_locked` | 1 option that its holder may exercise | violates `ShownLockedIsLocked` |
| `income_stuck` | 2 income coins, no fault, fair | violates `SweptBecomesEmpty` |

Bounds.

* `Coin \ Initial` bounds the outputs ever created: three are enough for a
  bundle with change, a bundle that spends its output, and a conflicting one.
  Symmetry among the initial coins and among the later ones is used only in a
  run without liveness.
* `MaxNftGen` and `MaxOptGen` bound the paths, counting the coins that outlive their
  block and not settlement coins: four NFT coins let it be minted,
  locked, handed on and locked again, and three coins of an option let it be
  sold and bought back. With two options the second is written after the first
  one ends. In `lifecycle_two` the mempool drops nothing, because a dropped
  clawback leaves the reclaimed flag without a reason.
* Three income coins are one more than a sweep takes and two more than an
  exercise does; two of them tie, the amounts are odd and even, and all three
  together pass the largest u64, which is 7.
* Three inodes are the state file, the temporary file and one left over; three
  wallets are two changes of key.
* A round of three passes is longer than the cache, than one walk and than any
  request, so that caches are truncated, read back by longer requests and
  extended backward.

Fairness. Blocks keep including bundles that can be included (weak fairness of
`Confirm`), and a process that started a step finishes it. Nothing in the
program runs by itself, so that `sync`, or `potato`, runs again and again is an
assumption on the user: strong fairness of the step that starts it, because
other commands may come first. That lookups do not fail for ever is one on the
network: in `P2Income` and `PotatoWalk` faults happen until the variable `calm` is
set, at any moment but some time; in the other runs with liveness there are no
faults. No fairness is assumed of any other command, of other wallets, of the
players or of the deadline. An income sweep that was planned is pushed or given
up: the prompt is answered.

### What the code does not do

* An exercise that loses a race strands the NFT record (`lifecycle_race`). The
  command has moved it to the coin the exercise would create; `advance_singleton`
  leaves a coin without a record on chain alone, so no later sync finds the NFT.
  In the run the option had also been offered, and a buyer was faster. The same
  happens with two options on one NFT if the user recovers the terms of the
  first and then sweeps, which is why `lifecycle_live` has one.
* A sold option that expires is never flagged for clawback (`lifecycle_flag`).
  `clawback_eligible` takes phase `Superseded` to mean exercised; sync gives the
  same phase to an option it finds in someone else's hands, and `option clawback`
  itself would succeed.
* An NFT that an exercise or a sale gave to someone else is shown as locked in
  an option (`lifecycle_locked`): `nft_state` takes `Superseded` for locked, sync
  gives that phase to every NFT it finds elsewhere, and so `Transferred` is
  hardly ever shown.
* A swept income record stays "Pending confirmation" for ever (`income_stuck`):
  the phase that the sweep set is itself taken for something in flight.
* Two `init` commands at once overwrite a key, although `save_new_wallet` says that
  it refuses to: both find no file (`CheckKey` of each before `OpenKey` of either),
  and the second writes over the key of the first, whose address may be in use.
  With one invocation at a time the test is enough.
* Two invocations at once submit bundles for the same coin: each excludes the
  inputs in the log it loaded, and no lock serialises them. With two processes
  in `reservation_live.cfg`, `NoResubmit` is violated. They also share the
  temporary file: with two in `files.cfg`, one renames what the other is still
  writing (`Readable`), and whole edits are lost (`LedgerSpec`).
* Inputs of a bundle that the mempool dropped stay reserved for ever: only a
  watch coin on chain removes a record, while the error for a wallet whose coins
  are all reserved advises `status`. With "drop" among the faults of
  `reservation_live.cfg`, `ReservationsReleased` is violated.
* `option recover` on an exercised option moves the NFT record back to the
  spent locked coin; the next sync repairs it.
* Right after `option create`, until the bundle is in a block, status shows the
  NFT as Closed: its record is `Superseded` at a coin that is not on chain yet.
  `status --cached` looks nothing up and passes `NotFound` for every coin, so that
  it shows a Confirmed option as Exercised and a Confirmed NFT as Closed.
  `LockedIsShown` and `ExercisedIsShown` are about a file in step with the chain.
* If the potato was passed on more than `MAX_HOPS` times since the last walk, the
  walk ends with an error and saves nothing, and so does every later one;
  `CacheCatchesUp` excepts that. Its message takes it for a wrong anchor.

## Proofs

Every theorem holds for all values of the constants that the module's `ASSUME`
allows; each module that has one is extended by a run's, where TLC evaluates
it. The pattern is the same throughout: an inductive invariant, one lemma per
action that changes something it speaks of, and the properties as
consequences.

`CoinReservation_proofs`:

* `TypeCorrect`: `Spec => []TypeOK`, for any number of processes and all faults.
* `RecordsAreKept`: `Spec => NoLostRecord`, for one process and all faults. A
  save writes the loaded log minus settled records, so what matters is that the
  file did not change since the load: `MemoryFresh` says so (a process that is
  not idle has the log in memory, minus records that have settled).
* `LoggedBundlesAreSafe`: `Spec => []ResubmitOnlyUnlogged`, for one process and
  all faults. The selection avoids `Reserved(mem)`, and `MemoryFresh` and
  `Unreserved` carry that to the moment of the push.
* `ReservationIsSound`: `Spec => []NoResubmit`, for one process that neither
  crashes nor loses replies. It adds `Logged` (a bundle in flight has its
  record in the log, or is the one just pushed) and `WatchesFresh` (the watch
  coin of a bundle in flight is not on chain, and no other bundle in flight
  creates it, so no block and no prune settles the record of a bundle that is
  still in flight). Without `Logged` a bundle could be in flight that nothing
  reserves, which is what happens under the faults excluded.
* `ReservationsAreJustified`: `Spec => []ReservationsJustified`, for one process
  that may crash and lose replies, and a mempool that drops nothing (a dropped
  bundle leaves its record behind). `Justified` says it of the log and of the
  record about to be saved; it needs `Unreserved`, as what a push replaces must
  not be in the log.
* `SpendsImplementLedger`: `Spec => SpendsNeverCompete`, under the assumptions of
  `ReservationIsSound`. To its invariant it adds `OutputsFresh` and
  `InputsApart`: the bundles in flight create and take different coins, so that
  they are different transactions of the ledger and a block changes it by one.

`Lifecycle_proofs`, for any number of options and any paths:

* `TypeCorrect`: `Spec => []TypeOK`, from `TypeInv`, which adds the shape of what
  a command is about to save.
* `ExerciseIsSafe`: `Spec => []ExerciseGuardsSuffice`. The guard finds the option
  coin and the NFT coin of the records unspent and the NFT in the hands of this
  option; that it is then the coin the option's terms lock needs `LinkInv`: the
  locked coin of a launched option is on the NFT's path, a live NFT coin owned by
  an option is the one that option locked, and every `create` in the mempool
  will keep it so.
* `ConfirmedIsSeen`: `Spec => []ConfirmedWasSeen`, from `FileInv`: a Confirmed
  record, in the file or in what a command will save, names a prefix of the
  path. Prefixes stay prefixes when a block appends.
* `ReopeningFollows`: `Spec => ReopenedOnlyToMine`, from the other half of
  `FileInv`: what a command will save only reopens the file's closed records by
  moving them to coins of this wallet, and what sync has not reached yet is as
  it is in the file.

`LifecycleViews_proofs`, on top of it:

* `LockedIsSeen`: `Spec => []LockedIsShown`, and `ExercisedIsSeen`:
  `Spec => []ExercisedIsShown`, under any faults. `PhaseInv` says what a phase
  tells: a pending or confirmed NFT record is at a coin that a party owns, and a
  closed option record is at a coin that was on chain.
* `ReclaimedStaysTrue`: `Spec => []ReclaimedIsTrue`, if the mempool drops nothing;
  crashes, lost replies, failed lookups and races are allowed. The flag is set
  when the clawback is submitted. `ClaimInv` says that what is in the mempool
  spends live coins, that a coin an option locks is owned by that option, and
  that a flagged option's coin is left or about to be (`Leaving`): past the
  deadline only another clawback can take it, and that one replaces or is
  replaced.

`LifecycleTracks_proofs`: `RecordsImplementTracks`, `Spec => RecordsTrack`, for any
number of options and any faults. `TrackInv` says that what a command or sync is
about to save tracks what is in the file (`Tracked`), which stays true as paths
grow. The bundles' coins are one bundle beyond a coin of the path, through the
settlement puzzle or not (`Passed`, which `RecordTracks!Parent` undoes). It needs `FileInv` for the records sync has not reached, and `LinkInv`
because an option is launched once.

`Payments_proofs`, for any finite set of coins, any amounts and any cap:
`SelectedIsMost`, that the coins taken in the order of their amount have the
largest total of all sets within the cap. Sums over a set (`Total`) are recursive
functions that take out one element after the other; what is needed of them
(that a sum does not depend on the order, splits over a union and grows with
the set) is proved from `SubsetInduction`: a set of subsets that holds each one as
soon as it holds its proper subsets holds all, from the well-foundedness of
strict inclusion on finite sets. It speaks of a set and not of a predicate, so
the provers can use it.

`P2Income_proofs`, for any coins, amounts and caps:

* `TypeCorrect`: `Spec => []TypeOK`.
* `SweepIsWhole`: `Spec => []SweepIsAllOrNothing`, from `PlanInv`: no command or
  bundle names an NFT coin beyond the path, and while one names the live coin, no
  block can have spent an income coin it took.
* `NothingIsForgotten`: `Spec => PendingIsKept`, from `KeepInv`: while sync
  works on its copy, a coin of the file's record has been in a block, or is kept
  or still to be looked up.
* `SweepIsMost`: `Spec => []SweepTakesMost`, from `SelectedIsMost`.
* `BundlesAreBalanced`: `Spec => []BundlesBalance`, for every fee and amount and
  whatever the largest integer is: what a checked total allows never wraps, and
  an unchecked sum and its difference wrap back, or lose a multiple of `MaxU64 + 1`.

`WalletFiles_proofs`, under `OneProcess` (one invocation at a time), for any
faults and any number of wallets and edits: `TypeCorrect`, `SaveIsAtomic`
(`Readable`), `InitIsFresh` (`NoInheritedRecords`), and `FilesImplementLedger`, that `WalletFiles` implements
`StateLedger`. Its invariants: what is
being written is the temporary file, which is not the state file (`FilesInv`);
nobody else has a key while one is made (`KeyInv`); what was loaded is still what
is stored, and what is saved is that with one more edit, or fresh (`DataInv`).

`PotatoWalk_proofs`, for any rounds, limits and faults:

* `TypeCorrect`: `Spec => []TypeOK`.
* `CacheIsTrue`: `Spec => []CacheIsLineage`, from `WalkInv`: what a walk has
  found, put before what it took from the cache, is a `Run`, a sequence of holds
  without gaps that agrees with the passes, and it starts at the coin the walk
  has come to; without a given coin that is in the default round.
* `ReportIsTrue`: `Spec => []ReportIsReading`. `SeenInv` adds to `WalkInv` where the
  potato was when the walk began, that the walk has come at least that far, and
  that a claim it saw is final; `ShownInv` says that the report is a run, linked,
  and still true while the potato moves on.

`OneProcess` says that `Proc` has exactly one element; the section above says
what two invocations do. Beside it the theorems use the named assumptions on
the constants and nothing else.

`NoInterruption` excludes `"crash"` and `"lost_reply"`, `NothingDropped` excludes
`"drop"`; where a theorem does not name them, every fault is allowed. `IsFiniteSet`
of the income coins is part of `PaymentsAssumption`: an id has 32 bytes.

Every safety invariant and action property of the passing runs is a theorem, and
so are the three refinements. Only model-checked are the liveness properties
(`ReservationsReleased`, `SyncCatchesUp`, `IncomeCatchesUp`, `CacheCatchesUp`), whose
fairness is outside the provers' reach.

## Not modelled

* Puzzles, signatures and announcements: cryptography. What a coin's puzzle
  allows is `Valid` in the modules.
* Prompts, JSON output, decimal formatting, offer encoding, the HTTP client and
  its batches: wording and I/O.
* The migration of version 1 state files, which folds three optional fields into
  the collections; reorganisations of the chain, which the code does not handle;
  a power loss, against which the code does nothing (it never syncs to disk).
* The limit of 1000 spends in `advance_singleton`: the walk of a record is one
  step of `Lifecycle`.
* The composition of all commands in one state: the modules meet as described
  under "Modules".

`PROJECT.json` gives the reason for each component.

## Plan

The parts whose failure costs money came first: coins, options, income, then
the files, and last the potato. What is left, in this order:

1. The migration of version 1 files, which folds three optional fields into the
   collections, as part of `WalletFiles`.
2. The limit of 1000 spends, with a walk of more than one step.
3. An abstract specification of income (what was paid is listed until it is
   spent), which `P2Income` implements.
