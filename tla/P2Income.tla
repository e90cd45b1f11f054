------------------------------ MODULE P2Income ------------------------------
(***************************************************************************)
(* The income record of an NFT, against the coins at its income address.   *)
(*                                                                         *)
(* Anyone may pay XCH to the address.  A coin there can only be spent      *)
(* together with the NFT, by whoever controls the NFT then: this wallet    *)
(* with `nft sweep`, or the holder of a sweep option with its exercise.    *)
(* The record lists the coins seen by the last `sync`, `status` or         *)
(* `show-all`; a sweep reads the chain, not the record, and empties the    *)
(* record before its bundle is in a block.                                 *)
(*                                                                         *)
(* An NFT coin is written as the sequence of its owners, as in Lifecycle,  *)
(* which has the commands that move the NFT for other reasons; here they   *)
(* are one step of the environment, and a settlement coin within a block   *)
(* is left out, as only whether a coin is live matters.  One invocation    *)
(* runs at a time.                                                         *)
(***************************************************************************)
EXTENDS Payments, Sequences, SequencesExt

CONSTANTS
  Me, Away,      \* the wallet's puzzle hash, and every other owner of the NFT
  MaxNftGen,     \* coins of the NFT, the bound on its path
  Cap,           \* MAX_SWEEP_COINS
  ExerciseCap,   \* MAX_EXERCISE_SWEEP_COINS
  Legacy,        \* coins a migrated record may list before they are in a block
  Faults         \* what may go wrong, among FaultKind

FaultKind == {"crash", "lost_reply", "drop", "lookup"}

ASSUME IncomeAssumption ==
  /\ Me # Away
  /\ MaxNftGen \in Nat /\ Cap \in Nat \ {0} /\ ExerciseCap \in Nat \ {0}
  /\ Legacy \subseteq Coin
  /\ Faults \subseteq FaultKind

VARIABLES
  nft,      \* the NFT's path: its live coin
  chain,    \* income coins that are in a block
  spent,    \* those of them a block has spent
  mempool,  \* sweeps of this wallet that are not in a block
  file,     \* the NFT's coin and income record in the state file
  job,      \* the command that is running
  calm      \* has everything that may go wrong stopped going wrong?

vars == <<nft, chain, spent, mempool, file, job, calm>>
chainVars == <<nft, chain, spent>>

Owners == {Me, Away}
Phase == {"none", "pending", "confirmed", "superseded"}
Kinds == {"sweep", "exercise"}
File == [nft : Seq(Owners), funded : SUBSET Coin, phase : Phase]
Tx == [nft : Seq(Owners), coins : SUBSET Coin, to : Owners]
Idle == [at |-> "idle"]

\* An NFT just minted, with no income record yet; or the one of a migrated file.
Init ==
  /\ nft = <<Me>>
  /\ chain = {} /\ spent = {} /\ mempool = {}
  /\ file \in {[nft |-> <<Me>>, funded |-> {}, phase |-> "none"],
               [nft |-> <<Me>>, funded |-> Legacy,
                phase |-> IF Legacy = {} THEN "confirmed" ELSE "pending"]}
  /\ job = Idle
  /\ calm = FALSE

Fault(k) == k \in Faults /\ ~calm

-----------------------------------------------------------------------------
(* The chain. *)

Owner(coin) == coin[Len(coin)]
Unspent == chain \ spent

\* ChainStatus of an NFT coin, and of an income coin.
NftStatus(coin) ==
  CASE coin = nft -> "ConfirmedUnspent"
    [] IsPrefix(coin, nft) /\ coin # nft -> "Spent"
    [] OTHER -> "NotFound"
Status(c) ==
  IF c \in spent THEN "Spent" ELSE IF c \in chain THEN "ConfirmedUnspent" ELSE "NotFound"

\* Somebody pays to the address.
Deposit(c) ==
  /\ c \notin chain
  /\ chain' = chain \cup {c}
  /\ UNCHANGED <<nft, spent, mempool, file, job, calm>>

\* A block spends the NFT coin and the income coins S with it; bundles that
\* wanted the same NFT coin are gone.
Block(to, S, pool) ==
  /\ nft' = Append(nft, to)
  /\ spent' = spent \cup S
  /\ mempool' = {t \in pool : t.nft = nft'}
  /\ UNCHANGED chain

\* The NFT is locked in an option, exercised, reclaimed or sold.
NftMoves(to) ==
  /\ Len(nft) < MaxNftGen
  /\ Block(to, {}, mempool)
  /\ UNCHANGED <<file, job, calm>>

\* Another owner of the NFT sweeps: a sweep option is exercised, for one.
PeerSweeps(to, S) ==
  /\ Len(nft) < MaxNftGen
  /\ Owner(nft) = Away
  /\ Block(to, S, mempool)
  /\ UNCHANGED <<file, job, calm>>

\* The inputs are live; the signatures come from who controls the NFT.
Valid(t) == t.nft = nft /\ t.coins \subseteq Unspent

Confirm(t) ==
  /\ Valid(t)
  /\ Block(t.to, t.coins, mempool \ {t})
  /\ UNCHANGED <<file, job, calm>>

Drop(t) ==
  /\ Fault("drop")
  /\ mempool' = mempool \ {t}
  /\ UNCHANGED <<chainVars, file, job, calm>>

\* From now on nothing fails.
Calm ==
  /\ ~calm /\ calm' = TRUE
  /\ UNCHANGED <<chainVars, mempool, file, job>>

-----------------------------------------------------------------------------
(* nft sweep, and the exercise of a sweep option by this wallet. *)

\* The record a command would work on; only `nft sweep` needs one.
Ready(kind) ==
  /\ NftStatus(file.nft) = "ConfirmedUnspent"
  /\ IF kind = "sweep" THEN file.phase # "none" /\ Owner(file.nft) = Me
                       ELSE Owner(file.nft) = Away

BeginSweep(kind) ==
  /\ job = Idle
  /\ Ready(kind)
  /\ job' = [at |-> "ready", kind |-> kind, nft |-> file.nft]
  /\ UNCHANGED <<chainVars, mempool, file, calm>>

SweepCap(kind) == IF kind = "sweep" THEN Cap ELSE ExerciseCap

\* PlanSweep, on the coins the record lists.
PlanSweep_Recorded ==
  /\ job.at = "ready"
  /\ file.funded # {}
  /\ job' = [at |-> "planned", kind |-> job.kind, nft |-> job.nft,
             coins |-> Selected(file.funded, SweepCap(job.kind))]
  /\ UNCHANGED <<chainVars, mempool, file, calm>>

\* unspent_coins of the income address, and plan_sweep; then the prompt.
PlanSweep ==
  /\ job.at = "ready"
  /\ Unspent # {}
  /\ job' = [at |-> "planned", kind |-> job.kind, nft |-> job.nft,
             coins |-> Selected(Unspent, SweepCap(job.kind))]
  /\ UNCHANGED <<chainVars, mempool, file, calm>>

\* A sweep returns the NFT to the wallet, an exercise to the option's creator.
SweepTxs(j) ==
  {[nft |-> j.nft, coins |-> j.coins, to |-> to] :
     to \in IF j.kind = "sweep" THEN {Me} ELSE Owners}

\* The bundle is built with a fee it can pay, and replaces one that spends the
\* same NFT coin; its reply may be lost.
PushSweep ==
  /\ job.at = "planned"
  /\ Len(job.nft) < MaxNftGen
  /\ \E fee \in 0..Total(job.coins) :
       CanSweep(job.coins, IF job.kind = "sweep" THEN fee ELSE 0)
  /\ \E t \in SweepTxs(job) :
       /\ Valid(t)
       /\ mempool' = {u \in mempool : u.nft # t.nft} \cup {t}
       /\ \/ job' = [at |-> "pushed", kind |-> job.kind, tx |-> t]
          \/ Fault("lost_reply") /\ job' = Idle
  /\ UNCHANGED <<chainVars, file, calm>>

\* Nothing to sweep, a fee too high, a declined prompt, a refused bundle.
GiveUp ==
  /\ job.at \in {"ready", "planned"}
  /\ job' = Idle
  /\ UNCHANGED <<chainVars, mempool, file, calm>>

\* The NFT's record moves on; `nft sweep` also empties the income record.
SaveSweep ==
  /\ job.at = "pushed"
  /\ file' = [nft |-> Append(job.tx.nft, job.tx.to),
              funded |-> IF job.kind = "sweep" THEN {} ELSE file.funded,
              phase |-> IF job.kind = "sweep" THEN "pending" ELSE file.phase]
  /\ job' = Idle
  /\ UNCHANGED <<chainVars, mempool, calm>>

-----------------------------------------------------------------------------
(* The income part of sync, status and show-all. *)

\* Backfilled, when nothing is added.
Backfilled_None(f) == f

\* backfill_nft_p2_singletons, and the same when an option's terms are recovered.
Backfilled(f) == IF f.phase = "none" THEN [f EXCEPT !.phase = "confirmed"] ELSE f

\* reconcile_nfts: the record of a spent NFT coin moves on to the live one.
Followed(f) == IF NftStatus(f.nft) = "Spent" THEN [f EXCEPT !.nft = nft] ELSE f

RecoverTracks ==
  /\ job = Idle
  /\ file' = Backfilled(file)
  /\ UNCHANGED <<chainVars, mempool, job, calm>>

\* Load, follow the NFT, add a record if there is none.
BeginSync ==
  /\ job = Idle
  /\ \/ job' = [at |-> "sync", f |-> Backfilled(Followed(file))]
     \/ Fault("lookup") /\ job' = [at |-> "sync", f |-> Backfilled(file)]
  /\ UNCHANGED <<chainVars, mempool, file, calm>>

\* unspent_coins: the coins to ask about one by one are those it leaves out.
FetchLive ==
  /\ job.at = "sync"
  /\ job' = [at |-> "classify", f |-> job.f, live |-> Unspent, kept |-> {},
             todo |-> job.f.funded \ Unspent]
  /\ UNCHANGED <<chainVars, mempool, file, calm>>

\* The balance lookup fails: the record is left unchanged.
FetchFailed ==
  /\ job.at = "sync" /\ Fault("lookup")
  /\ job' = [at |-> "saving", f |-> job.f]
  /\ UNCHANGED <<chainVars, mempool, file, calm>>

\* One lookup that answers: a coin that has not appeared is kept.
Classify(c) ==
  /\ job.at = "classify" /\ c \in job.todo
  /\ job' = [job EXCEPT !.todo = @ \ {c},
                        !.kept = IF Status(c) = "NotFound" THEN @ \cup {c} ELSE @]
  /\ UNCHANGED <<chainVars, mempool, file, calm>>

\* ClassifyFailed, when an unknown coin is dropped.
ClassifyFailed_Dropped(c) ==
  /\ job.at = "classify" /\ c \in job.todo /\ Fault("lookup")
  /\ job' = [job EXCEPT !.todo = @ \ {c}]
  /\ UNCHANGED <<chainVars, mempool, file, calm>>

\* One that fails: the coin is kept.
ClassifyFailed(c) ==
  /\ job.at = "classify" /\ c \in job.todo /\ Fault("lookup")
  /\ job' = [job EXCEPT !.todo = @ \ {c}, !.kept = @ \cup {c}]
  /\ UNCHANGED <<chainVars, mempool, file, calm>>

TargetPhase(f, live, kept) ==
  IF live # {} THEN "confirmed"
  ELSE IF kept # {} \/ f.phase = "pending" THEN "pending" ELSE "superseded"

\* Refreshed, when only a new phase is worth a new list.
Refreshed_PhaseOnly(f, live, kept) ==
  IF TargetPhase(f, live, kept) = f.phase THEN f
  ELSE [f EXCEPT !.funded = live \cup kept, !.phase = TargetPhase(f, live, kept)]

\* The record becomes the coins found and those kept.
Refreshed(f, live, kept) ==
  [f EXCEPT !.funded = live \cup kept, !.phase = TargetPhase(f, live, kept)]

EndClassify ==
  /\ job.at = "classify" /\ job.todo = {}
  /\ job' = [at |-> "saving", f |-> Refreshed(job.f, job.live, job.kept)]
  /\ UNCHANGED <<chainVars, mempool, file, calm>>

SaveSync ==
  /\ job.at = "saving"
  /\ file' = job.f
  /\ job' = Idle
  /\ UNCHANGED <<chainVars, mempool, calm>>

Crash ==
  /\ Fault("crash")
  /\ job # Idle
  /\ job' = Idle
  /\ UNCHANGED <<chainVars, mempool, file, calm>>

-----------------------------------------------------------------------------
Command ==
  \/ \E kind \in Kinds : BeginSweep(kind)
  \/ PlanSweep \/ PushSweep \/ GiveUp \/ SaveSweep
  \/ RecoverTracks \/ Crash

Sync ==
  \/ BeginSync \/ FetchLive \/ FetchFailed
  \/ \E c \in Coin : Classify(c) \/ ClassifyFailed(c)
  \/ EndClassify \/ SaveSync

Network ==
  \/ \E c \in Coin : Deposit(c)
  \/ \E to \in Owners : NftMoves(to)
  \/ \E to \in Owners, S \in SUBSET Unspent : PeerSweeps(to, S)
  \/ \E t \in mempool : Confirm(t) \/ Drop(t)
  \/ Calm

Next == Command \/ Sync \/ Network

Spec == Init /\ [][Next]_vars

\* Blocks keep coming and faults end; a command that started goes on; the user
\* keeps running sync.
Fairness ==
  /\ WF_vars(\E t \in mempool : Confirm(t))
  /\ WF_vars(Calm)
  /\ WF_vars(PushSweep \/ GiveUp) /\ WF_vars(SaveSweep)
  /\ SF_vars(BeginSync) /\ WF_vars(FetchLive)
  /\ WF_vars(\E c \in Coin : Classify(c)) /\ WF_vars(EndClassify) /\ WF_vars(SaveSync)

FairSpec == Spec /\ Fairness

-----------------------------------------------------------------------------
(* Properties. *)

JobOK ==
  /\ job.at \in {"idle", "ready", "planned", "pushed", "sync", "classify", "saving"}
  /\ job.at \in {"ready", "planned", "pushed"} => job.kind \in Kinds
  /\ job.at \in {"ready", "planned"} => job.nft \in Seq(Owners)
  /\ job.at = "planned" => job.coins \subseteq Coin
  /\ job.at = "pushed" => job.tx \in Tx
  /\ job.at \in {"sync", "classify", "saving"} => job.f \in File
  /\ job.at = "classify" =>
       job.live \subseteq Coin /\ job.kept \subseteq Coin /\ job.todo \subseteq Coin

\* Every variable keeps its shape, and a migrated or backfilled record never
\* disappears again: while sync has one, it is not "none".
TypeOK ==
  /\ nft \in Seq(Owners) /\ nft # <<>>
  /\ chain \subseteq Coin /\ spent \subseteq chain
  /\ mempool \subseteq Tx
  /\ file \in File
  /\ JobOK
  /\ job.at \in {"sync", "classify", "saving"} => job.f.phase # "none"
  /\ calm \in BOOLEAN

\* A planned or submitted sweep can only fail because the NFT has moved: while
\* its NFT coin is live, all of its income coins are, however long the prompt
\* waits (cmd_nft_sweep looks the NFT up before the income).
SweepIsAllOrNothing ==
  /\ job.at = "planned" /\ job.nft = nft => job.coins \subseteq Unspent
  /\ \A t \in mempool : t.nft = nft => t.coins \subseteq Unspent

\* A coin leaves the record only when it has been in a block or when a sweep
\* empties the record: no failed lookup and no missing coin removes one
\* (sync.rs: an RPC failure never deletes or downgrades local state).
PendingIsKept ==
  [][\A c \in file.funded \ file'.funded : c \in chain \/ job.at = "pushed"]_vars

\* Running sync brings the record to the coins at the address, also those that
\* a capped sweep left behind or that confirmed between its two lookups; what
\* else it lists has not appeared yet.
IncomeCatchesUp ==
  []<>(file.phase # "none" /\ Unspent \subseteq file.funded /\ file.funded \cap chain \subseteq Unspent)

\* What status shows of the income (p2_state).
P2State(f) ==
  CASE f.funded # {} -> "Ready"
    [] f.funded = {} /\ f.phase = "pending" -> "PendingConfirmation"
    [] OTHER -> "Empty"

\* Once everything at the address is spent and settled, sync marks it empty
\* (the comment in cmd_nft_sweep), unless new income arrives.
SweptBecomesEmpty ==
  (Unspent = {} /\ mempool = {}) ~> (P2State(file) = "Empty" \/ Unspent # {} \/ mempool # {})

\* A sweep over the cap takes as much as any as many coins could give
\* (plan_sweep, SweepPlan).
SweepTakesMost ==
  job.at = "ready" =>
    \A S \in SUBSET Unspent : Cardinality(S) <= SweepCap(job.kind) =>
      Total(S) <= Total(Selected(Unspent, SweepCap(job.kind)))

\* A bundle pays, gives back and leaves as fee what it takes in.  For a sweep,
\* a send, a consolidation and a take that is so whatever the coins, the amount
\* and the fee, because they refuse a total that is no u64; and a sweep pays an
\* even amount, so that the NFT is its one odd output.
Balanced(b) == b.in = b.pay + b.back + b.fee

SweepBalances(S) ==
  \A fee \in 0..MaxU64 : CanSweep(S, fee) =>
    Balanced(SweepTx(S, fee)) /\ SweepTx(S, fee).pay % 2 = 0

CheckedBalances(S) ==
  \A value, fee \in 0..MaxU64 :
    \A b \in XchTxs(S, value, fee) \cup TakeTxs(S, value, fee) : Balanced(b)

\* The others build a bundle from a sum that may have wrapped.  It balances all
\* the same if the change that is due is a u64, because the subtraction wraps
\* back; if it is not, the bundle gives back less, and never more than it takes.
ChangeFits(b) == b.in - b.pay - b.fee <= MaxU64

UncheckedBalances(S) ==
  \A value, fee \in 0..MaxU64 :
    \A b \in LaunchTxs(S, fee) \cup ExerciseTxs(S, value, fee) \cup ClawbackTxs(S, fee) :
      IF ChangeFits(b) THEN Balanced(b) ELSE b.pay + b.back + b.fee < b.in

\* All of this (wallet.rs, select_for, spend_selection, spend_all; p2_singleton.rs,
\* build_sweep); the coins that are not at the income address stand for the wallet's.
BundlesBalance ==
  /\ job.at = "planned" => SweepBalances(job.coins)
  /\ job = Idle => CheckedBalances(Coin \ chain) /\ UncheckedBalances(Coin \ chain)
=============================================================================
