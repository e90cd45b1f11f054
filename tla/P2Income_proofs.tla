--------------------------- MODULE P2Income_proofs ---------------------------
(* Theorems about P2Income, for any coins, amounts and caps.  Up to the last *)
(* two amounts never matter: a plan is some of the unspent coins.            *)
EXTENDS P2Income, Payments_proofs

-----------------------------------------------------------------------------
(* What the record and the plan of a command know of the chain. *)

\* The NFT coin a plan was made for is the live one or an earlier one; as long
\* as it is the live one, nothing at the address can have been spent.
PlanInv ==
  /\ job.at \in {"ready", "planned"} => Len(job.nft) <= Len(nft)
  /\ job.at = "planned" /\ job.nft = nft => job.coins \subseteq Unspent
  /\ \A t \in mempool : Len(t.nft) <= Len(nft) /\ (t.nft = nft => t.coins \subseteq Unspent)

\* Where a coin of the file's record is while sync works on its copy.
KeepInv ==
  /\ job.at = "sync" => file.funded \subseteq job.f.funded
  /\ job.at = "classify" => file.funded \subseteq chain \cup job.live \cup job.kept \cup job.todo
  /\ job.at = "saving" => file.funded \subseteq chain \cup job.f.funded

IInv == TypeOK /\ PlanInv /\ KeepInv

LEMMA InitInv == Init => IInv
<1> SUFFICES ASSUME Init PROVE IInv
  OBVIOUS
<1>1. <<Me>> \in Seq(Owners) /\ <<Me>> # <<>>
  <2>1. Me \in Owners
    BY DEF Owners
  <2>2. QED
    BY <2>1
<1>2. file \in File
  <2>1. Legacy \in SUBSET Coin
    BY IncomeAssumption
  <2>2. [nft |-> <<Me>>, funded |-> {}, phase |-> "none"] \in File
    BY <1>1 DEF File, Phase
  <2>3. \A ph \in {"confirmed", "pending"} : [nft |-> <<Me>>, funded |-> Legacy, phase |-> ph] \in File
    BY <1>1, <2>1 DEF File, Phase
  <2>4. QED
    BY <2>2, <2>3 DEF Init
<1>3. calm \in BOOLEAN
  BY Zenon DEF Init
<1>4. job.at = "idle"
  BY DEF Init, Idle
<1>5. TypeOK
  BY <1>1, <1>2, <1>3, <1>4 DEF Init, TypeOK, JobOK
<1>6. QED
  BY <1>4, <1>5 DEF Init, IInv, PlanInv, KeepInv

LEMMA BackfilledOK ==
  ASSUME NEW f \in File
  PROVE  Backfilled(f) \in File /\ Backfilled(f).phase # "none" /\ Backfilled(f).funded = f.funded
BY DEF Backfilled, File, Phase

LEMMA FollowedOK ==
  ASSUME NEW f \in File, nft \in Seq(Owners)
  PROVE  Followed(f) \in File /\ Followed(f).funded = f.funded
BY DEF Followed, File

LEMMA RefreshedOK ==
  ASSUME NEW f \in File, NEW live \in SUBSET Coin, NEW kept \in SUBSET Coin
  PROVE  /\ Refreshed(f, live, kept) \in File /\ Refreshed(f, live, kept).phase # "none"
         /\ Refreshed(f, live, kept).funded = live \cup kept
BY DEF Refreshed, TargetPhase, File, Phase

-----------------------------------------------------------------------------
(* The steps. *)

\* A step of the program that touches neither the chain nor the mempool.
LEMMA LocalOK ==
  ASSUME IInv, UNCHANGED <<chainVars, mempool, calm>>,
         file' \in File, JobOK',
         job'.at \in {"sync", "classify", "saving"} => job'.f.phase # "none",
         job'.at \in {"ready", "planned"} => Len(job'.nft) <= Len(nft),
         job'.at = "planned" /\ job'.nft = nft => job'.coins \subseteq Unspent,
         KeepInv'
  PROVE  IInv'
<1>1. nft' = nft /\ chain' = chain /\ spent' = spent /\ mempool' = mempool
  BY DEF chainVars
<1>2. calm' \in BOOLEAN
  <2>1. calm' = calm
    OBVIOUS
  <2>2. QED
    BY <2>1, Zenon DEF IInv, TypeOK
<1>3. TypeOK'
  BY <1>1, <1>2 DEF IInv, TypeOK
<1>4. PlanInv'
  BY <1>1 DEF IInv, PlanInv, Unspent
<1>5. QED
  BY <1>3, <1>4 DEF IInv

LEMMA StopOK ==
  ASSUME IInv, UNCHANGED <<chainVars, mempool, calm>>, file' \in File, job' = Idle
  PROVE  IInv'
<1>1. job'.at = "idle"
  BY DEF Idle
<1>2. JobOK' /\ KeepInv'
  BY <1>1 DEF JobOK, KeepInv
<1>3. QED
  BY <1>1, <1>2, LocalOK

LEMMA SweepStepsOK ==
  ASSUME IInv, (\E kind \in Kinds : BeginSweep(kind)) \/ PlanSweep \/ GiveUp \/ SaveSweep
               \/ RecoverTracks \/ Crash
  PROVE  IInv'
<1>1. file \in File /\ JobOK /\ nft \in Seq(Owners) /\ chain \subseteq Coin
  BY DEF IInv, TypeOK
<1>2. ASSUME NEW kind \in Kinds, BeginSweep(kind) PROVE IInv'
  <2>1. job' = [at |-> "ready", kind |-> kind, nft |-> file.nft] /\ file' = file
    BY <1>2 DEF BeginSweep
  <2>2. file.nft = nft
    BY <1>2 DEF BeginSweep, Ready, NftStatus
  <2>3. JobOK' /\ KeepInv' /\ job'.at = "ready"
    BY <1>1, <2>1, <2>2 DEF JobOK, KeepInv
  <2>4. QED
    BY <1>1, <1>2, <2>1, <2>2, <2>3, LocalOK DEF BeginSweep
<1>3. CASE PlanSweep
  <2> DEFINE S == Selected(Unspent, SweepCap(job.kind))
  <2>1. S \subseteq Unspent /\ S \subseteq Coin
    BY <1>1 DEF Selected, Unspent
  <2>2. job' = [at |-> "planned", kind |-> job.kind, nft |-> job.nft, coins |-> S] /\ file' = file
        /\ job.at = "ready"
    BY <1>3 DEF PlanSweep
  <2> HIDE DEF S
  <2>3. JobOK' /\ KeepInv' /\ job'.at = "planned" /\ job'.nft = job.nft /\ job'.coins = S
    BY <1>1, <2>1, <2>2 DEF JobOK, KeepInv
  <2>4. Len(job.nft) <= Len(nft)
    BY <2>2 DEF IInv, PlanInv
  <2>5. QED
    BY <1>1, <1>3, <2>1, <2>2, <2>3, <2>4, LocalOK DEF PlanSweep
<1>4. CASE GiveUp \/ Crash
  BY <1>1, <1>4, StopOK DEF GiveUp, Crash
<1>5. CASE SaveSweep
  <2>1. job.tx \in Tx
    BY <1>1, <1>5 DEF SaveSweep, JobOK
  <2>2. Append(job.tx.nft, job.tx.to) \in Seq(Owners)
    BY <2>1 DEF Tx
  <2>3. file' \in File
    BY <1>1, <1>5, <2>2 DEF SaveSweep, File, Phase
  <2>4. QED
    BY <1>5, <2>3, StopOK DEF SaveSweep
<1>6. CASE RecoverTracks
  <2>1. file' \in File /\ job' = Idle
    BY <1>1, <1>6, BackfilledOK DEF RecoverTracks
  <2>2. QED
    BY <1>6, <2>1, StopOK DEF RecoverTracks
<1>7. QED
  BY <1>2, <1>3, <1>4, <1>5, <1>6

LEMMA PushOK == ASSUME IInv, PushSweep PROVE IInv'
<1>1. PICK t \in SweepTxs(job) :
        /\ Valid(t)
        /\ mempool' = {u \in mempool : u.nft # t.nft} \cup {t}
        /\ \/ job' = [at |-> "pushed", kind |-> job.kind, tx |-> t]
           \/ Fault("lost_reply") /\ job' = Idle
  BY DEF PushSweep
<1>2. nft' = nft /\ chain' = chain /\ spent' = spent /\ file' = file /\ job.at = "planned"
  BY DEF PushSweep, chainVars
<1>3. t \in Tx /\ t.nft = nft /\ t.coins \subseteq Unspent
  BY <1>1, <1>2 DEF SweepTxs, Tx, Valid, IInv, TypeOK, JobOK, Owners
<1>4. calm' \in BOOLEAN
  <2>1. calm' = calm
    BY DEF PushSweep
  <2>2. QED
    BY <2>1, Zenon DEF IInv, TypeOK
<1>5. JobOK' /\ KeepInv' /\ job'.at \in {"pushed", "idle"}
  BY <1>1, <1>2, <1>3 DEF JobOK, KeepInv, Idle, IInv, TypeOK
<1>6. TypeOK'
  BY <1>1, <1>2, <1>3, <1>4, <1>5 DEF IInv, TypeOK
<1>7. PlanInv'
  <2>1. nft \in Seq(Owners)
    BY DEF IInv, TypeOK
  <2>2. QED
    BY <1>1, <1>2, <1>3, <1>5, <2>1 DEF IInv, PlanInv, Unspent
<1>8. QED
  BY <1>5, <1>6, <1>7 DEF IInv

LEMMA SyncOK == ASSUME IInv, Sync PROVE IInv'
<1>1. /\ file \in File /\ JobOK /\ nft \in Seq(Owners) /\ chain \subseteq Coin /\ KeepInv
      /\ job.at \in {"sync", "classify", "saving"} => job.f \in File /\ job.f.phase # "none"
  BY DEF IInv, TypeOK, JobOK
<1>2. CASE BeginSync
  <2>1. PICK f \in File : job' = [at |-> "sync", f |-> f] /\ f.phase # "none" /\ f.funded = file.funded
    <3>1. Followed(file) \in File /\ Followed(file).funded = file.funded
      BY <1>1, FollowedOK
    <3>2. QED
      BY <1>1, <1>2, <3>1, BackfilledOK DEF BeginSync
  <2>2. file' = file
    BY <1>2 DEF BeginSync
  <2>3. JobOK' /\ KeepInv'
    BY <2>1, <2>2 DEF JobOK, KeepInv
  <2>4. QED
    BY <1>1, <1>2, <2>1, <2>2, <2>3, LocalOK DEF BeginSync
<1>3. CASE FetchLive
  <2>1. job' = [at |-> "classify", f |-> job.f, live |-> Unspent, kept |-> {},
                todo |-> job.f.funded \ Unspent] /\ file' = file /\ job.at = "sync"
    BY <1>3 DEF FetchLive
  <2>2. Unspent \subseteq Coin /\ job.f.funded \subseteq Coin /\ job.f \in File
    BY <1>1, <2>1 DEF Unspent, File
  <2>3. JobOK'
    BY <2>1, <2>2 DEF JobOK
  <2>4. KeepInv'
    BY <1>1, <2>1 DEF KeepInv
  <2>5. QED
    BY <1>1, <1>3, <2>1, <2>3, <2>4, LocalOK DEF FetchLive
<1>4. CASE FetchFailed
  <2>1. job' = [at |-> "saving", f |-> job.f] /\ file' = file /\ job.at = "sync"
    BY <1>4 DEF FetchFailed
  <2>2. JobOK' /\ KeepInv'
    BY <1>1, <2>1 DEF JobOK, KeepInv
  <2>3. QED
    BY <1>1, <1>4, <2>1, <2>2, LocalOK DEF FetchFailed
<1>5. ASSUME NEW c \in Coin, Classify(c) \/ ClassifyFailed(c) PROVE IInv'
  <2>1. /\ job.at = "classify" /\ file' = file /\ chain' = chain
        /\ job'.at = "classify" /\ job'.f = job.f /\ job'.live = job.live
        /\ job'.todo = job.todo \ {c}
        /\ \/ job'.kept = job.kept \cup {c}
           \/ job'.kept = job.kept /\ c \in chain
    <3>1. CASE Classify(c)
      <4>1. Status(c) # "NotFound" => c \in spent \cup chain
        BY DEF Status
      <4>2. spent \subseteq chain
        BY DEF IInv, TypeOK
      <4>3. QED
        BY <3>1, <4>1, <4>2 DEF Classify, chainVars
    <3>2. CASE ClassifyFailed(c)
      BY <3>2 DEF ClassifyFailed, chainVars
    <3>3. QED
      BY <1>5, <3>1, <3>2
  <2>2. JobOK'
    BY <1>1, <1>5, <2>1 DEF JobOK
  <2>3. KeepInv'
    BY <1>1, <2>1 DEF KeepInv
  <2>4. UNCHANGED <<chainVars, mempool, calm>>
    BY <1>5 DEF Classify, ClassifyFailed
  <2>5. QED
    BY <1>1, <2>1, <2>2, <2>3, <2>4, LocalOK
<1>6. CASE EndClassify
  <2> DEFINE f == Refreshed(job.f, job.live, job.kept)
  <2>1. /\ job.at = "classify" /\ job.todo = {} /\ file' = file /\ chain' = chain
        /\ job' = [at |-> "saving", f |-> f]
    BY <1>6 DEF EndClassify, chainVars
  <2>2. f \in File /\ f.phase # "none" /\ f.funded = job.live \cup job.kept
    <3>1. job.f \in File /\ job.live \in SUBSET Coin /\ job.kept \in SUBSET Coin
      BY <1>1, <2>1 DEF JobOK
    <3>2. QED
      BY <3>1, RefreshedOK
  <2> HIDE DEF f
  <2>3. JobOK' /\ KeepInv'
    BY <1>1, <2>1, <2>2 DEF JobOK, KeepInv
  <2>4. QED
    BY <1>1, <1>6, <2>1, <2>2, <2>3, LocalOK DEF EndClassify
<1>7. CASE SaveSync
  BY <1>1, <1>7, StopOK DEF SaveSync
<1>8. QED
  BY <1>2, <1>3, <1>4, <1>5, <1>6, <1>7 DEF Sync

\* A block with the NFT in it leaves no sweep of the wallet in the mempool.
LEMMA BlockOK ==
  ASSUME IInv, NEW to \in Owners, NEW S \in SUBSET Unspent, NEW pool \in SUBSET mempool,
         Block(to, S, pool), UNCHANGED <<file, job, calm>>
  PROVE  IInv'
<1>1. /\ nft' = Append(nft, to) /\ spent' = spent \cup S /\ chain' = chain
      /\ mempool' = {t \in pool : t.nft = nft'} /\ nft \in Seq(Owners)
  BY DEF Block, IInv, TypeOK
<1>2. nft' \in Seq(Owners) /\ nft' # <<>> /\ Len(nft') = Len(nft) + 1
  BY <1>1
<1>3. mempool' = {}
  <2>1. \A t \in pool : Len(t.nft) <= Len(nft)
    BY DEF IInv, PlanInv
  <2>2. \A t \in pool : t.nft # nft'
    BY <1>1, <1>2, <2>1
  <2>3. QED
    BY <1>1, <2>2
<1>4. calm' \in BOOLEAN
  <2>1. calm' = calm
    OBVIOUS
  <2>2. QED
    BY <2>1, Zenon DEF IInv, TypeOK
<1>5. TypeOK'
  BY <1>1, <1>2, <1>3, <1>4 DEF IInv, TypeOK, JobOK, Unspent
<1>6. PlanInv'
  <2>1. job.at \in {"ready", "planned"} => Len(job.nft) <= Len(nft) /\ job.nft # nft' /\ job.nft \in Seq(Owners)
    BY <1>1, <1>2 DEF IInv, PlanInv, TypeOK, JobOK
  <2>2. QED
    BY <1>1, <1>2, <1>3, <2>1 DEF PlanInv
<1>7. KeepInv'
  BY <1>1 DEF IInv, KeepInv
<1>8. QED
  BY <1>5, <1>6, <1>7 DEF IInv

LEMMA NetworkOK == ASSUME IInv, Network PROVE IInv'
<1>1. mempool \subseteq Tx /\ spent \subseteq chain /\ chain \subseteq Coin
  BY DEF IInv, TypeOK
<1>2. ASSUME NEW c \in Coin, Deposit(c) PROVE IInv'
  <2>1. /\ nft' = nft /\ chain' = chain \cup {c} /\ spent' = spent /\ mempool' = mempool
        /\ file' = file /\ job' = job
    BY <1>2 DEF Deposit
  <2>2. calm' \in BOOLEAN
    <3>1. calm' = calm
      BY <1>2 DEF Deposit
    <3>2. QED
      BY <3>1, Zenon DEF IInv, TypeOK
  <2>3. TypeOK'
    BY <1>1, <2>1, <2>2 DEF IInv, TypeOK, JobOK
  <2>4. PlanInv' /\ KeepInv'
    BY <2>1 DEF IInv, PlanInv, KeepInv, Unspent
  <2>5. QED
    BY <2>3, <2>4 DEF IInv
<1>3. ASSUME NEW to \in Owners, NftMoves(to) PROVE IInv'
  BY <1>3, BlockOK DEF NftMoves
<1>4. ASSUME NEW to \in Owners, NEW S \in SUBSET Unspent, PeerSweeps(to, S) PROVE IInv'
  BY <1>4, BlockOK DEF PeerSweeps
<1>5. ASSUME NEW t \in mempool, Confirm(t) PROVE IInv'
  <2>1. t.to \in Owners /\ t.coins \in SUBSET Unspent
    BY <1>1, <1>5 DEF Confirm, Valid, Tx
  <2>2. QED
    BY <1>5, <2>1, BlockOK DEF Confirm
<1>6. ASSUME UNCHANGED <<chainVars, file, job>>, mempool' \subseteq mempool, calm' \in BOOLEAN
      PROVE  IInv'
  <2>1. TypeOK'
    BY <1>6 DEF IInv, TypeOK, JobOK, chainVars
  <2>2. PlanInv' /\ KeepInv'
    BY <1>6 DEF IInv, PlanInv, KeepInv, Unspent, chainVars
  <2>3. QED
    BY <2>1, <2>2 DEF IInv
<1>7. ASSUME NEW t \in mempool, Drop(t) PROVE IInv'
  <2>1. calm' \in BOOLEAN
    BY <1>7, Zenon DEF Drop, IInv, TypeOK
  <2>2. QED
    BY <1>6, <1>7, <2>1 DEF Drop
<1>8. CASE Calm
  <2>1. calm' \in BOOLEAN
    BY <1>8, Zenon DEF Calm
  <2>2. QED
    BY <1>6, <1>8, <2>1 DEF Calm
<1>9. QED
  BY <1>2, <1>3, <1>4, <1>5, <1>7, <1>8 DEF Network

THEOREM Invariant == Spec => []IInv
<1>1. IInv /\ Next => IInv'
  BY SweepStepsOK, PushOK, SyncOK, NetworkOK DEF Next, Command
<1>2. IInv /\ UNCHANGED vars => IInv'
  <2> SUFFICES ASSUME IInv, UNCHANGED vars PROVE IInv'
    OBVIOUS
  <2>1. calm' \in BOOLEAN
    BY Zenon DEF vars, IInv, TypeOK
  <2>2. TypeOK' /\ PlanInv' /\ KeepInv'
    BY <2>1 DEF vars, IInv, TypeOK, JobOK, PlanInv, KeepInv, Unspent
  <2>3. QED
    BY <2>2 DEF IInv
<1>3. QED
  BY InitInv, <1>1, <1>2, PTL DEF Spec

\* Every variable keeps its shape, and the income record is never lost while
\* sync rewrites it (sync.rs, reconcile_p2_singletons).
THEOREM TypeCorrect == Spec => []TypeOK
<1>1. IInv => TypeOK
  BY DEF IInv
<1>2. QED
  BY Invariant, <1>1, PTL

\* A sweep is spent whole or not at all (main.rs, cmd_nft_sweep): it was
\* planned after its NFT coin was seen live, so while that coin is, none of the
\* income coins in the plan or in the bundle can have been spent.
THEOREM SweepIsWhole == Spec => []SweepIsAllOrNothing
<1>1. IInv => SweepIsAllOrNothing
  BY DEF IInv, PlanInv, SweepIsAllOrNothing
<1>2. QED
  BY Invariant, <1>1, PTL

\* An income coin leaves the record only after a block had it, or when a sweep
\* empties the record: no interleaving of deposits, sweeps, failed lookups and
\* crashes with the two lookups of sync loses one (sync.rs, reconcile_p2_singletons).
THEOREM NothingIsForgotten == Spec => PendingIsKept
<1>1. IInv /\ [Next]_vars
      => [\A c \in file.funded \ file'.funded : c \in chain \/ job.at = "pushed"]_vars
  <2> SUFFICES ASSUME IInv, Next, file' # file, job.at # "pushed"
               PROVE  file.funded \subseteq file'.funded \cup chain
    BY DEF vars
  <2>1. CASE SaveSync
    BY <2>1 DEF SaveSync, IInv, KeepInv
  <2>2. CASE RecoverTracks
    BY <2>2, BackfilledOK DEF RecoverTracks, IInv, TypeOK
  <2>3. Command => RecoverTracks
    BY DEF Command, BeginSweep, PlanSweep, PushSweep, GiveUp, SaveSweep, Crash
  <2>4. Sync => SaveSync
    BY DEF Sync, BeginSync, FetchLive, FetchFailed, Classify, ClassifyFailed, EndClassify
  <2>5. ~Network
    BY DEF Network, Deposit, NftMoves, PeerSweeps, Confirm, Drop, Calm
  <2>6. QED
    BY <2>1, <2>2, <2>3, <2>4, <2>5 DEF Next
<1>2. QED
  BY Invariant, <1>1, PTL DEF Spec, PendingIsKept

-----------------------------------------------------------------------------
(* Amounts. *)

\* A sweep over the cap takes as much as any as many coins could give
\* (p2_singleton.rs, plan_sweep): the coins it takes are the highest ones, and each
\* coin of another choice is worth no more than one it leaves out of them.
THEOREM SweepIsMost == Spec => []SweepTakesMost
<1>1. IInv => SweepTakesMost
  <2> SUFFICES ASSUME IInv, job.at = "ready", NEW S \in SUBSET Unspent,
                      Cardinality(S) <= SweepCap(job.kind)
               PROVE  Total(S) <= Total(Selected(Unspent, SweepCap(job.kind)))
    BY DEF SweepTakesMost
  <2>1. Unspent \in SUBSET Coin
    BY DEF IInv, TypeOK, Unspent
  <2>2. IsFiniteSet(Unspent)
    BY <2>1, PaymentsAssumption, FS_Subset
  <2>3. SweepCap(job.kind) \in Nat
    BY IncomeAssumption DEF SweepCap
  <2>4. QED
    BY <2>1, <2>2, <2>3, SelectedIsMost
<1>2. QED
  BY Invariant, <1>1, PTL

LEMMA SweepOK == ASSUME NEW S \in SUBSET Coin PROVE SweepBalances(S)
<1> SUFFICES ASSUME NEW fee \in 0..MaxU64, CanSweep(S, fee)
             PROVE  Balanced(SweepTx(S, fee)) /\ SweepTx(S, fee).pay % 2 = 0
  BY DEF SweepBalances
<1>1. Total(S) \in Nat /\ fee \in Nat /\ fee <= Total(S)
  <2>1. Total(S) \in Nat
    BY PaymentsAssumption, FS_Subset, TotalNat
  <2>2. QED
    BY <2>1, PaymentsAssumption DEF CanSweep
<1> DEFINE p == Payout(S, fee)
           d == Donation(S, fee)
<1>2. d \in 0..1 /\ p = Total(S) - fee - d /\ p \in Nat /\ p % 2 = 0
  <2>1. \A n \in Nat : n % 2 \in 0..1 /\ n - (n % 2) \in Nat /\ (n - (n % 2)) % 2 = 0
    OBVIOUS
  <2>2. Total(S) - fee \in Nat
    BY <1>1
  <2>3. QED
    BY <2>1, <2>2 DEF Payout, Donation
<1>3. SweepTx(S, fee) = [in |-> Total(S) + 1, pay |-> p, back |-> 1, fee |-> fee + d]
  BY DEF SweepTx, Bundle
<1> HIDE DEF p, d
<1>4. Total(S) + 1 = p + 1 + (fee + d)
  BY <1>1, <1>2
<1>5. QED
  BY <1>2, <1>3, <1>4 DEF Balanced

\* What a checked balance funds balances.
LEMMA CheckedOK == ASSUME NEW S \in SUBSET Coin PROVE CheckedBalances(S)
<1> SUFFICES ASSUME NEW value \in 0..MaxU64, NEW fee \in 0..MaxU64,
                    NEW b \in XchTxs(S, value, fee) \cup TakeTxs(S, value, fee)
             PROVE  Balanced(b)
  BY DEF CheckedBalances
<1>1. value \in Nat /\ fee \in Nat /\ MaxU64 \in Nat
  BY PaymentsAssumption
<1>2. Total(S) \in Nat /\ Total(S) <= MaxU64
  BY PaymentsAssumption, FS_Subset, TotalNat DEF XchTxs, TakeTxs, Spendable
<1>3. CASE b \in Funded(S, value, fee)
  <2>1. /\ b.in \in Nat /\ b.in <= Total(S) /\ b.pay = value /\ b.fee = fee
        /\ b.in - value - fee \in 0..MaxU64 => b.back = b.in - value - fee
        /\ b.in - value - fee \in Nat
    BY <1>1, <1>3, FundedOK
  <2>2. b.in - value - fee \in 0..MaxU64
    BY <1>1, <1>2, <2>1
  <2>3. QED
    BY <1>1, <2>1, <2>2 DEF Balanced
<1>4. CASE b \in SpendAllTxs(S, fee)
  <2>1. b = [in |-> Total(S), pay |-> Total(S) - fee, back |-> 0, fee |-> fee]
    BY <1>4 DEF SpendAllTxs, Bundle
  <2>2. QED
    BY <1>1, <1>2, <2>1 DEF Balanced
<1>5. QED
  BY <1>3, <1>4 DEF XchTxs, TakeTxs

\* What any sum funds balances if the change due is a u64.
LEMMA UncheckedOK == ASSUME NEW S \in SUBSET Coin PROVE UncheckedBalances(S)
<1>1. ASSUME NEW value \in Nat, NEW fee \in Nat, NEW b \in Funded(S, value, fee)
      PROVE  IF ChangeFits(b) THEN Balanced(b) ELSE b.pay + b.back + b.fee < b.in
  <2>1. /\ b.in \in Nat /\ b.back \in 0..MaxU64 /\ b.pay = value /\ b.fee = fee
        /\ b.in - value - fee \in 0..MaxU64 => b.back = b.in - value - fee
        /\ b.in - value - fee \in Nat
    BY <1>1, FundedOK
  <2>2. QED
    BY <2>1, PaymentsAssumption DEF ChangeFits, Balanced
<1>2. 0..MaxU64 \subseteq Nat
  OBVIOUS
<1>3. ASSUME NEW value \in 0..MaxU64, NEW fee \in 0..MaxU64,
             NEW b \in LaunchTxs(S, fee) \cup ExerciseTxs(S, value, fee) \cup ClawbackTxs(S, fee)
      PROVE  IF ChangeFits(b) THEN Balanced(b) ELSE b.pay + b.back + b.fee < b.in
  <2>1. \E v \in Nat : b \in Funded(S, v, fee)
    BY <1>2, <1>3 DEF LaunchTxs, ExerciseTxs, ClawbackTxs
  <2>2. QED
    BY <1>1, <1>2, <2>1
<1>4. QED
  BY <1>3 DEF UncheckedBalances

\* Every sweep, send, consolidation and take pays, gives back and leaves as fee
\* what it takes in, for any coins, amounts and fees; so does every bundle made
\* from a sum that wrapped, unless the change due is no u64, and then it gives
\* back less (wallet.rs, select_for, spend_selection, spend_all; p2_singleton.rs,
\* build_sweep).
THEOREM BundlesAreBalanced == Spec => []BundlesBalance
<1>1. IInv => BundlesBalance
  <2> SUFFICES ASSUME IInv
               PROVE  /\ job.at = "planned" => SweepBalances(job.coins)
                      /\ CheckedBalances(Coin \ chain) /\ UncheckedBalances(Coin \ chain)
    BY DEF BundlesBalance
  <2>1. job.at = "planned" => job.coins \in SUBSET Coin
    BY DEF IInv, TypeOK, JobOK
  <2>2. Coin \ chain \in SUBSET Coin
    OBVIOUS
  <2>3. QED
    BY <2>1, <2>2, SweepOK, CheckedOK, UncheckedOK
<1>2. QED
  BY Invariant, <1>1, PTL
=============================================================================
