------------------------------ MODULE Lifecycle ------------------------------
(***************************************************************************)
(* What the state file says of an NFT and of the options written on it,    *)
(* against what the chain holds.                                           *)
(*                                                                         *)
(* Every command takes the file's word for which coin a singleton is, asks *)
(* the node about that coin only, pushes a bundle, and writes into the     *)
(* file what will be true once the bundle is in a block.  Whether it ever  *)
(* is, the command does not wait to see: `sync` and `status` walk each     *)
(* record forward to the live coin later, if they can.  Other wallets buy, *)
(* exercise and sell meanwhile, and options expire.                        *)
(*                                                                         *)
(* A singleton coin's id is a hash of its parent's id and its owner's      *)
(* puzzle hash, so a coin is the sequence of owners since the launch: the  *)
(* live coin is the whole sequence, its proper prefixes are spent coins,   *)
(* and an id no bundle ever created is a sequence that is not a prefix.    *)
(* A sale of an option and the exercise of a transfer option pass the      *)
(* singleton through the settlement puzzle, whose coin the same bundle     *)
(* spends: it makes two coins.  Those of a launch are one coin here, the   *)
(* one it leaves.  XCH coins and the log are in CoinReservation, income in *)
(* the modules of the income address.  One invocation of the program runs  *)
(* at a time.                                                              *)
(***************************************************************************)
EXTENDS Naturals, Sequences, FiniteSets, SequencesExt

CONSTANTS
  Me, Peer,      \* this wallet, and every other one
  Settle,        \* the settlement puzzle, which owns no coin after the block
  MaxOpt,        \* options ever launched
  MaxNftGen,     \* coins of the NFT that outlive their block, the bound on its path
  MaxOptGen,     \* the same for one option
  Env,           \* what may happen besides this wallet's commands
  Faults         \* what may go wrong with them

Opt == 1..MaxOpt
Party == {Me, Peer}
Kinds == {"transfer", "sweep"}

EnvKind ==
  { "buys",       \* someone takes an offer this wallet made
    "exercises",  \* the holder of an option exercises it
    "sells",      \* others write options on the NFT, offer and claw back
    "sends",      \* others send the NFT here
    "races" }     \* something of the above, or an option's expiry, overtakes a
                  \* bundle of this wallet that is still in the mempool
FaultKind == {"crash", "lost_reply", "drop", "lookup"}

ASSUME LifecycleAssumption ==
  /\ Me # Peer /\ Party \cap Opt = {} /\ Settle \notin Party \cup Opt
  /\ MaxOpt \in Nat /\ MaxNftGen \in Nat /\ MaxOptGen \in Nat
  /\ Env \subseteq EnvKind /\ Faults \subseteq FaultKind

VARIABLES
  nft,      \* the NFT's path; <<>> before it is minted
  opt,      \* each option's path; <<>> before it is launched
  melted,   \* options whose last coin was spent by an exercise
  terms,    \* what each launched or planned option commits to
  expired,  \* is the deadline of the options past?
  mempool,  \* bundles of this wallet that are not in a block
  offers,   \* option coins this wallet has signed an offer for
  state,    \* the state file
  job       \* the command that is running, and its copy of the state

vars == <<nft, opt, melted, terms, expired, mempool, offers, state, job>>
chainVars == <<nft, opt, melted>>

Phase == {"none", "pending", "confirmed", "superseded"}
NoNft == [coin |-> <<>>, phase |-> "none"]
NoOption == [coin |-> <<>>, phase |-> "none", known |-> FALSE, reclaimed |-> FALSE]
NoTerms == [lock |-> <<>>, kind |-> "transfer", creator |-> Peer]
Idle == [at |-> "idle"]

Init ==
  /\ nft \in {<<>>, <<Peer>>}
  /\ opt = [o \in Opt |-> <<>>]
  /\ melted = {}
  /\ terms = [o \in Opt |-> NoTerms]
  /\ expired = FALSE
  /\ mempool = {}
  /\ offers = {}
  /\ state \in {[nft |-> NoNft, opt |-> [o \in Opt |-> NoOption], ph |-> b] : b \in BOOLEAN}
  /\ job = Idle

-----------------------------------------------------------------------------
(* The chain. *)

\* The owner a coin is locked to.
Owner(coin) == coin[Len(coin)]

\* ChainStatus of a coin of the NFT or of an option, given the live path.
Status(coin, path, gone) ==
  IF coin = <<>> \/ ~IsPrefix(coin, path) THEN "NotFound"
  ELSE IF coin = path /\ ~gone THEN "ConfirmedUnspent" ELSE "Spent"

NftStatus(coin) == Status(coin, nft, FALSE)
OptStatus(o, coin) == Status(coin, opt[o], o \in melted)

\* The coins that outlive their block, for these owners.
Path(S) == {p \in Seq(S \cup {Settle}) : p # <<>> => Owner(p) \in S}
NftPath == Path(Party \cup Opt)
OptPath == Path(Party)

\* How many of them are on a path.
Gen(coin) == Cardinality({i \in DOMAIN coin : coin[i] # Settle})

\* The coin that a bundle leaves of the one it spends.
Passed(coin, settled, to) == Append(IF settled THEN Append(coin, Settle) ELSE coin, to)

\* A bundle: the NFT coin and the option coin it spends, who owns what it
\* creates instead (to: the NFT, own: the option), and whether that passed
\* through the settlement puzzle.
Tx == [kind : {"mint", "sweep", "create", "take", "exercise", "clawback"}, o : 0..MaxOpt,
       nft : NftPath, coin : OptPath, to : Party \cup Opt, own : Party, settled : BOOLEAN]

NftChild(t) == Passed(t.nft, t.settled, t.to)
OptChild(t) == Passed(t.coin, t.settled, t.own)

\* The coins a bundle spends are the live ones.
InputsLive(t, n, op, gone) ==
  /\ t.kind # "take" => t.nft = n
  /\ t.kind \in {"take", "exercise"} => t.coin = op[t.o] /\ t.o \notin gone

\* The puzzles it reveals are theirs, and its time conditions hold.
Valid(t) ==
  /\ InputsLive(t, nft, opt, melted)
  /\ t.kind \in {"sweep", "create"} => Owner(nft) = Me
  /\ t.kind = "exercise" => ~expired /\ nft = terms[t.o].lock /\ Owner(t.coin) = Me
  /\ t.kind = "clawback" => expired /\ nft = terms[t.o].lock /\ terms[t.o].creator = Me

\* A block leaves the chain like this; bundles that spend what it spent are gone.
Block(n, op, gone, pool) ==
  /\ nft' = n /\ opt' = op /\ melted' = gone
  /\ mempool' = {u \in pool : InputsLive(u, n, op, gone)}

Confirm(t) ==
  /\ Valid(t)
  /\ Block(IF t.kind = "take" THEN nft ELSE NftChild(t),
           IF t.kind \in {"create", "take"} THEN [opt EXCEPT ![t.o] = OptChild(t)] ELSE opt,
           IF t.kind = "exercise" THEN melted \cup {t.o} ELSE melted,
           mempool \ {t})
  /\ UNCHANGED <<terms, expired, offers, state, job>>

\* Nobody else's step makes a bundle of the wallet invalid.
Uncontested == "races" \in Env \/ mempool' = mempool

Drop(t) ==
  /\ "drop" \in Faults
  /\ mempool' = mempool \ {t}
  /\ UNCHANGED <<chainVars, terms, expired, offers, state, job>>

\* The deadline passes.  A bundle that asserts it has not can no longer confirm.
Expire ==
  /\ ~expired
  /\ expired' = TRUE
  /\ mempool' = {t \in mempool : t.kind # "exercise"}
  /\ Uncontested
  /\ UNCHANGED <<chainVars, terms, offers, state, job>>

-----------------------------------------------------------------------------
(* The other wallets, straight onto the chain. *)

Launched == {o \in Opt : opt[o] # <<>>}
Live == Launched \ melted

PeerBuys(o) ==
  /\ "buys" \in Env /\ Gen(opt[o]) < MaxOptGen
  /\ o \in Live /\ <<o, opt[o]>> \in offers
  /\ Block(nft, [opt EXCEPT ![o] = Passed(@, TRUE, Peer)], melted, mempool)
  /\ Uncontested
  /\ UNCHANGED <<terms, expired, offers, state, job>>

PeerExercises(o) ==
  /\ "exercises" \in Env /\ Gen(nft) < MaxNftGen
  /\ o \in Live /\ Owner(opt[o]) = Peer /\ nft = terms[o].lock /\ ~expired
  /\ Block(IF terms[o].kind = "transfer" THEN Passed(nft, TRUE, Peer)
                                         ELSE Passed(nft, FALSE, terms[o].creator),
           opt, melted \cup {o}, mempool)
  /\ Uncontested
  /\ UNCHANGED <<terms, expired, offers, state, job>>

\* The options are numbered in the order they are built.
NextOpt(o) == terms[o] = NoTerms /\ \A p \in Opt : p < o => terms[p] # NoTerms

PeerCreates(o) ==
  /\ "sells" \in Env /\ Gen(nft) < MaxNftGen
  /\ nft # <<>> /\ Owner(nft) = Peer /\ NextOpt(o)
  /\ \E k \in Kinds :
       terms' = [terms EXCEPT ![o] = [lock |-> Append(nft, o), kind |-> k, creator |-> Peer]]
  /\ Block(Append(nft, o), [opt EXCEPT ![o] = <<Peer>>], melted, mempool)
  /\ Uncontested
  /\ UNCHANGED <<expired, offers, state, job>>

PeerClawsBack(o) ==
  /\ "sells" \in Env /\ Gen(nft) < MaxNftGen
  /\ o \in Launched /\ nft = terms[o].lock /\ terms[o].creator = Peer /\ expired
  /\ Block(Append(nft, Peer), opt, melted, mempool)
  /\ Uncontested
  /\ UNCHANGED <<terms, expired, offers, state, job>>

PeerSends ==
  /\ "sends" \in Env /\ Gen(nft) < MaxNftGen
  /\ nft # <<>> /\ Owner(nft) = Peer
  /\ Block(Append(nft, Me), opt, melted, mempool)
  /\ Uncontested
  /\ UNCHANGED <<terms, expired, offers, state, job>>

-----------------------------------------------------------------------------
(* The bundles the commands build, on the coins their records name. *)

NftTx(kind, o, to) ==
  [kind |-> kind, o |-> o, nft |-> state.nft.coin, coin |-> <<>>, to |-> to, own |-> Me,
   settled |-> FALSE]

MintTx == [NftTx("mint", 0, Me) EXCEPT !.nft = <<>>]
SweepTx == NftTx("sweep", 0, Me)
CreateTx(o, owner) == [NftTx("create", o, o) EXCEPT !.own = owner]
TakeTx(o) == [NftTx("take", o, Me) EXCEPT !.nft = <<>>, !.coin = opt[o], !.settled = TRUE]
TransferTx(o) == [NftTx("exercise", o, Me) EXCEPT !.coin = state.opt[o].coin, !.settled = TRUE]
ReturnTx(o) == [TransferTx(o) EXCEPT !.to = terms[o].creator, !.settled = FALSE]
ExerciseTx(o) == IF terms[o].kind = "transfer" THEN TransferTx(o) ELSE ReturnTx(o)
ClawbackTx(o, to) == NftTx("clawback", o, to)

-----------------------------------------------------------------------------
(* The commands.  Each guard is the command's own, on the state it loaded; *)
(* the bundle is accepted when it is valid, in place of one it conflicts   *)
(* with, and `after` is the state the command saves next.                  *)

Conflict(t, u) ==
  \/ t.kind # "take" /\ u.kind # "take"
  \/ t.o = u.o /\ {t.kind, u.kind} \subseteq {"take", "exercise"}

\* Submit, when an answer other than SUCCESS passes for one.
Submit_Unanswered(t, after) ==
  /\ job = Idle
  /\ t.kind # "take" => Gen(NftChild(t)) <= MaxNftGen
  /\ Valid(t)
  /\ mempool' \in {mempool, {u \in mempool : ~Conflict(t, u)} \cup {t}}
  /\ job' = [at |-> "pushed", st |-> after, taken |-> IF t.kind = "take" THEN t.o ELSE 0]
  /\ UNCHANGED <<chainVars, expired, offers, state>>

Submit(t, after) ==
  /\ job = Idle
  /\ t.kind # "take" => Gen(NftChild(t)) <= MaxNftGen
  /\ Valid(t)
  /\ mempool' = {u \in mempool : ~Conflict(t, u)} \cup {t}
  /\ \/ job' = [at |-> "pushed", st |-> after, taken |-> IF t.kind = "take" THEN t.o ELSE 0]
     \/ "lost_reply" \in Faults /\ job' = Idle
  /\ UNCHANGED <<chainVars, expired, offers, state>>

WithNft(path, ph) == [state EXCEPT !.nft = [coin |-> path, phase |-> ph]]

\* cmd_nft_mint.  Every mint makes another NFT; the model follows the one it has.
Mint ==
  /\ state.nft.phase = "none" /\ \A u \in mempool : u.kind # "mint"
  /\ Submit(MintTx, WithNft(NftChild(MintTx), "pending"))
  /\ UNCHANGED terms

\* require_confirmed_unspent, on the coin of a record that is there.
NftReady == state.nft.phase # "none" /\ NftStatus(state.nft.coin) = "ConfirmedUnspent"
OptReady(o) ==
  /\ state.opt[o].phase # "none"
  /\ OptStatus(o, state.opt[o].coin) = "ConfirmedUnspent"

\* cmd_nft_sweep: the NFT moves to a new coin of the wallet.
SweepIncome ==
  /\ NftReady /\ Owner(state.nft.coin) = Me
  /\ Submit(SweepTx, WithNft(NftChild(SweepTx), "pending"))
  /\ UNCHANGED terms

\* cmd_option_create: the record of the NFT moves on to the locked coin at once,
\* as closed; Create_Pending leaves it open.
CreateGuard == state.nft.phase # "superseded" /\ NftReady

Create_Pending(o) ==
  /\ CreateGuard /\ NextOpt(o)
  /\ \E k \in Kinds, creator \in Party, owner \in Party :
       LET t == CreateTx(o, owner) IN
       /\ terms' = [terms EXCEPT ![o] = [lock |-> NftChild(t), kind |-> k, creator |-> creator]]
       /\ Submit(t, [WithNft(NftChild(t), "pending") EXCEPT
                      !.opt[o] = [coin |-> OptChild(t), phase |-> "pending",
                                  known |-> TRUE, reclaimed |-> FALSE]])

Create(o) ==
  /\ CreateGuard /\ NextOpt(o)
  /\ \E k \in Kinds, creator \in Party, owner \in Party :
       LET t == CreateTx(o, owner) IN
       /\ terms' = [terms EXCEPT ![o] = [lock |-> NftChild(t), kind |-> k, creator |-> creator]]
       /\ Submit(t, [WithNft(NftChild(t), "superseded") EXCEPT
                      !.opt[o] = [coin |-> OptChild(t), phase |-> "pending",
                                  known |-> TRUE, reclaimed |-> FALSE]])

\* cmd_option_offer: a signed spend of the option coin leaves the wallet.
Offer(o) ==
  /\ job = Idle
  /\ OptReady(o) /\ Owner(state.opt[o].coin) = Me
  /\ offers' = offers \cup {<<o, state.opt[o].coin>>}
  /\ UNCHANGED <<chainVars, terms, expired, mempool, state, job>>

\* What require_live_offer asks of an offer's option coin, here one of another wallet.
LiveOffer(o) == OptStatus(o, opt[o]) = "ConfirmedUnspent" /\ Owner(opt[o]) = Peer

\* purchased_option_record
Purchased(o) ==
  [coin |-> OptChild(TakeTx(o)), phase |-> "pending", known |-> FALSE, reclaimed |-> FALSE]

\* cmd_option_take: someone else's option coin is live.  The record starts
\* again, without terms, whatever was known of that option before.
Take(o) ==
  /\ Gen(opt[o]) < MaxOptGen
  /\ LiveOffer(o)
  /\ Submit(TakeTx(o), [state EXCEPT !.opt[o] = Purchased(o)])
  /\ UNCHANGED terms

\* ExerciseGuard without the deadline, and without the look at the option coin.
ExerciseGuard_AnyTime(o) ==
  /\ state.opt[o].phase \notin {"none", "superseded"}
  /\ state.opt[o].known
  /\ Owner(state.opt[o].coin) = Me
  /\ OptReady(o) /\ NftReady
  /\ Owner(state.nft.coin) = o

ExerciseGuard_FileOnly(o) ==
  /\ state.opt[o].phase \notin {"none", "superseded"}
  /\ state.opt[o].known
  /\ Owner(state.opt[o].coin) = Me
  /\ ~expired
  /\ NftReady
  /\ Owner(state.nft.coin) = o

\* cmd_option_exercise, up to the check that the NFT is locked in this option.
ExerciseGuard(o) ==
  /\ state.opt[o].phase \notin {"none", "superseded"}
  /\ state.opt[o].known
  /\ Owner(state.opt[o].coin) = Me
  /\ ~expired
  /\ OptReady(o) /\ NftReady
  /\ Owner(state.nft.coin) = o

Exercise(o) ==
  /\ ExerciseGuard(o)
  /\ Submit(ExerciseTx(o), [WithNft(NftChild(ExerciseTx(o)), "pending") EXCEPT
                             !.opt[o].phase = "superseded"])
  /\ UNCHANGED terms

\* ClawbackGuard without the check that the terms are known.
ClawbackGuard_Unknown(o) ==
  /\ state.opt[o].phase # "none" /\ ~state.opt[o].reclaimed
  /\ terms[o].creator = Me /\ expired
  /\ NftReady /\ Owner(state.nft.coin) = o

\* cmd_option_clawback, which does not look at the option's phase.
ClawbackGuard(o) ==
  /\ state.opt[o].phase # "none"
  /\ ~state.opt[o].reclaimed
  /\ state.opt[o].known
  /\ terms[o].creator = Me
  /\ expired
  /\ NftReady
  /\ Owner(state.nft.coin) = o

Clawback(o) ==
  /\ ClawbackGuard(o)
  /\ \E to \in Party :
       Submit(ClawbackTx(o, to),
              [WithNft(NftChild(ClawbackTx(o, to)), "pending") EXCEPT !.opt[o].reclaimed = TRUE])
  /\ UNCHANGED terms

\* state.save after a push; take goes on to recover the terms of what it bought.
Save ==
  /\ job.at = "pushed"
  /\ state' = job.st
  /\ job' = IF job.taken = 0 THEN Idle ELSE [at |-> "recover", o |-> job.taken]
  /\ UNCHANGED <<chainVars, terms, expired, mempool, offers>>

-----------------------------------------------------------------------------
(* recover_option_terms: the launcher was spent and the underlying coin has  *)
(* a record, spent or not.  The NFT's record becomes that coin.              *)

Recoverable(o) == o \in Launched /\ NftStatus(terms[o].lock) # "NotFound"

\* Recovered, when the record of the NFT keeps its phase.
Recovered_Open(o) == [state EXCEPT !.nft.coin = terms[o].lock, !.opt[o].known = TRUE]

Recovered(o) == [state EXCEPT !.nft = [coin |-> terms[o].lock, phase |-> "superseded"],
                              !.opt[o].known = TRUE]

Recover(o) ==
  /\ job = Idle
  /\ state.opt[o].phase # "none" /\ Recoverable(o)
  /\ state' = Recovered(o)
  /\ UNCHANGED <<chainVars, terms, expired, mempool, offers, job>>

RecoverTaken ==
  /\ job.at = "recover" /\ Recoverable(job.o)
  /\ state' = Recovered(job.o)
  /\ job' = Idle
  /\ UNCHANGED <<chainVars, terms, expired, mempool, offers>>

\* Best effort: take ends without the terms.
RecoverTakenFailed ==
  /\ job.at = "recover" /\ "lookup" \in Faults
  /\ job' = Idle
  /\ UNCHANGED <<chainVars, terms, expired, mempool, offers, state>>

-----------------------------------------------------------------------------
(* sync, status and show-all: reconcile the records in order, then save.    *)

\* Reconciled, when a coin without a record counts as live; when a live coin
\* confirms a record of any phase; and when only the phase is brought forward.
Reconciled_Missing(rec, path, gone, ph) ==
  IF rec.phase = "pending" THEN [rec EXCEPT !.phase = "confirmed"] ELSE rec

Reconciled_AnyPhase(rec, path, gone, ph) ==
  CASE Status(rec.coin, path, gone) = "NotFound" -> rec
    [] Status(rec.coin, path, gone) = "ConfirmedUnspent" -> [rec EXCEPT !.phase = "confirmed"]
    [] Status(rec.coin, path, gone) = "Spent" /\ gone -> [rec EXCEPT !.phase = "superseded"]
    [] OTHER -> [rec EXCEPT !.coin = path,
                            !.phase = IF ph /\ Owner(path) = Me THEN "confirmed"
                                                                   ELSE "superseded"]

Reconciled_SameCoin(rec, path, gone, ph) ==
  CASE Status(rec.coin, path, gone) = "NotFound" -> rec
    [] Status(rec.coin, path, gone) = "ConfirmedUnspent" ->
         IF rec.phase = "pending" THEN [rec EXCEPT !.phase = "confirmed"] ELSE rec
    [] OTHER -> [rec EXCEPT !.phase = IF ~gone /\ ph /\ Owner(path) = Me THEN "confirmed"
                                                                           ELSE "superseded"]

\* What a record becomes when its coin is followed to the live one.
Reconciled(rec, path, gone, ph) ==
  CASE Status(rec.coin, path, gone) = "NotFound" -> rec
    [] Status(rec.coin, path, gone) = "ConfirmedUnspent" ->
         IF rec.phase = "pending" THEN [rec EXCEPT !.phase = "confirmed"] ELSE rec
    [] Status(rec.coin, path, gone) = "Spent" /\ gone -> [rec EXCEPT !.phase = "superseded"]
    [] OTHER -> [rec EXCEPT !.coin = path,
                            !.phase = IF ph /\ Owner(path) = Me THEN "confirmed"
                                                                   ELSE "superseded"]

\* sync and status take the wallet's puzzle hash from the key file; show-all
\* takes the one in the state, which may be missing.
BeginSync ==
  /\ job = Idle
  /\ \E refresh \in BOOLEAN :
       job' = [at |-> "nft", st |-> [state EXCEPT !.ph = state.ph \/ refresh]]
  /\ UNCHANGED <<chainVars, terms, expired, mempool, offers, state>>

SyncNft ==
  /\ job.at = "nft"
  /\ job' = [at |-> "opt", next |-> 1,
             st |-> [job.st EXCEPT !.nft = Reconciled(@, nft, FALSE, job.st.ph)]]
  /\ UNCHANGED <<chainVars, terms, expired, mempool, offers, state>>

SyncOpt ==
  /\ job.at = "opt" /\ job.next \in Opt
  /\ LET o == job.next IN
     job' = [job EXCEPT !.next = o + 1,
                        !.st.opt[o] = Reconciled(@, opt[o], o \in melted, job.st.ph)]
  /\ UNCHANGED <<chainVars, terms, expired, mempool, offers, state>>

\* A failed lookup leaves that record as it was.
SyncLookupFailed ==
  /\ "lookup" \in Faults
  /\ \/ job.at = "nft" /\ job' = [at |-> "opt", next |-> 1, st |-> job.st]
     \/ job.at = "opt" /\ job.next \in Opt /\ job' = [job EXCEPT !.next = @ + 1]
  /\ UNCHANGED <<chainVars, terms, expired, mempool, offers, state>>

SaveSync ==
  /\ job.at = "opt" /\ job.next \notin Opt
  /\ state' = job.st
  /\ job' = Idle
  /\ UNCHANGED <<chainVars, terms, expired, mempool, offers>>

Crash ==
  /\ "crash" \in Faults
  /\ job # Idle
  /\ job' = Idle
  /\ UNCHANGED <<chainVars, terms, expired, mempool, offers, state>>

-----------------------------------------------------------------------------
Command ==
  \/ Mint \/ SweepIncome
  \/ \E o \in Opt : Create(o) \/ Offer(o) \/ Take(o) \/ Exercise(o) \/ Clawback(o) \/ Recover(o)
  \/ Save \/ RecoverTaken \/ RecoverTakenFailed
  \/ Crash

Sync == BeginSync \/ SyncNft \/ SyncOpt \/ SyncLookupFailed \/ SaveSync

Network ==
  \/ \E t \in mempool : Confirm(t) \/ Drop(t)
  \/ Expire
  \/ \E o \in Opt : PeerBuys(o) \/ PeerExercises(o) \/ PeerCreates(o) \/ PeerClawsBack(o)
  \/ PeerSends

Next == Command \/ Sync \/ Network

Spec == Init /\ [][Next]_vars

\* Blocks keep coming; a command that started goes on; the user keeps running sync.
Fairness ==
  /\ WF_vars(\E t \in mempool : Confirm(t))
  /\ WF_vars(Save \/ RecoverTaken)
  /\ SF_vars(BeginSync) /\ WF_vars(SyncNft) /\ WF_vars(SyncOpt) /\ WF_vars(SaveSync)

FairSpec == Spec /\ Fairness

-----------------------------------------------------------------------------
(* Properties. *)

NftRec == [coin : NftPath, phase : Phase]
OptRec == [coin : OptPath, phase : Phase, known : BOOLEAN, reclaimed : BOOLEAN]
State == [nft : NftRec, opt : [Opt -> OptRec], ph : BOOLEAN]

\* Every variable keeps its shape.  A record that is there names a coin, never
\* one of the settlement puzzle, and an option is flagged as reclaimed only with
\* its terms known.
TypeOK ==
  /\ nft \in NftPath /\ opt \in [Opt -> OptPath] /\ melted \subseteq Launched
  /\ terms \in [Opt -> [lock : NftPath, kind : Kinds, creator : Party]]
  /\ expired \in BOOLEAN
  /\ mempool \subseteq Tx
  /\ offers \subseteq Opt \X OptPath
  /\ state \in State
  /\ state.nft.phase = "none" <=> state.nft.coin = <<>>
  /\ \A o \in Opt : /\ state.opt[o].phase = "none" <=> state.opt[o].coin = <<>>
                    /\ state.opt[o].reclaimed => state.opt[o].known
  /\ job.at \in {"idle", "pushed", "recover", "nft", "opt"}
  /\ job.at \in {"pushed", "nft", "opt"} => job.st \in State

\* A record is only ever Confirmed when its coin was seen on chain
\* (state.rs, Phase), whatever was dropped, lost or interrupted.
ConfirmedWasSeen ==
  /\ state.nft.phase = "confirmed" => NftStatus(state.nft.coin) # "NotFound"
  /\ \A o \in Opt : state.opt[o].phase = "confirmed" => OptStatus(o, state.opt[o].coin) # "NotFound"

\* What cmd_option_exercise checks against its own file and the two coins it
\* looks up is enough: it never asks to confirm an exercise the chain would
\* refuse, however stale the file is.
ExerciseGuardsSuffice == \A o \in Opt : ExerciseGuard(o) => Valid(ExerciseTx(o))

\* An option flagged as reclaimed had its NFT reclaimed, or the clawback is in
\* the mempool and nothing can overtake it (cmd_option_clawback sets the flag
\* before the bundle is in a block).
ReclaimedIsTrue ==
  \A o \in Opt : state.opt[o].reclaimed =>
    \/ nft # terms[o].lock
    \/ \E t \in mempool : t.kind = "clawback" /\ t.o = o

\* A closed record is reopened only by following its coin to one the wallet
\* controls (sync.rs, Advanced), never by finding its own coin unspent.
Reopened(old, new) == old.phase = "superseded" /\ new.phase = "confirmed"

ReopenedOnlyToMine ==
  [][/\ Reopened(state.nft, state'.nft) =>
          state'.nft.coin # state.nft.coin /\ Owner(state'.nft.coin) = Me
     /\ \A o \in Opt : Reopened(state.opt[o], state'.opt[o]) =>
          state'.opt[o].coin # state.opt[o].coin /\ Owner(state'.opt[o].coin) = Me]_vars

\* The file agrees with the chain.
NftInSync ==
  state.nft.phase # "none" => state.nft.coin = nft /\ state.nft.phase # "pending"
OptInSync(o) ==
  state.opt[o].phase # "none" =>
    IF o \in melted THEN state.opt[o].phase = "superseded"
                    ELSE state.opt[o].coin = opt[o] /\ state.opt[o].phase # "pending"

\* Running sync brings every record to its live coin (README, "How status and
\* sync work").
SyncCatchesUp == []<>(NftInSync /\ \A o \in Opt : OptInSync(o))

-----------------------------------------------------------------------------
(* What status shows (status_view.rs). *)

NftState(phase, status, controlled) ==
  CASE status = "ConfirmedUnspent" /\ controlled -> "Ready"
    [] status = "ConfirmedUnspent" /\ ~controlled ->
         IF phase = "superseded" THEN "LockedInOption" ELSE "Transferred"
    [] status = "NotFound" /\ phase = "pending" -> "PendingConfirmation"
    [] OTHER -> "Closed"

\* OptionState, for which every closed option was exercised.
OptionState_AnyClosed(phase, status, controlled, past, reclaimed) ==
  CASE status = "ConfirmedUnspent" /\ phase = "superseded" -> "Exercised"
    [] status = "ConfirmedUnspent" /\ phase # "superseded" -> "Ready"
    [] status = "NotFound" -> "PendingConfirmation"
    [] OTHER -> "Exercised"

OptionState(phase, status, controlled, past, reclaimed) ==
  CASE status = "Spent" -> IF phase = "superseded" THEN "Exercised" ELSE "Closed"
    [] status = "NotFound" /\ phase = "pending" -> "PendingConfirmation"
    [] OTHER ->
         CASE reclaimed -> "Reclaimed"
           [] ~reclaimed /\ past -> "Expired"
           [] ~reclaimed /\ ~past /\ status = "NotFound" -> "Exercised"
           [] OTHER -> IF controlled THEN "Ready" ELSE "Transferred"

\* cmd_status: what is in the file, and the status of its coins.
Controlled(coin) == state.ph /\ Owner(coin) = Me
NftShown == NftState(state.nft.phase, NftStatus(state.nft.coin), Controlled(state.nft.coin))
OptShown(o) ==
  LET rec == state.opt[o] IN
  OptionState(rec.phase, OptStatus(o, rec.coin), Controlled(rec.coin),
              rec.known /\ expired, rec.reclaimed)

\* An NFT that is locked in an option is shown so once the file agrees with the
\* chain, however it came to be locked: it never looks sold or ready.
LockedIsShown ==
  state.nft.phase # "none" /\ NftInSync /\ Owner(nft) \in Opt => NftShown = "LockedInOption"

\* What is shown as locked in an option is locked in an option (UserState).
ShownLockedIsLocked ==
  state.nft.phase # "none" /\ NftInSync /\ state.ph /\ NftShown = "LockedInOption"
    => Owner(nft) \in Opt

\* An option is shown as exercised exactly when it was, once the file agrees
\* with the chain: neither a sale nor a clawback, which also close records,
\* looks like an exercise (UserState, status_view.rs).
ExercisedIsShown ==
  \A o \in Opt : state.opt[o].phase # "none" /\ OptInSync(o) =>
    (OptShown(o) = "Exercised" <=> o \in melted)

\* status flags an option as eligible for a clawback (clawback_eligible).
ClawbackEligible(o) ==
  /\ state.opt[o].phase \notin {"none", "superseded"}
  /\ state.opt[o].known /\ ~state.opt[o].reclaimed
  /\ expired
  /\ state.ph /\ terms[o].creator = Me

\* Every option whose NFT this wallet can claw back is flagged once the file
\* agrees with the chain (README, "Expired options").
ClawbackFlagged ==
  \A o \in Opt : ClawbackGuard(o) /\ state.ph /\ OptInSync(o) => ClawbackEligible(o)

-----------------------------------------------------------------------------
(* The NFT, as number 0, and the options, as their records track them.     *)

Singleton == 0..MaxOpt
PathOf(i) == IF i = 0 THEN nft ELSE opt[i]
CoinOf(i) == IF i = 0 THEN state.nft.coin ELSE state.opt[i].coin
PhaseOf(i) == IF i = 0 THEN state.nft.phase ELSE state.opt[i].phase

Tracks == INSTANCE RecordTracks WITH
  Id <- Singleton, Resettable <- {0}, Transit <- Settle,
  path <- [i \in Singleton |-> PathOf(i)],
  coin <- [i \in Singleton |-> CoinOf(i)],
  phase <- [i \in Singleton |-> PhaseOf(i)]

\* Every record tracks its singleton: it is never more than one bundle ahead of
\* the chain, as a command only saves what a bundle that the node took leaves of
\* a coin that was live (main.rs, push_tx before save).  If that bundle loses a
\* race, the coin's parent may be a settlement coin that never was either
\* (option.rs, build_exercise, build_take), but the coin before that was.  sync
\* only moves a record forward (sync.rs, advance_singleton), and only the recovery
\* of an option's terms sets the NFT's back (main.rs, recover_option_terms).
RecordsTrack == Tracks!TrackSpec
=============================================================================
