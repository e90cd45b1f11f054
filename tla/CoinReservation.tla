---------------------------- MODULE CoinReservation ----------------------------
(***************************************************************************)
(* How the commands of pringle-wallet avoid spending the same XCH coin     *)
(* twice.                                                                  *)
(*                                                                         *)
(* A spending command loads the state file, asks the node for the wallet's *)
(* unspent coins, leaves out those that a transaction of the log still     *)
(* reserves, selects among the rest, pushes the signed bundle and only     *)
(* then appends a record to the log and saves the file.  `sync` and        *)
(* `status` load the file, drop the records whose watch coin is on chain,  *)
(* and save.  Nothing locks the file, and the chain and the mempool move   *)
(* between any two of these steps.                                         *)
(*                                                                         *)
(* The file is read and replaced in one step here (module WalletFiles      *)
(* looks inside); amounts are left out: any nonempty subset of the coins   *)
(* on offer may be what an amount and a fee select.                        *)
(***************************************************************************)
EXTENDS Naturals, FiniteSets

CONSTANTS
  Proc,      \* the invocations of the program that may run at the same time
  Coin,      \* coin ids, of this wallet or of others
  Initial,   \* the wallet's confirmed coins when the log is empty
  Faults     \* what may go wrong, among FaultKind

FaultKind ==
  { "crash",       \* a process stops between two steps
    "lost_reply",  \* the node accepts a bundle but push_tx returns an error
    "drop" }       \* the mempool forgets a bundle

ASSUME ReservationAssumption ==
  /\ Initial \subseteq Coin
  /\ Faults \subseteq FaultKind

VARIABLES
  chain,    \* coins that are in a block
  spent,    \* those of them a block has spent
  mine,     \* coin ids at the wallet's puzzle hash
  ids,      \* coin ids some bundle has created so far, or that were there
  mempool,  \* bundles submitted and not in a block
  log,      \* state.transactions in the state file
  pc,       \* where each process is
  mem,      \* the log each process has in memory
  avail,    \* the coins its command may spend
  plan,     \* what its command decided to spend
  sent      \* the bundle its command has had accepted

chainVars == <<chain, spent, mine, ids>>
procVars  == <<mem, avail, plan, sent>>
vars == <<chain, spent, mine, ids, mempool, log, pc, mem, avail, plan, sent>>

TxRecord == [spent : (SUBSET Coin) \ {{}}, watch : Coin]
Bundle   == [spent : (SUBSET Coin) \ {{}}, watch : Coin, mine : SUBSET Coin]
Plan     == [spent : (SUBSET Coin) \ {{}}, own : BOOLEAN, change : BOOLEAN]
PCs == { "idle", "spend_loaded", "spend_fetched", "spend_ready", "spend_pushed",
         "sync_loaded", "sync_classified" }
None == [spent |-> {}]

Init ==
  /\ chain = Initial /\ spent = {} /\ mine = Initial /\ ids = Initial
  /\ mempool = {}
  /\ log = {}
  /\ pc = [p \in Proc |-> "idle"]
  /\ mem = [p \in Proc |-> {}]
  /\ avail = [p \in Proc |-> {}]
  /\ plan = [p \in Proc |-> None]
  /\ sent = [p \in Proc |-> None]

-----------------------------------------------------------------------------
(* What the node answers. *)

\* The coins unspent_coins returns for the wallet's puzzle hash.
UnspentCoins == (chain \cap mine) \ spent

\* ChainStatus of a coin when the lookup succeeds.
Status(c) ==
  IF c \in spent THEN "Spent" ELSE IF c \in chain THEN "ConfirmedUnspent" ELSE "NotFound"

-----------------------------------------------------------------------------
(* What a command computes. *)

\* Reserved, of the outputs instead of the inputs.
Reserved_Outputs(l) == {r.watch : r \in l}

\* The coins a log reserves: every input of every record.
Reserved(l) == UNION {r.spent : r \in l}

\* The record a command keeps of its bundle.
Rec(t) == [spent |-> t.spent, watch |-> t.watch]

\* Unsettled, when a missing watch coin counts as settled, and when only an
\* unspent one does.
Unsettled_Missing(l) == {r \in l : Status(r.watch) = "ConfirmedUnspent"}
Unsettled_Spent(l) == {r \in l : Status(r.watch) # "ConfirmedUnspent"}

\* The records a prune keeps: those whose watch coin is not known to be on chain.
Unsettled(l) == {r \in l : Status(r.watch) \notin {"ConfirmedUnspent", "Spent"}}

\* Back to the shell, its memory gone.
Exit(p) ==
  /\ pc' = [pc EXCEPT ![p] = "idle"]
  /\ mem' = [mem EXCEPT ![p] = {}]
  /\ avail' = [avail EXCEPT ![p] = {}]
  /\ plan' = [plan EXCEPT ![p] = None]
  /\ sent' = [sent EXCEPT ![p] = None]

-----------------------------------------------------------------------------
(* A spending command. *)

BeginSpend(p) ==
  /\ pc[p] = "idle"
  /\ pc' = [pc EXCEPT ![p] = "spend_loaded"]
  /\ mem' = [mem EXCEPT ![p] = log]
  /\ UNCHANGED <<chainVars, mempool, log, avail, plan, sent>>

\* FetchCoins without the refusal.
FetchCoins_Empty(p) ==
  /\ pc[p] = "spend_loaded"
  /\ pc' = [pc EXCEPT ![p] = "spend_fetched"]
  /\ avail' = [avail EXCEPT ![p] = UnspentCoins \ Reserved(mem[p])]
  /\ UNCHANGED <<chainVars, mempool, log, mem, plan, sent>>

\* wallet_spendable_coins, refused when it leaves nothing.
FetchCoins(p) ==
  LET coins == UnspentCoins \ Reserved(mem[p]) IN
  /\ pc[p] = "spend_loaded"
  /\ coins # {}
  /\ pc' = [pc EXCEPT ![p] = "spend_fetched"]
  /\ avail' = [avail EXCEPT ![p] = coins]
  /\ UNCHANGED <<chainVars, mempool, log, mem, plan, sent>>

\* A fixed amount: enough coins for it, to any address, with or without change.
SelectAmount(p) ==
  /\ pc[p] = "spend_fetched"
  /\ \E s \in (SUBSET avail[p]) \ {{}}, own \in BOOLEAN, change \in BOOLEAN :
        plan' = [plan EXCEPT ![p] = [spent |-> s, own |-> own, change |-> change]]
  /\ pc' = [pc EXCEPT ![p] = "spend_ready"]
  /\ UNCHANGED <<chainVars, mempool, log, mem, avail, sent>>

\* Every coin into one output: send --all to any address.
SelectAll(p) ==
  /\ pc[p] = "spend_fetched"
  /\ \E own \in BOOLEAN :
        plan' = [plan EXCEPT ![p] = [spent |-> avail[p], own |-> own, change |-> FALSE]]
  /\ pc' = [pc EXCEPT ![p] = "spend_ready"]
  /\ UNCHANGED <<chainVars, mempool, log, mem, avail, sent>>

\* consolidate: every coin into one of the wallet's own; nothing to do for one coin.
SelectConsolidate(p) ==
  /\ pc[p] = "spend_fetched"
  /\ \E c, d \in avail[p] : c # d
  /\ plan' = [plan EXCEPT ![p] = [spent |-> avail[p], own |-> TRUE, change |-> FALSE]]
  /\ pc' = [pc EXCEPT ![p] = "spend_ready"]
  /\ UNCHANGED <<chainVars, mempool, log, mem, avail, sent>>

\* The change of a plan goes to a new coin.  Coin ids are hashes: a bundle never
\* creates an id that an earlier one created.
ChangeOf(pl, w) == IF pl.change THEN {{d} : d \in Coin \ (ids \cup {w})} ELSE {{}}

\* The bundle of a plan: w is the output later commands look for, cs the change.
BundleOf(pl, w, cs) ==
  [spent |-> pl.spent, watch |-> w, mine |-> cs \cup (IF pl.own THEN {w} ELSE {})]

\* Accept, when an answer other than SUCCESS passes for one.
Accept_Unanswered(t) == UNCHANGED <<chainVars, mempool>>

\* The node takes a bundle whose inputs are unspent.  A bundle already in
\* the mempool that spends one of them is replaced.
Accept(t) ==
  /\ t.spent \subseteq chain \ spent
  /\ mempool' = {u \in mempool : u.spent \cap t.spent = {}} \cup {t}
  /\ mine' = mine \cup t.mine
  /\ ids' = ids \cup t.mine \cup {t.watch}
  /\ UNCHANGED <<chain, spent>>

Push(p) ==
  /\ pc[p] = "spend_ready"
  /\ \E w \in Coin \ ids : \E cs \in ChangeOf(plan[p], w) :
       /\ Accept(BundleOf(plan[p], w, cs))
       /\ sent' = [sent EXCEPT ![p] = BundleOf(plan[p], w, cs)]
  /\ pc' = [pc EXCEPT ![p] = "spend_pushed"]
  /\ UNCHANGED <<log, mem, avail, plan>>

\* The node has the bundle; the command sees an error and stops before saving.
PushLost(p) ==
  /\ "lost_reply" \in Faults
  /\ pc[p] = "spend_ready"
  /\ \E w \in Coin \ ids : \E cs \in ChangeOf(plan[p], w) : Accept(BundleOf(plan[p], w, cs))
  /\ Exit(p)
  /\ UNCHANGED log

\* Save, when the new record takes the place of the others.
Save_Alone(p) ==
  /\ pc[p] = "spend_pushed"
  /\ log' = {Rec(sent[p])}
  /\ Exit(p)
  /\ UNCHANGED <<chainVars, mempool>>

\* transactions.push(..); state.save(..)
Save(p) ==
  /\ pc[p] = "spend_pushed"
  /\ log' = mem[p] \cup {Rec(sent[p])}
  /\ Exit(p)
  /\ UNCHANGED <<chainVars, mempool>>

\* No coins, not enough of them, a declined prompt, a failed lookup or a
\* rejected bundle: the command returns without saving.
GiveUp(p) ==
  /\ pc[p] \in {"spend_loaded", "spend_fetched", "spend_ready"}
  /\ Exit(p)
  /\ UNCHANGED <<chainVars, mempool, log>>

-----------------------------------------------------------------------------
(* sync and status. *)

BeginSync(p) ==
  /\ pc[p] = "idle"
  /\ pc' = [pc EXCEPT ![p] = "sync_loaded"]
  /\ mem' = [mem EXCEPT ![p] = log]
  /\ UNCHANGED <<chainVars, mempool, log, avail, plan, sent>>

\* prune_transactions on one answer of classify_many.
Prune(p) ==
  /\ pc[p] = "sync_loaded"
  /\ mem' = [mem EXCEPT ![p] = Unsettled(mem[p])]
  /\ pc' = [pc EXCEPT ![p] = "sync_classified"]
  /\ UNCHANGED <<chainVars, mempool, log, avail, plan, sent>>

\* classify_many failed: every status is LookupFailed and every record stays.
PruneFailed(p) ==
  /\ pc[p] = "sync_loaded"
  /\ pc' = [pc EXCEPT ![p] = "sync_classified"]
  /\ UNCHANGED <<chainVars, mempool, log, procVars>>

SaveSync(p) ==
  /\ pc[p] = "sync_classified"
  /\ log' = mem[p]
  /\ Exit(p)
  /\ UNCHANGED <<chainVars, mempool>>

Crash(p) ==
  /\ "crash" \in Faults
  /\ pc[p] # "idle"
  /\ Exit(p)
  /\ UNCHANGED <<chainVars, mempool, log>>

-----------------------------------------------------------------------------
(* The network. *)

Confirm(t) ==
  /\ t.spent \subseteq chain \ spent
  /\ chain' = chain \cup t.mine \cup {t.watch}
  /\ spent' = spent \cup t.spent
  /\ mempool' = mempool \ {t}
  /\ UNCHANGED <<mine, ids, log, pc, procVars>>

Drop(t) ==
  /\ "drop" \in Faults
  /\ mempool' = mempool \ {t}
  /\ UNCHANGED <<chainVars, log, pc, procVars>>

Network == \E t \in mempool : Confirm(t) \/ Drop(t)

Command(p) ==
  \/ BeginSpend(p) \/ FetchCoins(p)
  \/ SelectAmount(p) \/ SelectAll(p) \/ SelectConsolidate(p)
  \/ Push(p) \/ PushLost(p) \/ Save(p) \/ GiveUp(p)
  \/ BeginSync(p) \/ Prune(p) \/ PruneFailed(p) \/ SaveSync(p)
  \/ Crash(p)

Next == (\E p \in Proc : Command(p)) \/ Network

Spec == Init /\ [][Next]_vars

\* The network keeps including bundles; whoever uses the wallet keeps running
\* sync, and its lookups do not fail for ever.
Fairness ==
  /\ WF_vars(\E t \in mempool : Confirm(t))
  /\ \A p \in Proc :
       /\ SF_vars(BeginSync(p)) /\ SF_vars(Prune(p)) /\ WF_vars(SaveSync(p))
       /\ WF_vars(GiveUp(p) \/ Save(p))

FairSpec == Spec /\ Fairness

-----------------------------------------------------------------------------
(* Properties. *)

\* Every variable keeps its shape; no bundle or record is without inputs
\* (spendable_or_error and select_for refuse that).
TypeOK ==
  /\ chain \subseteq ids /\ spent \subseteq chain /\ mine \subseteq ids /\ ids \subseteq Coin
  /\ mempool \subseteq Bundle
  /\ log \subseteq TxRecord
  /\ pc \in [Proc -> PCs]
  /\ mem \in [Proc -> SUBSET TxRecord]
  /\ avail \in [Proc -> SUBSET Coin]
  /\ plan \in [Proc -> Plan \cup {None}]
  /\ sent \in [Proc -> Bundle \cup {None}]
  /\ \A p \in Proc :
       /\ pc[p] = "spend_fetched" => avail[p] # {}
       /\ pc[p] = "spend_ready" => plan[p] \in Plan
       /\ pc[p] = "spend_pushed" => sent[p] \in Bundle
  /\ \A t \in mempool : t.watch \in ids /\ t.mine \subseteq ids

InFlight == UNION {t.spent : t \in mempool}

\* A command never goes on to submit a bundle that spends a coin of a bundle
\* still in flight: what the reservation of pending inputs is for
\* (main.rs, wallet_spendable_coins and spendable_or_error).
NoResubmit == \A p \in Proc : pc[p] = "spend_ready" => plan[p].spent \cap InFlight = {}

\* Whatever goes wrong between two steps, a command only ever submits against
\* a bundle that no record of the log names: one whose command crashed, or saw
\* an error, after the node had it (cmd_xch_send: push_tx before save).
ResubmitOnlyUnlogged ==
  \A p \in Proc : pc[p] = "spend_ready" =>
    \A t \in mempool : plan[p].spent \cap t.spent # {} => Rec(t) \notin log

\* A record leaves the log only once its watch coin is on chain: no sync and
\* no other command forgets a transaction that may still be pending
\* (prune_transactions).
NoLostRecord == [][\A r \in log : r \in log' \/ r.watch \in chain]_vars

\* Every coin the log reserves is an input of a bundle that is in flight or
\* in a block: a reservation is always for a bundle that can still settle.
ReservationsJustified ==
  \A r \in log : r.watch \in chain \/ \E t \in mempool : Rec(t) = r

\* Every reservation ends: a coin some record keeps away from the selection
\* is eventually free of every record, as `status` promises to someone whose
\* coins are all reserved (main.rs, spendable_or_error).
ReservationsReleased == \A c \in Coin : c \in Reserved(log) ~> c \notin Reserved(log)

-----------------------------------------------------------------------------
(* The ledger of transactions that the reservation makes of the wallet.    *)

\* Every coin a bundle creates.
Outputs(t) == t.mine \cup {t.watch}

\* A bundle in flight as a transaction of the ledger.
AsTx(t) == [ins |-> t.spent, outs |-> Outputs(t)]

Ledger == INSTANCE SpendLedger WITH
  live <- chain \ spent, pending <- {AsTx(t) : t \in mempool}, known <- ids,
  Losing <- "drop" \in Faults

\* The wallet's bundles never compete: each is submitted for live coins that no
\* bundle in flight takes, and leaves the mempool only in a block, or when the
\* mempool loses it (main.rs, wallet_spendable_coins, push_tx and save together).
SpendsNeverCompete == Ledger!LedgerSpec
=============================================================================
