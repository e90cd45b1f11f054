------------------------------- MODULE Payments -------------------------------
(***************************************************************************)
(* How much a bundle spends and pays: the selection of coins for an amount *)
(* and a fee, sending everything, and the sweep of the coins at an income  *)
(* address.                                                                *)
(*                                                                         *)
(* Amounts are u64 in the code.  Sums that are checked there refuse here;  *)
(* sums that are not (Iterator::sum, `-`) wrap, as they do in a release    *)
(* build; a debug build would panic.  A coin id is a number, which also    *)
(* orders coins of one amount.                                             *)
(***************************************************************************)
EXTENDS Integers, FiniteSets, FiniteSetsExt

CONSTANTS
  Coin,      \* coin ids, of 32 bytes
  Amount,    \* the mojos in each coin
  MaxU64     \* the largest u64

ASSUME PaymentsAssumption ==
  /\ Coin \subseteq Nat /\ IsFiniteSet(Coin)
  /\ MaxU64 \in Nat
  /\ Amount \in [Coin -> 0..MaxU64]

Wrap(n) == n % (MaxU64 + 1)

\* The mojos in a set of coins.
Total(S) == MapThenSumSet(LAMBDA c : Amount[c], S)

-----------------------------------------------------------------------------
(* Wallet coins. *)

\* A checked sum, of some coins: spendable_or_error and inspect_offered_option.
Spendable(S) == S # {} /\ Total(S) <= MaxU64

\* select_coins of the SDK: enough of the coins.
Covering(S, needed) == {s \in SUBSET S : Total(s) >= needed}

\* Change, from a subtraction that stops at zero.
Change_Saturated(total, needed) ==
  IF Wrap(total) < needed THEN 0 ELSE Wrap(total) - needed

\* What is over, of a sum and by a difference that are not checked.
Change(total, needed) == Wrap(Wrap(total) - needed)

\* select_for: the selections for an output value and a fee; none when the
\* code refuses.
SelectFor(S, value, fee) ==
  IF value + fee \in 1..MaxU64
  THEN {[coins |-> s, change |-> Change(Total(s), value + fee)] :
          s \in Covering(S, value + fee)}
  ELSE {}

\* What a bundle takes in, pays, gives back (the change, or the swept NFT's own
\* mojo) and leaves to the farmer as a fee that was meant.
Bundle(in, pay, back, fee) == [in |-> in, pay |-> pay, back |-> back, fee |-> fee]

\* spend_selection, for each selection of select_for: the payment, the fee, and
\* the change if there is any.
Funded(S, value, fee) ==
  {Bundle(Total(sel.coins), value, sel.change, fee) : sel \in SelectFor(S, value, fee)}

\* total_after_fee and spend_all: everything but the fee, if that is something.
SpendAllTxs(S, fee) ==
  IF fee < Total(S) THEN {Bundle(Total(S), Total(S) - fee, 0, fee)} ELSE {}

\* xch send and consolidate, which check the wallet's balance.
XchTxs(S, value, fee) ==
  IF Spendable(S)
  THEN SpendAllTxs(S, fee) \cup (IF value > 0 THEN Funded(S, value, fee) ELSE {})
  ELSE {}

\* option take pays the price out of a balance that was checked, too.
TakeTxs(S, price, fee) == IF Spendable(S) THEN Funded(S, price, fee) ELSE {}

\* nft mint and option create pay a launcher of one mojo, without such a check.
LaunchTxs(S, fee) == Funded(S, 1, fee)

\* option exercise pays the strike, unchecked.
ExerciseTxs(S, strike, fee) == Funded(S, strike, fee)

\* option clawback pays its fee, if there is one, unchecked.
ClawbackTxs(S, fee) == IF fee > 0 THEN Funded(S, 0, fee) ELSE {}

-----------------------------------------------------------------------------
(* Income coins. *)

\* plan_sweep's order, highest amount first, and the order it must not be.
Before_Lowest(c, d) == Amount[c] < Amount[d] \/ (Amount[c] = Amount[d] /\ c < d)
Before(c, d) == Amount[c] > Amount[d] \/ (Amount[c] = Amount[d] /\ c < d)

\* plan_sweep: the first coins in that order, as many as one bundle can spend.
Selected(S, cap) == {c \in S : Cardinality({d \in S : Before(d, c)}) < cap}

\* Payout, when the odd mojo is paid out too.
Payout_Odd(S, fee) == Total(S) - fee
Donation(S, fee) == (Total(S) - fee) % 2

\* build_sweep and build_sweep_exercise: the NFT is the one odd output its
\* layer allows, so the payout is even.
Payout(S, fee) == Total(S) - fee - Donation(S, fee)

CanSweep(S, fee) == Total(S) <= MaxU64 /\ fee <= Total(S) /\ Payout(S, fee) > 0

\* The NFT's own mojo goes in and comes back.
SweepTx(S, fee) == Bundle(Total(S) + 1, Payout(S, fee), 1, fee + Donation(S, fee))
=============================================================================
