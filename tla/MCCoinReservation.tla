-------------------------- MODULE MCCoinReservation --------------------------
(* Instances of CoinReservation for TLC.  Coin is finite here: the ids that *)
(* are not in Initial bound the bundles that can ever be built.             *)
EXTENDS CoinReservation, TLC

\* The first coins are interchangeable, and so are those not created yet.
CoinSymmetry == Permutations(Initial) \cup Permutations(Coin \ Initial)
=============================================================================
