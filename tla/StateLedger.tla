----------------------------- MODULE StateLedger -----------------------------
(***************************************************************************)
(* What the state file promises to the commands: a state that each         *)
(* command's edit is applied to in one step, in some order, none of them   *)
(* lost, and that only an `init`, once it has written a new key, replaces  *)
(* by a fresh one.                                                         *)
(***************************************************************************)
EXTENDS Naturals

VARIABLES
  edits,     \* how many edits the state holds since it was fresh
  starting   \* has an `init` written its key and not yet its state?

ledgerVars == <<edits, starting>>

LedgerInit == edits = 0 /\ starting = FALSE

Edit ==
  /\ ~starting
  /\ edits' = edits + 1
  /\ UNCHANGED starting

\* An `init` writes its key ...
Start ==
  /\ starting' = TRUE
  /\ UNCHANGED edits

\* ... and then its state, unless it dies before that.
Fresh ==
  /\ starting /\ starting' = FALSE
  /\ edits' \in {0, edits}

LedgerNext == Edit \/ Start \/ Fresh

LedgerSpec == LedgerInit /\ [][LedgerNext]_ledgerVars
=============================================================================
