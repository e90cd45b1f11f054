----------------------------- MODULE SpendLedger -----------------------------
(***************************************************************************)
(* What the reservation of pending coins promises: transactions that never *)
(* compete.  One is submitted only for live coins that no pending one      *)
(* takes, so that it stays pending until a block settles it; nothing the   *)
(* wallet does later displaces it.                                         *)
(***************************************************************************)
CONSTANTS
  Coin,     \* coin ids
  Initial,  \* the coins of the start
  Losing    \* whether the mempool may lose a transaction

VARIABLES
  live,     \* coins that exist and are not spent
  pending,  \* transactions submitted and not settled
  known     \* coin ids that a transaction has created so far, or that were there

ledgerVars == <<live, pending, known>>

LedgerInit == live = Initial /\ pending = {} /\ known = Initial

Submit ==
  /\ \E ins \in (SUBSET live) \ {{}}, outs \in (SUBSET (Coin \ known)) \ {{}} :
       /\ \A t \in pending : t.ins \cap ins = {}
       /\ pending' = pending \cup {[ins |-> ins, outs |-> outs]}
       /\ known' = known \cup outs
  /\ UNCHANGED live

Settle(t) ==
  /\ live' = (live \ t.ins) \cup t.outs
  /\ pending' = pending \ {t}
  /\ UNCHANGED known

Lose(t) ==
  /\ Losing
  /\ pending' = pending \ {t}
  /\ UNCHANGED <<live, known>>

LedgerNext == Submit \/ \E t \in pending : Settle(t) \/ Lose(t)

LedgerSpec == LedgerInit /\ [][LedgerNext]_ledgerVars
=============================================================================
