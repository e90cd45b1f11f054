------------------------------ MODULE MCP2Income ------------------------------
(* Instances of P2Income for TLC: two coins of one amount, odd and even *)
(* amounts, and a sum of all three that is too large for the width. *)
EXTENDS P2Income

MCAmount == [c \in Coin |-> <<3, 3, 4>>[c]]
=============================================================================
