---------------------------- MODULE MCWalletFiles ----------------------------
(* Instances of WalletFiles for TLC. *)
EXTENDS WalletFiles, TLC

InodeSymmetry == Permutations(Inode)
=============================================================================
