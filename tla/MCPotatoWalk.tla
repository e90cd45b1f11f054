---------------------------- MODULE MCPotatoWalk ----------------------------
(* Instances of PotatoWalk for TLC: the default round and another one, and a *)
(* cache, a walk and a request for holders shorter than a round may be.      *)
EXTENDS PotatoWalk

MCDefault == [round |-> 1, n |-> 1]
MCMaxPass == <<3, 1>>
=============================================================================
