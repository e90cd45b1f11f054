----------------------------- MODULE RecordTracks -----------------------------
(***************************************************************************)
(* What the records of the file promise about the singletons they are of.  *)
(* The coin of a record is at most one bundle ahead of the chain: it, or   *)
(* its parent, or the parent of a parent that was only in transit, is or   *)
(* was on chain.  It is confirmed only on a coin that was there; refresh-  *)
(* ing it only moves it forward and reopens it only on another coin; and   *)
(* it is never removed.  Only a reset may take it back to an earlier coin, *)
(* and then closes it.                                                     *)
(***************************************************************************)
EXTENDS Naturals, Sequences, SequencesExt

CONSTANTS
  Id,         \* the singletons
  Resettable, \* those whose record may be reset
  Transit     \* who owns a coin that the bundle creating it spends again

VARIABLES
  path,   \* each singleton: its owners so far, of which each prefix is a coin
  coin,   \* the coin its record names
  phase   \* the phase of its record

trackVars == <<path, coin, phase>>

OnChain(i, c) == c # <<>> /\ IsPrefix(c, path[i])

\* The coin that a bundle spent to leave this one.
Parent(c) ==
  IF Len(c) > 1 /\ c[Len(c) - 1] = Transit THEN SubSeq(c, 1, Len(c) - 2) ELSE Front(c)

TrackInit == coin = [i \in Id |-> <<>>] /\ phase = [i \in Id |-> "none"]

\* A block spends the live coin.
Grow(i) ==
  /\ path'[i] # <<>> /\ Parent(path'[i]) = path[i]
  /\ coin'[i] = coin[i] /\ phase'[i] = phase[i]

\* A command whose bundle spends a coin that is, or was, live.
Claim(i) ==
  /\ coin'[i] # <<>> /\ IsPrefix(Parent(coin'[i]), path[i])
  /\ phase'[i] \in {"pending", "superseded"}
  /\ path'[i] = path[i]

\* A look at the chain.
Follow(i) ==
  /\ OnChain(i, coin[i]) /\ OnChain(i, coin'[i]) /\ IsPrefix(coin[i], coin'[i])
  /\ phase'[i] \in {"confirmed", "superseded"}
  /\ phase[i] = "superseded" /\ phase'[i] = "confirmed" => coin'[i] # coin[i]
  /\ path'[i] = path[i]

Reset(i) ==
  /\ i \in Resettable
  /\ OnChain(i, coin'[i]) /\ phase'[i] = "superseded"
  /\ path'[i] = path[i]

Stay(i) == path'[i] = path[i] /\ coin'[i] = coin[i] /\ phase'[i] = phase[i]

\* One bundle may spend, and one save may write, several of them.
TrackNext == \A i \in Id : Grow(i) \/ Claim(i) \/ Follow(i) \/ Reset(i) \/ Stay(i)

TrackSpec == TrackInit /\ [][TrackNext]_trackVars
===============================================================================
