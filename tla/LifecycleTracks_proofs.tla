------------------------ MODULE LifecycleTracks_proofs ------------------------
(* The records of Lifecycle implement RecordTracks, for any number of options *)
(* and any paths, whatever is raced, dropped, lost, interrupted or not found. *)
EXTENDS Lifecycle_proofs

-----------------------------------------------------------------------------
(* From one record of a singleton to a later one.                            *)

\* The coin that a bundle spent to leave this one: before it, or before the
\* settlement coin that it came from.
Parent(c) ==
  IF Len(c) > 1 /\ c[Len(c) - 1] = Settle THEN SubSeq(c, 1, Len(c) - 2) ELSE Front(c)

\* A command's record: what a bundle leaves of a coin of the path.
Claimed(new, p) ==
  /\ new.coin # <<>> /\ IsPrefix(Parent(new.coin), p)
  /\ new.phase \in {"pending", "superseded"}

\* A record that was refreshed.
Refreshed(old, new, p) ==
  /\ Found(old.coin, p) /\ Found(new.coin, p) /\ IsPrefix(old.coin, new.coin)
  /\ new.phase \in {"confirmed", "superseded"}
  /\ Reopened(old, new) => new.coin # old.coin

Tracked(old, new, p) ==
  \/ new.coin = old.coin /\ new.phase = old.phase
  \/ Claimed(new, p)
  \/ Refreshed(old, new, p)

TrackedAll(s) ==
  /\ Tracked(state.nft, s.nft, nft)
  /\ \A o \in Opt : Tracked(state.opt[o], s.opt[o], opt[o])

\* What a command is about to save tracks what is in the file.
TrackInv == job.at \in {"pushed", "nft", "opt"} => TrackedAll(job.st)

LEMMA ParentOfPassed ==
  ASSUME NEW S, Settle \notin S, NEW p \in Path(S), NEW b \in BOOLEAN, NEW x \in S
  PROVE  Passed(p, b, x) # <<>> /\ Parent(Passed(p, b, x)) = p
<1> DEFINE H == S \cup {Settle}
<1>1. p \in Seq(H) /\ Settle \in H /\ x \in H /\ (p # <<>> => p[Len(p)] # Settle)
  BY DEF Path, Owner
<1>2. CASE b
  <2> DEFINE q == Append(Append(p, Settle), x)
  <2>1. Append(p, Settle) \in Seq(H) /\ Len(Append(p, Settle)) = Len(p) + 1
        /\ Append(p, Settle)[Len(p) + 1] = Settle
    BY <1>1
  <2>2. Len(q) = Len(p) + 2 /\ q[Len(p) + 1] = Settle /\ Len(p) \in Nat
    BY <1>1, <2>1
  <2>3. SubSeq(q, 1, Len(p)) = p
    BY <1>1, <2>1
  <2>4. Len(q) > 1 /\ Len(q) - 1 = Len(p) + 1 /\ Len(q) - 2 = Len(p)
    BY <2>2
  <2>5. Parent(q) = p /\ q # <<>>
    BY <2>2, <2>3, <2>4 DEF Parent
  <2>6. QED
    BY <1>2, <2>5 DEF Passed
<1>3. CASE ~b
  <2> DEFINE q == Append(p, x)
  <2>1. Len(q) = Len(p) + 1 /\ Front(q) = p /\ q # <<>> /\ Len(p) \in Nat
    BY <1>1 DEF Front
  <2>2. ASSUME Len(q) > 1 PROVE q[Len(q) - 1] # Settle
    BY <1>1, <2>1, <2>2
  <2>3. Parent(q) = p
    BY <2>1, <2>2 DEF Parent
  <2>4. QED
    BY <1>3, <2>1, <2>3 DEF Passed
<1>4. QED
  BY <1>2, <1>3

LEMMA ParentTyped ==
  ASSUME NEW S, NEW s \in Seq(S), s # <<>>
  PROVE  Parent(s) \in Seq(S)
  BY DEF Parent, Front

\* The settlement puzzle is nobody's.
LEMMA SettleApart == Settle \notin Party \cup Opt /\ Settle \notin Party
  BY LifecycleAssumption

\* Nothing that was true of a path stops being true when it grows.
LEMMA TrackedGrows ==
  ASSUME NEW p \in Seq(Hop), NEW b \in BOOLEAN, NEW x \in Hop, NEW old, NEW new,
         old.coin \in Seq(Hop), new.coin \in Seq(Hop), Tracked(old, new, p)
  PROVE  Tracked(old, new, Passed(p, b, x))
<1>1. CASE Claimed(new, p)
  <2>1. IsPrefix(Parent(new.coin), Passed(p, b, x))
    BY <1>1, ParentTyped, PrefixPassed DEF Claimed
  <2>2. QED
    BY <1>1, <2>1 DEF Claimed, Tracked
<1>2. CASE Refreshed(old, new, p)
  <2>1. Found(old.coin, Passed(p, b, x)) /\ Found(new.coin, Passed(p, b, x))
    BY <1>2, PrefixPassed DEF Refreshed, Found
  <2>2. QED
    BY <1>2, <2>1 DEF Refreshed, Tracked
<1>3. QED
  BY <1>1, <1>2 DEF Tracked

LEMMA TrackedAllGrows ==
  ASSUME TypeInv, Grows, state' = state, NEW s, StateOK(s), TrackedAll(s)
  PROVE  /\ Tracked(state'.nft, s.nft, nft')
         /\ \A o \in Opt : Tracked(state'.opt[o], s.opt[o], opt'[o])
<1>1. Tracked(state.nft, s.nft, nft')
  <2>1. /\ state.nft.coin \in Seq(Hop) /\ s.nft.coin \in Seq(Hop)
        /\ nft \in Seq(Hop) /\ Tracked(state.nft, s.nft, nft)
    BY PathFacts DEF TypeInv, StateOK, State, NftRec, ChainOK, TrackedAll
  <2>2. \A b \in BOOLEAN, x \in Party \cup Opt : Tracked(state.nft, s.nft, Passed(nft, b, x))
    BY <2>1, TrackedGrows DEF Hop
  <2>3. QED
    BY <2>1, <2>2 DEF Grows
<1>2. ASSUME NEW o \in Opt PROVE Tracked(state.opt[o], s.opt[o], opt'[o])
  <2>1. /\ state.opt[o].coin \in Seq(Hop) /\ s.opt[o].coin \in Seq(Hop)
        /\ opt[o] \in Seq(Hop) /\ Tracked(state.opt[o], s.opt[o], opt[o])
    BY PathFacts DEF TypeInv, StateOK, State, OptRec, ChainOK, TrackedAll
  <2>2. \A b \in BOOLEAN, x \in Party : Tracked(state.opt[o], s.opt[o], Passed(opt[o], b, x))
    BY <2>1, TrackedGrows DEF Hop
  <2>3. QED
    BY <2>1, <2>2 DEF Grows
<1>3. QED
  BY <1>1, <1>2

\* Following a record refreshes it or leaves it alone.
LEMMA ReconciledTracks ==
  ASSUME NEW S, NEW rec, rec.coin \in Seq(S), rec.phase \in Phase,
         rec.phase = "none" <=> rec.coin = <<>>,
         NEW p \in Seq(S), NEW gone \in BOOLEAN, NEW ph \in BOOLEAN,
         rec \in NftRec \/ rec \in OptRec
  PROVE  Tracked(rec, Reconciled(rec, p, gone, ph), p)
<1> DEFINE new == Reconciled(rec, p, gone, ph)
<1>1. CASE Status(rec.coin, p, gone) = "NotFound"
  BY <1>1 DEF Reconciled, Tracked
<1>2. CASE Status(rec.coin, p, gone) = "ConfirmedUnspent"
  <2>1. Found(rec.coin, p)
    BY <1>2, StatusFound
  <2>2. new.coin = rec.coin
        /\ new.phase = (IF rec.phase = "pending" THEN "confirmed" ELSE rec.phase)
    BY <1>2 DEF Reconciled, NftRec, OptRec
  <2>3. CASE rec.phase = "pending"
    BY <2>1, <2>2, <2>3, PrefixSelf DEF Tracked, Refreshed, Reopened
  <2>4. CASE rec.phase # "pending"
    BY <2>2, <2>4 DEF Tracked
  <2>5. QED
    BY <2>3, <2>4
<1>3. CASE Status(rec.coin, p, gone) = "Spent" /\ gone
  <2>1. Found(rec.coin, p)
    BY <1>3, StatusFound
  <2>2. new.coin = rec.coin /\ new.phase = "superseded"
    BY <1>3 DEF Reconciled, NftRec, OptRec
  <2>3. QED
    BY <2>1, <2>2, PrefixSelf DEF Tracked, Refreshed, Reopened
<1>4. CASE Status(rec.coin, p, gone) = "Spent" /\ ~gone
  <2>1. rec.coin # p /\ rec.coin # <<>> /\ IsPrefix(rec.coin, p)
    BY <1>4 DEF Status
  <2>2. p # <<>>
    BY <2>1 DEF IsPrefix
  <2>3. Found(p, p) /\ Found(rec.coin, p)
    BY <2>1, <2>2, PrefixSelf DEF Found
  <2>4. new.coin = p /\ new.phase \in {"confirmed", "superseded"}
    BY <1>4 DEF Reconciled, NftRec, OptRec
  <2>5. QED
    BY <2>1, <2>3, <2>4 DEF Tracked, Refreshed, Reopened
<1>5. QED
  BY <1>1, <1>2, <1>3, <1>4 DEF Status

-----------------------------------------------------------------------------
(* The steps.                                                                *)

LEMMA TrackSubmit ==
  ASSUME TypeInv, NEW t, NEW after, Submit(t, after), TrackedAll(after)
  PROVE  TrackInv'
<1>1. nft' = nft /\ opt' = opt /\ state' = state
  BY DEF Submit, chainVars
<1>2. CASE job' = [at |-> "pushed", st |-> after, taken |-> IF t.kind = "take" THEN t.o ELSE 0]
  <2>1. job'.st = after
    BY <1>2
  <2>2. QED
    BY <1>1, <2>1 DEF TrackInv, TrackedAll, Tracked, Claimed, Refreshed, Reopened
<1>3. CASE job' = Idle
  BY <1>3, Blanks DEF TrackInv
<1>4. QED
  BY <1>2, <1>3 DEF Submit

\* A bundle the node takes spends the live coin of the NFT, so that the record
\* the command saves is one bundle ahead.
LEMMA ChildClaimed ==
  ASSUME TypeInv, NEW t \in Tx, t.kind # "take", NEW after, Submit(t, after),
         NEW ph \in {"pending", "superseded"}
  PROVE  Claimed([coin |-> NftChild(t), phase |-> ph], nft)
<1>1. /\ t.nft = nft /\ nft \in Path(Party \cup Opt) /\ nft \in Seq(Hop)
      /\ t.to \in Party \cup Opt /\ t.settled \in BOOLEAN
  BY PathFacts DEF Submit, Valid, InputsLive, TypeInv, ChainOK, NftPath, Tx
<1>2. NftChild(t) # <<>> /\ Parent(NftChild(t)) = nft
  BY <1>1, ParentOfPassed, SettleApart DEF NftChild
<1>3. QED
  BY <1>1, <1>2, PrefixSelf DEF Claimed

\* The states the commands save, given their NFT record and option record.
LEMMA TrackedEdit ==
  ASSUME StateOK(state), NEW path \in NftPath, NEW ph \in {"pending", "superseded"},
         Claimed([coin |-> path, phase |-> ph], nft), NEW o \in Opt
  PROVE  /\ TrackedAll(WithNft(path, ph))
         /\ \A rec : Tracked(state.opt[o], rec, opt[o]) =>
              TrackedAll([WithNft(path, ph) EXCEPT !.opt[o] = rec])
         /\ Found(state.opt[o].coin, opt[o]) =>
              TrackedAll([WithNft(path, ph) EXCEPT !.opt[o].phase = "superseded"])
         /\ TrackedAll([WithNft(path, ph) EXCEPT !.opt[o].reclaimed = TRUE])
<1> DEFINE w == WithNft(path, ph)
<1>1. /\ w \in State /\ w.nft = [coin |-> path, phase |-> ph] /\ w.opt = state.opt
      /\ state.opt \in [Opt -> OptRec]
  <2>1. path # <<>> /\ ph \in Phase \ {"none"}
    BY DEF Claimed, Phase
  <2>2. QED
    BY <2>1, WithNftOK DEF StateOK, WithNft, State
<1>2. Tracked(state.nft, w.nft, nft) /\ \A p \in Opt : Tracked(state.opt[p], state.opt[p], opt[p])
  BY <1>1 DEF Tracked
<1>3. TrackedAll(w)
  BY <1>1, <1>2 DEF TrackedAll
<1>4. ASSUME NEW rec, Tracked(state.opt[o], rec, opt[o])
      PROVE  TrackedAll([w EXCEPT !.opt[o] = rec])
  <2>1. [w EXCEPT !.opt[o] = rec].nft = w.nft
        /\ [w EXCEPT !.opt[o] = rec].opt = [state.opt EXCEPT ![o] = rec]
    BY <1>1 DEF State
  <2>2. QED
    BY <1>1, <1>2, <1>4, <2>1 DEF TrackedAll
<1>5. ASSUME Found(state.opt[o].coin, opt[o])
      PROVE  TrackedAll([w EXCEPT !.opt[o].phase = "superseded"])
  <2> DEFINE rec == [state.opt[o] EXCEPT !.phase = "superseded"]
  <2>1. rec.coin = state.opt[o].coin /\ rec.phase = "superseded"
        /\ state.opt[o].coin \in Seq(Hop)
    BY <1>1, PathFacts DEF OptRec
  <2>2. Tracked(state.opt[o], rec, opt[o])
    BY <1>5, <2>1, PrefixSelf DEF Tracked, Refreshed, Reopened
  <2>3. [w EXCEPT !.opt[o].phase = "superseded"] = [w EXCEPT !.opt[o] = rec]
    BY <1>1 DEF State
  <2>4. QED
    BY <1>4, <2>2, <2>3
<1>6. TrackedAll([w EXCEPT !.opt[o].reclaimed = TRUE])
  <2> DEFINE rec == [state.opt[o] EXCEPT !.reclaimed = TRUE]
  <2>1. rec.coin = state.opt[o].coin /\ rec.phase = state.opt[o].phase
    BY <1>1 DEF OptRec
  <2>2. [w EXCEPT !.opt[o].reclaimed = TRUE] = [w EXCEPT !.opt[o] = rec]
    BY <1>1 DEF State
  <2>3. QED
    BY <1>4, <2>1, <2>2 DEF Tracked
<1>7. QED
  BY <1>3, <1>4, <1>5, <1>6

LEMMA TrackMints == ASSUME TypeInv, TrackInv, Mint \/ SweepIncome PROVE TrackInv'
<1>1. StateOK(state)
  BY DEF TypeInv
<1>2. /\ MintTx \in Tx /\ SweepTx \in Tx
      /\ MintTx.kind = "mint" /\ SweepTx.kind = "sweep"
  BY <1>1, SingletonTxsOK DEF TxOK, MintTx, SweepTx, NftTx
<1>3. ASSUME NEW t \in Tx, t.kind # "take", Submit(t, WithNft(NftChild(t), "pending"))
      PROVE  TrackedAll(WithNft(NftChild(t), "pending"))
  <2>1. Claimed([coin |-> NftChild(t), phase |-> "pending"], nft)
    BY <1>3, ChildClaimed
  <2>2. WithNft(NftChild(t), "pending").nft = [coin |-> NftChild(t), phase |-> "pending"]
        /\ WithNft(NftChild(t), "pending").opt = state.opt
    BY <1>1 DEF WithNft, StateOK, State
  <2>3. QED
    BY <2>1, <2>2 DEF TrackedAll, Tracked
<1>4. CASE Mint
  BY <1>2, <1>3, <1>4, TrackSubmit DEF Mint
<1>5. CASE SweepIncome
  BY <1>2, <1>3, <1>5, TrackSubmit DEF SweepIncome
<1>6. QED
  BY <1>4, <1>5

LEMMA TrackMoves ==
  ASSUME TypeInv, TrackInv, NEW o \in Opt, Create(o) \/ Take(o) \/ Exercise(o) \/ Clawback(o)
  PROVE  TrackInv'
<1>1. StateOK(state) /\ ChainOK /\ Me \in Party /\ opt[o] \in OptPath
      /\ opt[o] \in Path(Party) /\ opt[o] \in Seq(Hop)
  BY PathFacts DEF TypeInv, ChainOK, OptPath, Party
<1>2. CASE Create(o)
  <2>1. PICK owner \in Party :
          Submit(CreateTx(o, owner),
            [WithNft(NftChild(CreateTx(o, owner)), "superseded") EXCEPT
              !.opt[o] = [coin |-> OptChild(CreateTx(o, owner)), phase |-> "pending",
                          known |-> TRUE, reclaimed |-> FALSE]])
    BY <1>2 DEF Create
  <2> DEFINE t == CreateTx(o, owner)
             rec == [coin |-> OptChild(t), phase |-> "pending", known |-> TRUE, reclaimed |-> FALSE]
  <2>2. t \in Tx /\ t.kind # "take" /\ t.coin = <<>> /\ t.own = owner
        /\ t.settled = FALSE
    BY <1>1, OptionTxsOK DEF TxOK, CreateTx, NftTx
  <2>3. NftChild(t) \in NftPath /\ Claimed([coin |-> NftChild(t), phase |-> "superseded"], nft)
    BY <2>1, <2>2, ChildrenTyped, ChildClaimed
  <2>4. Tracked(state.opt[o], rec, opt[o])
    <3>1. <<>> \in Path(Party) /\ IsPrefix(<<>>, opt[o])
      BY <1>1, PathFacts DEF IsPrefix, OptPath
    <3>2. OptChild(t) = Passed(<<>>, FALSE, owner)
      BY <2>2 DEF OptChild
    <3>3. Passed(<<>>, FALSE, owner) # <<>> /\ Parent(Passed(<<>>, FALSE, owner)) = <<>>
      BY <3>1, ParentOfPassed, SettleApart
    <3>4. QED
      BY <3>1, <3>2, <3>3 DEF Tracked, Claimed
  <2>5. TrackedAll([WithNft(NftChild(t), "superseded") EXCEPT !.opt[o] = rec])
    <3> HIDE DEF t, rec
    <3>1. QED
      BY <1>1, <2>3, <2>4, TrackedEdit
  <2>6. QED
    BY <2>1, <2>5, TrackSubmit
<1>3. CASE Take(o)
  <2>1. Purchased(o).phase = "pending" /\ Purchased(o).coin = Passed(opt[o], TRUE, Me)
    BY DEF Purchased, TakeTx, NftTx, OptChild
  <2>2. Tracked(state.opt[o], Purchased(o), opt[o])
    BY <1>1, <2>1, ParentOfPassed, SettleApart, PrefixSelf DEF Tracked, Claimed
  <2>3. TrackedAll([state EXCEPT !.opt[o] = Purchased(o)])
    BY <1>1, <2>2 DEF TrackedAll, Tracked, StateOK, State
  <2>4. QED
    BY <1>3, <2>3, TrackSubmit DEF Take
<1>4. CASE Exercise(o)
  <2>1. state.opt[o].phase # "none" /\ Found(state.opt[o].coin, opt[o])
    BY <1>4 DEF Exercise, ExerciseGuard, OptReady, OptStatus, Status, Found
  <2>2. ExerciseTx(o) \in Tx /\ ExerciseTx(o).kind = "exercise"
    BY <1>1, <2>1, OptionTxsOK DEF TxOK, ExerciseTx, ReturnTx, TransferTx, NftTx
  <2>3. /\ NftChild(ExerciseTx(o)) \in NftPath
        /\ Claimed([coin |-> NftChild(ExerciseTx(o)), phase |-> "pending"], nft)
    BY <1>4, <2>2, ChildrenTyped, ChildClaimed DEF Exercise
  <2>4. TrackedAll([WithNft(NftChild(ExerciseTx(o)), "pending") EXCEPT !.opt[o].phase = "superseded"])
    BY <1>1, <2>1, <2>3, TrackedEdit
  <2>5. QED
    BY <1>4, <2>4, TrackSubmit DEF Exercise
<1>5. CASE Clawback(o)
  <2>1. PICK to \in Party :
          Submit(ClawbackTx(o, to),
            [WithNft(NftChild(ClawbackTx(o, to)), "pending") EXCEPT !.opt[o].reclaimed = TRUE])
    BY <1>5 DEF Clawback
  <2>2. ClawbackTx(o, to) \in Tx /\ ClawbackTx(o, to).kind = "clawback"
    BY <1>1, OptionTxsOK DEF TxOK, ClawbackTx, NftTx
  <2>3. /\ NftChild(ClawbackTx(o, to)) \in NftPath
        /\ Claimed([coin |-> NftChild(ClawbackTx(o, to)), phase |-> "pending"], nft)
    BY <2>1, <2>2, ChildrenTyped, ChildClaimed
  <2>4. TrackedAll([WithNft(NftChild(ClawbackTx(o, to)), "pending") EXCEPT !.opt[o].reclaimed = TRUE])
    BY <1>1, <2>3, TrackedEdit
  <2>5. QED
    BY <2>1, <2>4, TrackSubmit
<1>6. QED
  BY <1>2, <1>3, <1>4, <1>5

LEMMA TrackSync == ASSUME TypeInv, FileInv, TrackInv, Sync PROVE TrackInv'
<1>1. StateOK(state) /\ JobOK /\ ChainOK
  BY DEF TypeInv
<1>2. ASSUME UNCHANGED <<nft, opt, state>>, TrackedAll(job'.st) PROVE TrackInv'
  BY <1>2 DEF TrackInv, TrackedAll, Tracked, Claimed, Refreshed, Reopened
<1>3. CASE BeginSync
  <2>1. PICK refresh \in BOOLEAN :
          job' = [at |-> "nft", st |-> [state EXCEPT !.ph = state.ph \/ refresh]]
    BY <1>3 DEF BeginSync
  <2>2. job'.st.nft = state.nft /\ job'.st.opt = state.opt
    BY <1>1, <2>1 DEF StateOK, State
  <2>3. TrackedAll(job'.st)
    BY <2>2 DEF TrackedAll, Tracked
  <2>4. QED
    BY <1>2, <1>3, <2>3 DEF BeginSync, chainVars
<1>4. CASE SyncNft
  <2> DEFINE n == Reconciled(job.st.nft, nft, FALSE, job.st.ph)
             s == [job.st EXCEPT !.nft = n]
  <2>1. job.st \in State /\ StateOK(job.st) /\ job.st.nft = state.nft /\ TrackedAll(job.st)
    BY <1>1, <1>4 DEF SyncNft, JobOK, StateOK, FileInv, TrackInv
  <2>2. /\ job.st.nft \in NftRec /\ job.st.nft.coin \in Seq(Hop)
        /\ job.st.nft.phase \in Phase /\ nft \in Seq(Hop) /\ job.st.ph \in BOOLEAN
        /\ (job.st.nft.phase = "none" <=> job.st.nft.coin = <<>>)
    BY <1>1, <2>1, PathFacts DEF StateOK, State, NftRec, ChainOK
  <2>3. Tracked(state.nft, n, nft)
    BY <2>1, <2>2, ReconciledTracks
  <2>4. job'.st = s /\ s.nft = n /\ s.opt = job.st.opt
    BY <1>4, <2>1 DEF SyncNft, State
  <2>5. TrackedAll(s)
    BY <2>1, <2>3, <2>4 DEF TrackedAll
  <2>6. QED
    BY <1>2, <1>4, <2>4, <2>5 DEF SyncNft, chainVars
<1>5. CASE SyncOpt
  <2> DEFINE o == job.next
             rec == Reconciled(job.st.opt[o], opt[o], o \in melted, job.st.ph)
             s == [job.st EXCEPT !.opt[o] = rec]
  <2>1. /\ job.st \in State /\ StateOK(job.st) /\ o \in Opt /\ job.st.opt[o] = state.opt[o]
        /\ TrackedAll(job.st)
    BY <1>1, <1>5 DEF SyncOpt, JobOK, StateOK, FileInv, TrackInv, Opt
  <2>2. /\ job.st.opt[o] \in OptRec /\ job.st.opt[o].coin \in Seq(Hop)
        /\ job.st.opt[o].phase \in Phase /\ opt[o] \in Seq(Hop) /\ job.st.ph \in BOOLEAN
        /\ (job.st.opt[o].phase = "none" <=> job.st.opt[o].coin = <<>>)
        /\ (o \in melted) \in BOOLEAN
    BY <1>1, <2>1, PathFacts DEF StateOK, State, OptRec, ChainOK
  <2>3. Tracked(state.opt[o], rec, opt[o])
    BY <2>1, <2>2, ReconciledTracks
  <2>4. job'.st = s
    <3>1. job' = [job EXCEPT !.next = o + 1, !.st.opt[o] = rec]
      BY <1>5 DEF SyncOpt
    <3>2. job.at = "opt"
      BY <1>5 DEF SyncOpt
    <3>3. QED
      BY <3>1, <3>2
  <2>5. s.nft = job.st.nft /\ s.opt = [job.st.opt EXCEPT ![o] = rec] /\ job.st.opt \in [Opt -> OptRec]
    BY <2>1 DEF State
  <2>6. TrackedAll(s)
    BY <2>1, <2>3, <2>5 DEF TrackedAll
  <2>7. QED
    BY <1>2, <1>5, <2>4, <2>6 DEF SyncOpt, chainVars
<1>6. CASE SyncLookupFailed
  <2>1. job'.st = job.st /\ TrackedAll(job.st)
    <3>1. CASE job' = [at |-> "opt", next |-> 1, st |-> job.st]
      BY <1>6, <3>1 DEF SyncLookupFailed, TrackInv
    <3>2. CASE job.at = "opt" /\ job' = [job EXCEPT !.next = @ + 1]
      BY <3>2 DEF TrackInv
    <3>3. QED
      BY <1>6, <3>1, <3>2 DEF SyncLookupFailed
  <2>2. QED
    BY <1>2, <1>6, <2>1 DEF SyncLookupFailed, chainVars
<1>7. CASE SaveSync
  BY <1>7, Blanks DEF SaveSync, TrackInv
<1>8. QED
  BY <1>3, <1>4, <1>5, <1>6, <1>7 DEF Sync

LEMMA TrackStep ==
  ASSUME TypeInv, LinkInv, FileInv, TrackInv, [Next]_vars
  PROVE  TrackInv'
<1>1. StateOK(state) /\ JobOK
  BY DEF TypeInv
<1>2. ASSUME UNCHANGED <<nft, opt, state, job>> PROVE TrackInv'
  BY <1>2 DEF TrackInv, TrackedAll, Tracked, Claimed, Refreshed, Reopened
<1>3. ASSUME NEW o \in Opt, Offer(o) PROVE TrackInv'
  BY <1>2, <1>3 DEF Offer, chainVars
<1>4. ASSUME NEW o \in Opt, Recover(o) PROVE TrackInv'
  BY <1>4, Blanks DEF Recover, TrackInv
<1>5. CASE Save \/ RecoverTaken \/ RecoverTakenFailed \/ Crash
  BY <1>5, Blanks DEF Save, RecoverTaken, RecoverTakenFailed, Crash, TrackInv
<1>6. CASE Network
  <2>1. Grows /\ state' = state /\ job' = job
    BY <1>6, NetworkGrows
  <2>2. ASSUME job.at \in {"pushed", "nft", "opt"} PROVE TrackedAll(job.st)'
    <3>1. StateOK(job.st) /\ TrackedAll(job.st)
      BY <1>1, <2>2 DEF JobOK, TrackInv
    <3>2. /\ Tracked(state'.nft, job.st.nft, nft')
          /\ \A o \in Opt : Tracked(state'.opt[o], job.st.opt[o], opt'[o])
      BY <2>1, <3>1, TrackedAllGrows
    <3>3. QED
      BY <2>1, <3>2 DEF TrackedAll, Tracked, Claimed, Refreshed, Reopened
  <2>3. QED
    BY <2>1, <2>2 DEF TrackInv
<1>7. CASE UNCHANGED vars
  BY <1>2, <1>7 DEF vars
<1>8. QED
  BY <1>3, <1>4, <1>5, <1>6, <1>7, TrackMints, TrackMoves, TrackSync DEF Next, Command

THEOREM TrackInvariant == Spec => [](TypeInv /\ LinkInv /\ FileInv /\ TrackInv)
<1>1. Init => TrackInv
  BY Blanks DEF Init, TrackInv
<1>2. TypeInv /\ LinkInv /\ FileInv /\ TrackInv /\ [Next]_vars => TrackInv'
  BY TrackStep
<1>3. QED
  BY FileInvariant, <1>1, <1>2, PTL DEF Spec

-----------------------------------------------------------------------------
(* Every step is one of RecordTracks.                                        *)

\* The operators on sequences are the same in both modules.
LEMMA SameSequences ==
  /\ \A s, t : Tracks!IsPrefix(s, t) <=> IsPrefix(s, t)
  /\ \A s : Tracks!Parent(s) = Parent(s)
  BY DEF IsPrefix, Tracks!IsPrefix, Front, Tracks!Front, Parent, Tracks!Parent

\* A step of one singleton.
TrackOf(i) ==
  \/ Tracks!Grow(i) \/ Tracks!Claim(i) \/ Tracks!Follow(i) \/ Tracks!Reset(i) \/ Tracks!Stay(i)

\* The variables of RecordTracks at one singleton, before and after a step.
LEMMA TracksAt ==
  ASSUME NEW i \in Singleton
  PROVE  /\ [j \in Singleton |-> PathOf(j)][i] = PathOf(i)
         /\ [j \in Singleton |-> CoinOf(j)][i] = CoinOf(i)
         /\ [j \in Singleton |-> PhaseOf(j)][i] = PhaseOf(i)
         /\ [j \in Singleton |-> PathOf(j)]'[i] = PathOf(i)'
         /\ [j \in Singleton |-> CoinOf(j)]'[i] = CoinOf(i)'
         /\ [j \in Singleton |-> PhaseOf(j)]'[i] = PhaseOf(i)'
  BY DEF PathOf, CoinOf, PhaseOf

\* A save of a record that tracks the one of the file.
LEMMA TrackedIsStep ==
  ASSUME NEW i \in Singleton, PathOf(i)' = PathOf(i), NEW old, NEW new,
         CoinOf(i) = old.coin, PhaseOf(i) = old.phase,
         CoinOf(i)' = new.coin, PhaseOf(i)' = new.phase,
         Tracked(old, new, PathOf(i))
  PROVE  TrackOf(i)
<1> USE DEF TrackOf
<1>1. CASE new.coin = old.coin /\ new.phase = old.phase
  BY <1>1, TracksAt DEF Tracks!Stay
<1>2. CASE Claimed(new, PathOf(i))
  BY <1>2, TracksAt, SameSequences DEF Claimed, Tracks!Claim
<1>3. CASE Refreshed(old, new, PathOf(i))
  BY <1>3, TracksAt, SameSequences DEF Refreshed, Found, Reopened, Tracks!Follow, Tracks!OnChain
<1>4. QED
  BY <1>1, <1>2, <1>3 DEF Tracked

\* What a command or sync saves.
LEMMA SaveTracks ==
  ASSUME TypeInv, NEW s, StateOK(s), TrackedAll(s), state' = s, UNCHANGED <<nft, opt>>,
         NEW i \in Singleton
  PROVE  TrackOf(i)
<1>1. CASE i = 0
  <2>1. /\ PathOf(i)' = PathOf(i) /\ PathOf(i) = nft
        /\ CoinOf(i) = state.nft.coin /\ PhaseOf(i) = state.nft.phase
        /\ CoinOf(i)' = s.nft.coin /\ PhaseOf(i)' = s.nft.phase
    BY <1>1 DEF PathOf, CoinOf, PhaseOf
  <2>2. Tracked(state.nft, s.nft, nft)
    BY DEF TrackedAll
  <2>3. QED
    BY <2>1, <2>2, TrackedIsStep
<1>2. CASE i # 0
  <2>1. i \in Opt
    BY <1>2, LifecycleAssumption DEF Singleton, Opt
  <2>2. /\ PathOf(i)' = PathOf(i) /\ PathOf(i) = opt[i]
        /\ CoinOf(i) = state.opt[i].coin /\ PhaseOf(i) = state.opt[i].phase
        /\ CoinOf(i)' = s.opt[i].coin /\ PhaseOf(i)' = s.opt[i].phase
    BY <1>2 DEF PathOf, CoinOf, PhaseOf
  <2>3. Tracked(state.opt[i], s.opt[i], opt[i])
    BY <2>1 DEF TrackedAll
  <2>4. QED
    BY <2>2, <2>3, TrackedIsStep
<1>3. QED
  BY <1>1, <1>2

\* A block, and every other step that leaves the file alone.
LEMMA GrowTracks ==
  ASSUME TypeInv, Grows, state' = state, NEW i \in Singleton
  PROVE  TrackOf(i)
<1>1. CoinOf(i)' = CoinOf(i) /\ PhaseOf(i)' = PhaseOf(i)
  BY DEF CoinOf, PhaseOf
<1>2. ASSUME NEW S, Settle \notin S, PathOf(i) \in Path(S),
             \/ PathOf(i)' = PathOf(i)
             \/ \E b \in BOOLEAN, x \in S : PathOf(i)' = Passed(PathOf(i), b, x)
      PROVE  TrackOf(i)
  <2>1. CASE PathOf(i)' = PathOf(i)
    BY <1>1, <2>1, TracksAt DEF TrackOf, Tracks!Stay
  <2>2. CASE \E b \in BOOLEAN, x \in S : PathOf(i)' = Passed(PathOf(i), b, x)
    <3>1. PICK b \in BOOLEAN, x \in S : PathOf(i)' = Passed(PathOf(i), b, x)
      BY <2>2
    <3>2. PathOf(i)' # <<>> /\ Parent(PathOf(i)') = PathOf(i)
      BY <1>2, <3>1, ParentOfPassed
    <3>3. QED
      BY <1>1, <3>2, TracksAt, SameSequences DEF TrackOf, Tracks!Grow
  <2>3. QED
    BY <1>2, <2>1, <2>2
<1>3. CASE i = 0
  <2>1. PathOf(i) = nft /\ PathOf(i)' = nft' /\ nft \in Path(Party \cup Opt)
    BY <1>3 DEF PathOf, TypeInv, ChainOK, NftPath
  <2>2. QED
    BY <1>2, <2>1, SettleApart DEF Grows
<1>4. CASE i # 0
  <2>1. i \in Opt
    BY <1>4, LifecycleAssumption DEF Singleton, Opt
  <2>2. PathOf(i) = opt[i] /\ PathOf(i)' = opt'[i] /\ opt[i] \in Path(Party)
    BY <1>4, <2>1 DEF PathOf, TypeInv, ChainOK, OptPath
  <2>3. QED
    BY <1>2, <2>1, <2>2, SettleApart DEF Grows
<1>5. QED
  BY <1>3, <1>4

\* Recovering terms resets the record of the NFT and no other.
LEMMA RecoverTracks ==
  ASSUME TypeInv, NEW o \in Opt, Recoverable(o), state' = Recovered(o),
         UNCHANGED <<nft, opt>>, NEW i \in Singleton
  PROVE  TrackOf(i)
<1>1. /\ state'.nft = [coin |-> terms[o].lock, phase |-> "superseded"]
      /\ \A p \in Opt : /\ state'.opt[p].coin = state.opt[p].coin
                        /\ state'.opt[p].phase = state.opt[p].phase
  BY DEF TypeInv, StateOK, State, OptRec, Recovered
<1>2. CASE i = 0
  <2>1. Found(terms[o].lock, nft)
    BY StatusFound DEF Recoverable, NftStatus
  <2>2. /\ PathOf(i)' = PathOf(i) /\ PathOf(i) = nft
        /\ CoinOf(i)' = terms[o].lock /\ PhaseOf(i)' = "superseded"
    BY <1>1, <1>2 DEF PathOf, CoinOf, PhaseOf
  <2>3. QED
    BY <1>2, <2>1, <2>2, TracksAt, SameSequences
    DEF Found, TrackOf, Tracks!Reset, Tracks!OnChain
<1>3. CASE i # 0
  <2>1. i \in Opt
    BY <1>3, LifecycleAssumption DEF Singleton, Opt
  <2>2. PathOf(i)' = PathOf(i) /\ CoinOf(i)' = CoinOf(i) /\ PhaseOf(i)' = PhaseOf(i)
    BY <1>1, <1>3, <2>1 DEF PathOf, CoinOf, PhaseOf
  <2>3. QED
    BY <2>2, TracksAt DEF TrackOf, Tracks!Stay
<1>4. QED
  BY <1>2, <1>3

LEMMA NextTracks ==
  ASSUME TypeInv, LinkInv, TrackInv, [Next]_vars
  PROVE  [Tracks!TrackNext]_(Tracks!trackVars)
<1>1. (\A i \in Singleton : TrackOf(i)) => Tracks!TrackNext
  BY DEF TrackOf, Tracks!TrackNext
<1>2. ASSUME UNCHANGED <<nft, opt, state>>, NEW i \in Singleton PROVE TrackOf(i)
  BY <1>2, GrowTracks DEF Grows
<1>3. CASE Network
  BY <1>1, <1>3, NetworkGrows, GrowTracks
<1>4. CASE Save \/ SaveSync
  <2>1. /\ state' = job.st /\ UNCHANGED <<nft, opt>>
        /\ StateOK(job.st) /\ TrackedAll(job.st)
    BY <1>4 DEF Save, SaveSync, chainVars, TypeInv, JobOK, TrackInv
  <2>2. QED
    BY <1>1, <2>1, SaveTracks
<1>5. ASSUME NEW o \in Opt, Recover(o) PROVE Tracks!TrackNext
  BY <1>1, <1>5, RecoverTracks DEF Recover, chainVars
<1>6. CASE RecoverTaken
  <2>1. /\ job.o \in Opt /\ Recoverable(job.o) /\ state' = Recovered(job.o)
        /\ UNCHANGED <<nft, opt>>
    BY <1>6 DEF RecoverTaken, chainVars, TypeInv, JobOK
  <2>2. QED
    BY <1>1, <2>1, RecoverTracks
<1>7. ASSUME Command \/ Sync, ~Save, ~SaveSync, ~RecoverTaken, \A o \in Opt : ~Recover(o)
      PROVE  UNCHANGED <<nft, opt, state>>
  BY <1>7 DEF Command, Sync, Mint, SweepIncome, Create, Offer, Take, Exercise, Clawback, Submit,
              RecoverTakenFailed, Crash, BeginSync, SyncNft, SyncOpt, SyncLookupFailed, chainVars
<1>8. CASE UNCHANGED vars
  BY <1>1, <1>2, <1>8 DEF vars
<1>9. QED
  BY <1>1, <1>2, <1>3, <1>4, <1>5, <1>6, <1>7, <1>8 DEF Next

LEMMA InitTracks == Init => Tracks!TrackInit
<1> SUFFICES ASSUME Init PROVE Tracks!TrackInit
  OBVIOUS
<1>1. ASSUME NEW i \in Singleton PROVE CoinOf(i) = <<>> /\ PhaseOf(i) = "none"
  <2>1. state.nft = NoNft /\ \A o \in Opt : state.opt[o] = NoOption
    BY DEF Init
  <2>2. i = 0 \/ i \in Opt
    BY LifecycleAssumption DEF Singleton, Opt
  <2>3. QED
    BY <2>1, <2>2 DEF CoinOf, PhaseOf, NoNft, NoOption
<1>2. QED
  BY <1>1 DEF Tracks!TrackInit

\* The records of the NFT and of every option implement RecordTracks
\* (RecordsTrack): however many options are written, whoever overtakes the
\* wallet, and whatever is dropped, lost, interrupted or not found, no record is
\* more than one bundle ahead of the chain, through a settlement coin or not,
\* sync moves records only forward, and only a recovery sets the NFT's back.
THEOREM RecordsImplementTracks == Spec => RecordsTrack
<1>1. TypeInv /\ LinkInv /\ FileInv /\ TrackInv /\ [Next]_vars
        => [Tracks!TrackNext]_(Tracks!trackVars)
  BY NextTracks
<1>2. QED
  BY TrackInvariant, InitTracks, <1>1, PTL DEF Spec, RecordsTrack, Tracks!TrackSpec
===============================================================================
