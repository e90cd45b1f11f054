--------------------------- MODULE Lifecycle_proofs ---------------------------
(* Theorems about Lifecycle, for any number of options and coins. *)
EXTENDS Lifecycle, TLAPS

-----------------------------------------------------------------------------
(* Coins as paths. *)

LEMMA PrefixAppend ==
  ASSUME NEW S, NEW s \in Seq(S), NEW t \in Seq(S), NEW x \in S, IsPrefix(s, t)
  PROVE  IsPrefix(s, Append(t, x))
<1>1. Len(s) <= Len(t) /\ SubSeq(s, 1, Len(s)) = SubSeq(t, 1, Len(s))
  BY DEF IsPrefix
<1>2. SubSeq(Append(t, x), 1, Len(s)) = SubSeq(t, 1, Len(s))
  BY <1>1
<1>3. Len(Append(t, x)) = Len(t) + 1
  OBVIOUS
<1>4. QED
  BY <1>1, <1>2, <1>3 DEF IsPrefix

LEMMA PrefixSelf == ASSUME NEW S, NEW s \in Seq(S) PROVE IsPrefix(s, s)
  BY DEF IsPrefix

LEMMA AppendNoPrefix ==
  ASSUME NEW S, NEW t \in Seq(S), NEW x \in S PROVE ~IsPrefix(Append(t, x), t)
  BY DEF IsPrefix

\* Who may be on a path.
Hop == Party \cup Opt \cup {Settle}

LEMMA PathFacts ==
  /\ \A p \in NftPath \cup OptPath : p \in Seq(Hop)
  /\ <<>> \in NftPath /\ <<>> \in OptPath
  /\ \A x \in Party \cup Opt : <<x>> \in NftPath
  /\ \A x \in Party : <<x>> \in OptPath
<1>1. \A S : <<>> \in Path(S) /\ \A x \in S : <<x>> \in Path(S)
  BY DEF Path, Owner
<1>2. \A p \in Seq(Party \cup {Settle}) : p \in Seq(Hop)
  BY DEF Hop
<1>3. QED
  BY <1>1, <1>2 DEF Path, NftPath, OptPath, Hop

\* What a bundle leaves of a coin is a coin of its new owner, further down the path.
LEMMA PassedFacts ==
  ASSUME NEW S, NEW p \in Path(S), NEW b \in BOOLEAN, NEW x \in S
  PROVE  /\ Passed(p, b, x) \in Path(S) /\ Passed(p, b, x) # <<>>
         /\ Owner(Passed(p, b, x)) = x
         /\ IsPrefix(p, Passed(p, b, x)) /\ ~IsPrefix(Passed(p, b, x), p)
<1> DEFINE H == S \cup {Settle}
           q == IF b THEN Append(p, Settle) ELSE p
<1>1. p \in Seq(H) /\ Settle \in H /\ x \in H
  BY DEF Path
<1>2. q \in Seq(H) /\ Len(q) >= Len(p) /\ IsPrefix(p, q)
  <2>1. CASE b
    BY <1>1, <2>1, PrefixSelf, PrefixAppend
  <2>2. CASE ~b
    BY <1>1, <2>2, PrefixSelf
  <2>3. QED
    BY <2>1, <2>2
<1>3. Passed(p, b, x) = Append(q, x)
  BY DEF Passed
<1> HIDE DEF q
<1>4. Append(q, x) \in Seq(H) /\ Append(q, x) # <<>> /\ Append(q, x)[Len(Append(q, x))] = x
      /\ Len(Append(q, x)) = Len(q) + 1
  BY <1>1, <1>2
<1>5. IsPrefix(p, Append(q, x))
  BY <1>1, <1>2, PrefixAppend
<1>6. ~IsPrefix(Append(q, x), p)
  BY <1>1, <1>2, <1>4 DEF IsPrefix
<1>7. QED
  BY <1>3, <1>4, <1>5, <1>6 DEF Path, Owner

LEMMA PrefixPassed ==
  ASSUME NEW s \in Seq(Hop), NEW p \in Seq(Hop), NEW b \in BOOLEAN, NEW x \in Hop, IsPrefix(s, p)
  PROVE  IsPrefix(s, Passed(p, b, x))
<1>1. Settle \in Hop
  BY DEF Hop
<1>2. IsPrefix(s, Append(p, Settle)) /\ Append(p, Settle) \in Seq(Hop)
  BY <1>1, PrefixAppend
<1>3. IsPrefix(s, Append(Append(p, Settle), x)) /\ IsPrefix(s, Append(p, x))
  BY <1>2, PrefixAppend
<1>4. QED
  BY <1>3 DEF Passed

LEMMA AppendIsPassed == ASSUME NEW p, NEW x PROVE Append(p, x) = Passed(p, FALSE, x)
BY DEF Passed

LEMMA NftPassed ==
  ASSUME NEW p \in NftPath, NEW b \in BOOLEAN, NEW x \in Party \cup Opt
  PROVE  Passed(p, b, x) \in NftPath /\ Passed(p, b, x) # <<>> /\ Owner(Passed(p, b, x)) = x
BY PassedFacts DEF NftPath

LEMMA OptPassed ==
  ASSUME NEW p \in OptPath, NEW b \in BOOLEAN, NEW x \in Party
  PROVE  Passed(p, b, x) \in OptPath /\ Passed(p, b, x) # <<>> /\ Owner(Passed(p, b, x)) = x
BY PassedFacts DEF OptPath

-----------------------------------------------------------------------------
(* Type correctness. *)

\* A state whose records are there or are not.
StateOK(s) ==
  /\ s \in State
  /\ s.nft.phase = "none" <=> s.nft.coin = <<>>
  /\ \A o \in Opt : /\ s.opt[o].phase = "none" <=> s.opt[o].coin = <<>>
                    /\ s.opt[o].reclaimed => s.opt[o].known

Terms == [lock : NftPath, kind : Kinds, creator : Party]

ChainOK ==
  /\ nft \in NftPath /\ opt \in [Opt -> OptPath] /\ melted \subseteq Launched
  /\ terms \in [Opt -> Terms]
  /\ expired \in BOOLEAN
  /\ offers \subseteq Opt \X OptPath

\* A bundle that spends an option coin names one.
TxOK(t) ==
  /\ t \in Tx
  /\ t.kind \in {"create", "take", "exercise", "clawback"} => t.o \in Opt
  /\ t.kind \in {"take", "exercise"} => t.coin # <<>>

JobOK ==
  /\ job.at \in {"idle", "pushed", "recover", "nft", "opt"}
  /\ job.at \in {"pushed", "nft", "opt"} => StateOK(job.st)
  /\ job.at = "pushed" => job.taken \in {0} \cup Opt
  /\ job.at = "recover" => job.o \in Opt
  /\ job.at = "opt" => job.next \in Nat

TypeInv == ChainOK /\ StateOK(state) /\ JobOK /\ \A t \in mempool : TxOK(t)

LEMMA Blanks ==
  /\ NoNft \in NftRec /\ NoOption \in OptRec /\ NoTerms \in Terms
  /\ Idle.at = "idle"
<1>1. NoNft \in NftRec
  BY PathFacts DEF NoNft, NftRec, Phase
<1>2. NoOption \in OptRec
  BY PathFacts DEF NoOption, OptRec, Phase
<1>3. NoTerms \in Terms
  BY PathFacts DEF NoTerms, Terms, Kinds, Party
<1>4. QED
  BY <1>1, <1>2, <1>3 DEF Idle

LEMMA InitTypeInv == Init => TypeInv
<1> SUFFICES ASSUME Init PROVE TypeInv
  OBVIOUS
<1>1. PICK b \in BOOLEAN : state = [nft |-> NoNft, opt |-> [o \in Opt |-> NoOption], ph |-> b]
  BY DEF Init
<1>2. state \in State
  BY <1>1, Blanks DEF State
<1>3. StateOK(state)
  BY <1>1, <1>2 DEF StateOK, NoNft, NoOption
<1>4. nft \in NftPath
  <2>1. Peer \in Party \cup Opt
    BY DEF Party
  <2>2. <<>> \in NftPath /\ <<Peer>> \in NftPath
    BY <2>1, PathFacts
  <2>3. QED
    BY <2>2 DEF Init
<1>8. opt \in [Opt -> OptPath]
  BY PathFacts DEF Init
<1>9. terms \in [Opt -> Terms]
  BY Blanks DEF Init
<1>10. expired \in BOOLEAN
  BY Zenon DEF Init
<1>6. ChainOK
  BY <1>4, <1>8, <1>9, <1>10 DEF Init, ChainOK
<1>7. QED
  BY <1>3, <1>6, Blanks DEF Init, TypeInv, JobOK

\* The bundles the commands build.
LEMMA NftTxOK ==
  ASSUME StateOK(state),
         NEW kind \in {"mint", "sweep", "create", "take", "exercise", "clawback"},
         NEW o \in 0..MaxOpt, NEW to \in Party \cup Opt
  PROVE  NftTx(kind, o, to) \in Tx
<1>1. state.nft.coin \in NftPath
  BY DEF StateOK, State, NftRec
<1>2. <<>> \in OptPath /\ Me \in Party
  BY PathFacts DEF Party
<1>3. QED
  BY <1>1, <1>2 DEF NftTx, Tx

LEMMA SingletonTxsOK ==
  ASSUME StateOK(state)
  PROVE  TxOK(MintTx) /\ TxOK(SweepTx)
<1>1. Me \in Party \cup Opt /\ 0 \in 0..MaxOpt /\ <<>> \in NftPath
  BY LifecycleAssumption, PathFacts DEF Party
<1>2. NftTx("mint", 0, Me) \in Tx /\ SweepTx \in Tx
  BY <1>1, NftTxOK DEF SweepTx
<1>3. MintTx \in Tx /\ MintTx.kind = "mint" /\ SweepTx.kind = "sweep"
  BY <1>1, <1>2 DEF MintTx, SweepTx, NftTx, Tx
<1>4. QED
  BY <1>2, <1>3 DEF TxOK

LEMMA OptionTxsOK ==
  ASSUME StateOK(state), ChainOK, NEW o \in Opt
  PROVE  /\ \A owner \in Party : TxOK(CreateTx(o, owner))
         /\ opt[o] # <<>> => TxOK(TakeTx(o))
         /\ state.opt[o].phase # "none" => TxOK(ExerciseTx(o))
         /\ \A to \in Party : TxOK(ClawbackTx(o, to))
<1>1. Me \in Party /\ o \in 0..MaxOpt /\ Party \subseteq Party \cup Opt /\ o \in Party \cup Opt
  BY LifecycleAssumption DEF Party, Opt
<1>2. NftTx("create", o, o) \in Tx /\ NftTx("take", o, Me) \in Tx
      /\ NftTx("exercise", o, Me) \in Tx /\ \A to \in Party : NftTx("clawback", o, to) \in Tx
  BY <1>1, NftTxOK
<1>3. ASSUME NEW owner \in Party PROVE TxOK(CreateTx(o, owner))
  <2>1. CreateTx(o, owner) \in Tx
    BY <1>2 DEF CreateTx, Tx
  <2>2. CreateTx(o, owner).kind = "create" /\ CreateTx(o, owner).o = o
    BY DEF CreateTx, NftTx
  <2>3. QED
    BY <2>1, <2>2 DEF TxOK
<1>4. ASSUME opt[o] # <<>> PROVE TxOK(TakeTx(o))
  <2>1. opt[o] \in OptPath /\ <<>> \in NftPath
    BY PathFacts DEF ChainOK
  <2>2. TakeTx(o) \in Tx
    BY <1>2, <2>1 DEF TakeTx, Tx
  <2>3. TakeTx(o).o = o /\ TakeTx(o).coin = opt[o]
    BY DEF TakeTx, NftTx
  <2>4. QED
    BY <1>4, <2>2, <2>3 DEF TxOK
<1>5. ASSUME state.opt[o].phase # "none" PROVE TxOK(ExerciseTx(o))
  <2>1. state.opt[o].coin \in OptPath /\ state.opt[o].coin # <<>>
    BY <1>5 DEF StateOK, State, OptRec
  <2>2. TransferTx(o) \in Tx /\ TransferTx(o).o = o /\ TransferTx(o).coin = state.opt[o].coin
    BY <1>2, <2>1 DEF TransferTx, NftTx, Tx
  <2>3. terms[o].creator \in Party \cup Opt
    BY DEF ChainOK, Terms
  <2>4. ReturnTx(o) \in Tx /\ ReturnTx(o).o = o /\ ReturnTx(o).coin = state.opt[o].coin
    BY <2>2, <2>3 DEF ReturnTx, Tx
  <2>5. QED
    BY <2>1, <2>2, <2>4 DEF ExerciseTx, TxOK
<1>6. ASSUME NEW to \in Party PROVE TxOK(ClawbackTx(o, to))
  BY <1>2, <1>6 DEF ClawbackTx, NftTx, TxOK
<1>7. QED
  BY <1>3, <1>4, <1>5, <1>6

\* The coins a bundle creates.
LEMMA ChildrenTyped ==
  ASSUME NEW t \in Tx
  PROVE  /\ NftChild(t) \in NftPath /\ NftChild(t) # <<>>
         /\ OptChild(t) \in OptPath /\ OptChild(t) # <<>>
<1>1. t.nft \in NftPath /\ t.to \in Party \cup Opt
      /\ t.coin \in OptPath /\ t.own \in Party /\ t.settled \in BOOLEAN
  BY DEF Tx
<1>2. QED
  BY <1>1, NftPassed, OptPassed DEF NftChild, OptChild

\* The states the commands save.
LEMMA WithNftOK ==
  ASSUME StateOK(state), NEW path \in NftPath, path # <<>>, NEW ph \in Phase \ {"none"}
  PROVE  /\ StateOK(WithNft(path, ph))
         /\ WithNft(path, ph).opt = state.opt /\ WithNft(path, ph).ph = state.ph
<1>1. [coin |-> path, phase |-> ph] \in NftRec
  BY DEF NftRec, Phase
<1>2. WithNft(path, ph) \in State
  BY <1>1 DEF WithNft, StateOK, State
<1>3. QED
  BY <1>2 DEF WithNft, StateOK, State

LEMMA OptEditOK ==
  ASSUME NEW s, StateOK(s), NEW o \in Opt, NEW rec \in OptRec,
         rec.phase = "none" <=> rec.coin = <<>>, rec.reclaimed => rec.known
  PROVE  StateOK([s EXCEPT !.opt[o] = rec])
<1> DEFINE n == [s EXCEPT !.opt[o] = rec]
<1>1. n.opt = [s.opt EXCEPT ![o] = rec] /\ n.nft = s.nft /\ n \in State
  BY DEF StateOK, State
<1>2. QED
  BY <1>1 DEF StateOK, State

\* Following a record leaves it a record; one that is not there stays so.
LEMMA NftReconciledOK ==
  ASSUME NEW rec \in NftRec, rec.phase = "none" <=> rec.coin = <<>>,
         NEW path \in NftPath, NEW gone \in BOOLEAN, NEW ph \in BOOLEAN
  PROVE  /\ Reconciled(rec, path, gone, ph) \in NftRec
         /\ Reconciled(rec, path, gone, ph).phase = "none"
              <=> Reconciled(rec, path, gone, ph).coin = <<>>
<1>1. rec.coin \in Seq(Hop) /\ path \in Seq(Hop) /\ rec.phase \in Phase
  BY PathFacts DEF NftRec
<1>2. ASSUME Status(rec.coin, path, gone) # "NotFound"
      PROVE  rec.phase # "none" /\ rec.coin # <<>> /\ path # <<>>
  <2>1. rec.coin # <<>> /\ IsPrefix(rec.coin, path)
    BY <1>2 DEF Status
  <2>2. Len(rec.coin) <= Len(path)
    BY <2>1 DEF IsPrefix
  <2>3. QED
    BY <1>1, <2>1, <2>2
<1>3. CASE Status(rec.coin, path, gone) = "NotFound"
  BY <1>3 DEF Reconciled
<1>4. CASE Status(rec.coin, path, gone) # "NotFound"
  BY <1>1, <1>2, <1>4 DEF Reconciled, NftRec, Phase
<1>5. QED
  BY <1>3, <1>4

LEMMA OptReconciledOK ==
  ASSUME NEW rec \in OptRec, rec.phase = "none" <=> rec.coin = <<>>,
         rec.reclaimed => rec.known,
         NEW path \in OptPath, NEW gone \in BOOLEAN, NEW ph \in BOOLEAN
  PROVE  /\ Reconciled(rec, path, gone, ph) \in OptRec
         /\ Reconciled(rec, path, gone, ph).phase = "none"
              <=> Reconciled(rec, path, gone, ph).coin = <<>>
         /\ Reconciled(rec, path, gone, ph).reclaimed => Reconciled(rec, path, gone, ph).known
<1>1. rec.coin \in Seq(Hop) /\ path \in Seq(Hop) /\ rec.phase \in Phase
  BY PathFacts DEF OptRec
<1>2. ASSUME Status(rec.coin, path, gone) # "NotFound"
      PROVE  rec.phase # "none" /\ rec.coin # <<>> /\ path # <<>>
  <2>1. rec.coin # <<>> /\ IsPrefix(rec.coin, path)
    BY <1>2 DEF Status
  <2>2. Len(rec.coin) <= Len(path)
    BY <2>1 DEF IsPrefix
  <2>3. QED
    BY <1>1, <2>1, <2>2
<1>3. CASE Status(rec.coin, path, gone) = "NotFound"
  BY <1>3 DEF Reconciled
<1>4. CASE Status(rec.coin, path, gone) # "NotFound"
  BY <1>1, <1>2, <1>4 DEF Reconciled, OptRec, Phase
<1>5. QED
  BY <1>3, <1>4

-----------------------------------------------------------------------------
(* The steps. *)

LEMMA SubmitOK ==
  ASSUME TypeInv, NEW t, TxOK(t), NEW after, StateOK(after),
         Submit(t, after), terms' \in [Opt -> Terms]
  PROVE  TypeInv'
<1>1. ChainOK' /\ StateOK(state)'
  <2>1. nft' = nft /\ opt' = opt /\ melted' = melted /\ offers' = offers /\ state' = state
    BY DEF Submit, chainVars
  <2>2. expired' = expired
    BY DEF Submit
  <2>3. expired' \in BOOLEAN
    BY <2>2, Zenon DEF TypeInv, ChainOK
  <2>4. StateOK(state)'
    BY <2>1 DEF TypeInv, StateOK
  <2>5. QED
    BY <2>1, <2>3, <2>4 DEF TypeInv, ChainOK, Launched
<1>2. \A u \in mempool' : TxOK(u)
  BY DEF Submit, TypeInv
<1>3. JobOK'
  <2>1. t.o \in Opt \/ t.kind # "take"
    BY DEF TxOK
  <2>2. CASE job' = [at |-> "pushed", st |-> after, taken |-> IF t.kind = "take" THEN t.o ELSE 0]
    <3>1. /\ job'.at = "pushed" /\ job'.st = after
          /\ job'.taken = (IF t.kind = "take" THEN t.o ELSE 0)
      BY <2>2
    <3>2. StateOK(job.st)'
      BY <3>1 DEF StateOK
    <3>3. QED
      BY <2>1, <3>1, <3>2 DEF JobOK
  <2>3. CASE job' = Idle
    BY <2>3, Blanks DEF JobOK
  <2>4. QED
    BY <2>2, <2>3 DEF Submit
<1>4. QED
  BY <1>1, <1>2, <1>3 DEF TypeInv, TxOK, Tx

LEMMA MintOK == ASSUME TypeInv, Mint PROVE TypeInv'
<1>1. StateOK(state) /\ terms' \in [Opt -> Terms]
  BY DEF Mint, TypeInv, ChainOK
<1>2. TxOK(MintTx) /\ MintTx \in Tx
  BY <1>1, SingletonTxsOK DEF TxOK
<1>3. NftChild(MintTx) \in NftPath /\ NftChild(MintTx) # <<>>
  BY <1>2, ChildrenTyped
<1>4. StateOK(WithNft(NftChild(MintTx), "pending"))
  BY <1>1, <1>3, WithNftOK DEF Phase
<1>5. QED
  BY <1>1, <1>2, <1>4, SubmitOK DEF Mint

LEMMA SweepOK == ASSUME TypeInv, SweepIncome PROVE TypeInv'
<1>1. StateOK(state) /\ terms' \in [Opt -> Terms]
  BY DEF SweepIncome, TypeInv, ChainOK
<1>2. TxOK(SweepTx) /\ SweepTx \in Tx
  BY <1>1, SingletonTxsOK DEF TxOK
<1>3. NftChild(SweepTx) \in NftPath /\ NftChild(SweepTx) # <<>>
  BY <1>2, ChildrenTyped
<1>4. StateOK(WithNft(NftChild(SweepTx), "pending"))
  BY <1>1, <1>3, WithNftOK DEF Phase
<1>5. QED
  BY <1>1, <1>2, <1>4, SubmitOK DEF SweepIncome

LEMMA CreateOK == ASSUME TypeInv, NEW o \in Opt, Create(o) PROVE TypeInv'
<1>1. StateOK(state) /\ ChainOK
  BY DEF TypeInv
<1>2. PICK k \in Kinds, creator \in Party, owner \in Party :
        LET t == CreateTx(o, owner) IN
        /\ terms' = [terms EXCEPT ![o] = [lock |-> NftChild(t), kind |-> k, creator |-> creator]]
        /\ Submit(t, [WithNft(NftChild(t), "superseded") EXCEPT
                       !.opt[o] = [coin |-> OptChild(t), phase |-> "pending",
                                   known |-> TRUE, reclaimed |-> FALSE]])
  BY DEF Create
<1> DEFINE t == CreateTx(o, owner)
           rec == [coin |-> OptChild(t), phase |-> "pending", known |-> TRUE, reclaimed |-> FALSE]
<1>3. TxOK(t) /\ t \in Tx
  BY <1>1, OptionTxsOK DEF TxOK
<1>4. /\ NftChild(t) \in NftPath /\ NftChild(t) # <<>>
      /\ OptChild(t) \in OptPath /\ OptChild(t) # <<>>
  BY <1>3, ChildrenTyped
<1>5. terms' \in [Opt -> Terms]
  <2>1. [lock |-> NftChild(t), kind |-> k, creator |-> creator] \in Terms
    BY <1>4 DEF Terms
  <2>2. QED
    BY <1>1, <1>2, <2>1 DEF ChainOK
<1>6. StateOK(WithNft(NftChild(t), "superseded"))
  BY <1>1, <1>4, WithNftOK DEF Phase
<1>7. rec \in OptRec /\ rec.phase # "none" /\ rec.coin # <<>> /\ (rec.reclaimed => rec.known)
  BY <1>4 DEF OptRec, Phase
<1>8. StateOK([WithNft(NftChild(t), "superseded") EXCEPT !.opt[o] = rec])
  BY <1>6, <1>7, OptEditOK
<1>9. QED
  BY <1>2, <1>3, <1>5, <1>8, SubmitOK

LEMMA TakeOK == ASSUME TypeInv, NEW o \in Opt, Take(o) PROVE TypeInv'
<1>1. StateOK(state) /\ ChainOK /\ terms' \in [Opt -> Terms]
  BY DEF Take, TypeInv, ChainOK
<1>2. opt[o] # <<>>
  BY DEF Take, LiveOffer, OptStatus, Status
<1>3. TxOK(TakeTx(o)) /\ TakeTx(o) \in Tx
  BY <1>1, <1>2, OptionTxsOK DEF TxOK
<1>4. Purchased(o) \in OptRec /\ Purchased(o).phase # "none" /\ Purchased(o).coin # <<>>
      /\ (Purchased(o).reclaimed => Purchased(o).known)
  <2>1. OptChild(TakeTx(o)) \in OptPath /\ OptChild(TakeTx(o)) # <<>>
    BY <1>3, ChildrenTyped
  <2>2. QED
    BY <2>1 DEF Purchased, OptRec, Phase
<1>5. StateOK([state EXCEPT !.opt[o] = Purchased(o)])
  BY <1>1, <1>4, OptEditOK
<1>6. QED
  BY <1>1, <1>3, <1>5, SubmitOK DEF Take

\* A command that moves the NFT and edits the record of an option that is there.
LEMMA NftAndOptOK ==
  ASSUME StateOK(state), NEW path \in NftPath, path # <<>>, NEW o \in Opt,
         state.opt[o].phase # "none"
  PROVE  /\ StateOK([WithNft(path, "pending") EXCEPT !.opt[o].phase = "superseded"])
         /\ state.opt[o].known =>
              StateOK([WithNft(path, "pending") EXCEPT !.opt[o].reclaimed = TRUE])
<1> DEFINE w == WithNft(path, "pending")
           closed == [state.opt[o] EXCEPT !.phase = "superseded"]
           flagged == [state.opt[o] EXCEPT !.reclaimed = TRUE]
<1>1. StateOK(w) /\ w.opt = state.opt /\ w \in State
  BY WithNftOK DEF Phase, StateOK
<1>2. state.opt[o] \in OptRec /\ state.opt[o].coin # <<>>
      /\ (state.opt[o].reclaimed => state.opt[o].known)
  BY DEF StateOK, State
<1>3. StateOK([w EXCEPT !.opt[o] = closed])
  <2>1. closed \in OptRec /\ closed.phase # "none" /\ closed.coin # <<>>
        /\ (closed.reclaimed => closed.known)
    BY <1>2 DEF OptRec, Phase
  <2>2. QED
    BY <1>1, <2>1, OptEditOK
<1>4. ASSUME state.opt[o].known PROVE StateOK([w EXCEPT !.opt[o] = flagged])
  <2>1. flagged \in OptRec /\ flagged.phase # "none" /\ flagged.coin # <<>>
        /\ (flagged.reclaimed => flagged.known)
    BY <1>2, <1>4 DEF OptRec, Phase
  <2>2. QED
    BY <1>1, <2>1, OptEditOK
<1>5. /\ [w EXCEPT !.opt[o].phase = "superseded"] = [w EXCEPT !.opt[o] = closed]
      /\ [w EXCEPT !.opt[o].reclaimed = TRUE] = [w EXCEPT !.opt[o] = flagged]
  BY <1>1 DEF State
<1>6. QED
  BY <1>3, <1>4, <1>5

LEMMA ExerciseOK == ASSUME TypeInv, NEW o \in Opt, Exercise(o) PROVE TypeInv'
<1>1. StateOK(state) /\ ChainOK /\ terms' \in [Opt -> Terms] /\ state.opt[o].phase # "none"
  BY DEF Exercise, ExerciseGuard, TypeInv, ChainOK
<1>2. TxOK(ExerciseTx(o)) /\ ExerciseTx(o) \in Tx
  BY <1>1, OptionTxsOK DEF TxOK
<1>3. NftChild(ExerciseTx(o)) \in NftPath /\ NftChild(ExerciseTx(o)) # <<>>
  BY <1>2, ChildrenTyped
<1>4. StateOK([WithNft(NftChild(ExerciseTx(o)), "pending") EXCEPT !.opt[o].phase = "superseded"])
  BY <1>1, <1>3, NftAndOptOK
<1>5. QED
  BY <1>1, <1>2, <1>4, SubmitOK DEF Exercise

LEMMA ClawbackOK == ASSUME TypeInv, NEW o \in Opt, Clawback(o) PROVE TypeInv'
<1>1. /\ StateOK(state) /\ ChainOK /\ terms' \in [Opt -> Terms]
      /\ state.opt[o].phase # "none" /\ state.opt[o].known
  BY DEF Clawback, ClawbackGuard, TypeInv, ChainOK
<1>2. PICK to \in Party :
        Submit(ClawbackTx(o, to),
               [WithNft(NftChild(ClawbackTx(o, to)), "pending") EXCEPT !.opt[o].reclaimed = TRUE])
  BY DEF Clawback
<1>3. TxOK(ClawbackTx(o, to)) /\ ClawbackTx(o, to) \in Tx
  BY <1>1, OptionTxsOK DEF TxOK
<1>4. NftChild(ClawbackTx(o, to)) \in NftPath /\ NftChild(ClawbackTx(o, to)) # <<>>
  BY <1>3, ChildrenTyped
<1>5. StateOK([WithNft(NftChild(ClawbackTx(o, to)), "pending") EXCEPT !.opt[o].reclaimed = TRUE])
  BY <1>1, <1>4, NftAndOptOK
<1>6. QED
  BY <1>1, <1>2, <1>3, <1>5, SubmitOK

\* Recovered names the locked coin, which is a coin when it can be recovered.
LEMMA RecoveredOK ==
  ASSUME StateOK(state), ChainOK, NEW o \in Opt, Recoverable(o)
  PROVE  StateOK(Recovered(o))
<1>1. terms[o].lock \in NftPath /\ terms[o].lock # <<>>
  BY DEF ChainOK, Terms, Recoverable, NftStatus, Status
<1> DEFINE n == [coin |-> terms[o].lock, phase |-> "superseded"]
           s == [state EXCEPT !.nft = n]
           rec == [state.opt[o] EXCEPT !.known = TRUE]
<1>2. n \in NftRec
  BY <1>1 DEF NftRec, Phase
<1>3. StateOK(s) /\ s.opt = state.opt /\ s \in State
  BY <1>1, <1>2 DEF StateOK, State
<1>4. rec \in OptRec /\ (rec.phase = "none" <=> rec.coin = <<>>) /\ (rec.reclaimed => rec.known)
  BY DEF StateOK, State, OptRec
<1>5. StateOK([s EXCEPT !.opt[o] = rec])
  BY <1>3, <1>4, OptEditOK
<1>6. Recovered(o) = [s EXCEPT !.opt[o] = rec]
  BY <1>3 DEF Recovered, StateOK, State
<1>7. QED
  BY <1>5, <1>6

\* A step of the program that only writes the state file and moves the job on.
LEMMA LocalOK ==
  ASSUME TypeInv, UNCHANGED <<chainVars, terms, expired, mempool, offers>>,
         StateOK(state'), JobOK'
  PROVE  TypeInv'
<1>1. nft' = nft /\ opt' = opt /\ melted' = melted /\ terms' = terms /\ offers' = offers
      /\ mempool' = mempool
  BY DEF chainVars
<1>2. expired' \in BOOLEAN
  <2>1. expired' = expired
    OBVIOUS
  <2>2. QED
    BY <2>1, Zenon DEF TypeInv, ChainOK
<1>3. ChainOK'
  BY <1>1, <1>2 DEF TypeInv, ChainOK, Launched
<1>4. StateOK(state)'
  BY DEF StateOK
<1>5. \A t \in mempool' : TxOK(t)
  BY <1>1 DEF TypeInv
<1>6. QED
  BY <1>3, <1>4, <1>5 DEF TypeInv, TxOK, Tx

LEMMA OfferOK == ASSUME TypeInv, NEW o \in Opt, Offer(o) PROVE TypeInv'
<1>1. /\ nft' = nft /\ opt' = opt /\ melted' = melted /\ terms' = terms /\ mempool' = mempool
      /\ state' = state /\ job' = job /\ offers' = offers \cup {<<o, state.opt[o].coin>>}
  BY DEF Offer, chainVars
<1>2. offers' \subseteq Opt \X OptPath
  BY <1>1 DEF TypeInv, ChainOK, StateOK, State, OptRec
<1>3. expired' \in BOOLEAN
  <2>1. expired' = expired
    BY DEF Offer
  <2>2. QED
    BY <2>1, Zenon DEF TypeInv, ChainOK
<1>4. ChainOK'
  BY <1>1, <1>2, <1>3 DEF TypeInv, ChainOK, Launched
<1>5. StateOK(state)' /\ JobOK'
  BY <1>1 DEF TypeInv, StateOK, JobOK
<1>6. QED
  BY <1>1, <1>4, <1>5 DEF TypeInv, TxOK, Tx

LEMMA CommandOK == ASSUME TypeInv, Command PROVE TypeInv'
<1>1. StateOK(state) /\ JobOK /\ ChainOK
  BY DEF TypeInv
<1>2. ASSUME NEW o \in Opt, Create(o) \/ Offer(o) \/ Take(o) \/ Exercise(o) \/ Clawback(o)
      PROVE  TypeInv'
  BY <1>2, CreateOK, OfferOK, TakeOK, ExerciseOK, ClawbackOK
<1>3. ASSUME NEW o \in Opt, Recover(o) PROVE TypeInv'
  <2>1. StateOK(state') /\ JobOK'
    BY <1>1, <1>3, RecoveredOK DEF Recover, JobOK, StateOK
  <2>2. QED
    BY <1>3, <2>1, LocalOK DEF Recover
<1>4. ASSUME Save PROVE TypeInv'
  <2>1. StateOK(state')
    BY <1>1, <1>4 DEF Save, JobOK
  <2>2. JobOK'
    <3>1. CASE job.taken = 0
      BY <1>4, <3>1, Blanks DEF Save, JobOK
    <3>2. CASE job.taken # 0
      <4>1. job'.at = "recover" /\ job'.o \in Opt
        BY <1>1, <1>4, <3>2 DEF Save, JobOK
      <4>2. QED
        BY <4>1 DEF JobOK
    <3>3. QED
      BY <3>1, <3>2
  <2>3. QED
    BY <1>4, <2>1, <2>2, LocalOK DEF Save
<1>5. ASSUME RecoverTaken PROVE TypeInv'
  <2>1. job.o \in Opt /\ Recoverable(job.o)
    BY <1>1, <1>5 DEF RecoverTaken, JobOK
  <2>2. StateOK(Recovered(job.o))
    BY <1>1, <2>1, RecoveredOK
  <2>3. StateOK(state') /\ JobOK'
    BY <1>5, <2>2, Blanks DEF RecoverTaken, JobOK
  <2>4. QED
    BY <1>5, <2>3, LocalOK DEF RecoverTaken
<1>6. ASSUME RecoverTakenFailed \/ Crash PROVE TypeInv'
  <2>1. StateOK(state') /\ JobOK'
    BY <1>1, <1>6, Blanks DEF RecoverTakenFailed, Crash, JobOK
  <2>2. QED
    BY <1>6, <2>1, LocalOK DEF RecoverTakenFailed, Crash
<1>7. QED
  BY <1>2, <1>3, <1>4, <1>5, <1>6, MintOK, SweepOK DEF Command

LEMMA SyncOK == ASSUME TypeInv, Sync PROVE TypeInv'
<1>1. StateOK(state) /\ JobOK /\ ChainOK
  BY DEF TypeInv
<1>2. ASSUME BeginSync PROVE TypeInv'
  <2>1. PICK refresh \in BOOLEAN :
          job' = [at |-> "nft", st |-> [state EXCEPT !.ph = state.ph \/ refresh]]
    BY <1>2 DEF BeginSync
  <2> DEFINE s == [state EXCEPT !.ph = state.ph \/ refresh]
  <2>2. s \in State /\ s.nft = state.nft /\ s.opt = state.opt
    BY <1>1 DEF StateOK, State
  <2>3. StateOK(s)
    BY <1>1, <2>2 DEF StateOK
  <2>4. StateOK(state') /\ JobOK'
    BY <1>1, <1>2, <2>1, <2>3 DEF BeginSync, JobOK
  <2>5. QED
    BY <1>2, <2>4, LocalOK DEF BeginSync
<1>3. ASSUME SyncNft PROVE TypeInv'
  <2> DEFINE n == Reconciled(job.st.nft, nft, FALSE, job.st.ph)
             s == [job.st EXCEPT !.nft = n]
  <2>1. StateOK(job.st) /\ job.st \in State
    BY <1>1, <1>3 DEF SyncNft, JobOK, StateOK
  <2>2. n \in NftRec /\ (n.phase = "none" <=> n.coin = <<>>)
    <3>1. /\ job.st.nft \in NftRec /\ job.st.ph \in BOOLEAN /\ nft \in NftPath
          /\ (job.st.nft.phase = "none" <=> job.st.nft.coin = <<>>)
      BY <1>1, <2>1 DEF StateOK, State, ChainOK
    <3>2. QED
      BY <3>1, NftReconciledOK
  <2>3. StateOK(s)
    BY <2>1, <2>2 DEF StateOK, State
  <2>4. job' = [at |-> "opt", next |-> 1, st |-> s]
    BY <1>3 DEF SyncNft
  <2>5. StateOK(state') /\ JobOK'
    BY <1>1, <1>3, <2>3, <2>4 DEF SyncNft, JobOK
  <2>6. QED
    BY <1>3, <2>5, LocalOK DEF SyncNft
<1>4. ASSUME SyncOpt PROVE TypeInv'
  <2> DEFINE o == job.next
             rec == Reconciled(job.st.opt[o], opt[o], o \in melted, job.st.ph)
             s == [job.st EXCEPT !.opt[o] = rec]
  <2>1. StateOK(job.st) /\ job.st \in State /\ o \in Opt
    BY <1>1, <1>4 DEF SyncOpt, JobOK, StateOK
  <2>2. /\ job.st.opt[o] \in OptRec /\ opt[o] \in OptPath /\ job.st.ph \in BOOLEAN
        /\ (job.st.opt[o].phase = "none" <=> job.st.opt[o].coin = <<>>)
        /\ (job.st.opt[o].reclaimed => job.st.opt[o].known)
        /\ (o \in melted) \in BOOLEAN
    BY <1>1, <2>1 DEF StateOK, State, ChainOK
  <2>3. rec \in OptRec /\ (rec.phase = "none" <=> rec.coin = <<>>)
        /\ (rec.reclaimed => rec.known)
    BY <2>2, OptReconciledOK
  <2>4. StateOK(s)
    BY <2>1, <2>3, OptEditOK
  <2>5. job' = [job EXCEPT !.next = o + 1, !.st.opt[o] = rec]
    BY <1>4 DEF SyncOpt
  <2>6. job'.at = "opt" /\ job'.next \in Nat /\ job'.st = s
    <3>1. job.at = "opt" /\ o + 1 \in Nat
      BY <1>4, <2>1 DEF SyncOpt, Opt
    <3>2. QED
      BY <2>5, <3>1
  <2>7. StateOK(state') /\ JobOK'
    BY <1>1, <1>4, <2>4, <2>6 DEF SyncOpt, JobOK
  <2>8. QED
    BY <1>4, <2>7, LocalOK DEF SyncOpt
<1>5. ASSUME SyncLookupFailed PROVE TypeInv'
  <2>1. StateOK(state')
    BY <1>1, <1>5 DEF SyncLookupFailed
  <2>2. JobOK'
    <3>1. CASE job.at = "nft" /\ job' = [at |-> "opt", next |-> 1, st |-> job.st]
      BY <1>1, <3>1 DEF JobOK, StateOK
    <3>2. CASE job.at = "opt" /\ job.next \in Opt /\ job' = [job EXCEPT !.next = @ + 1]
      <4>1. job'.at = "opt" /\ job'.st = job.st /\ job'.next = job.next + 1
        BY <1>1, <3>2 DEF JobOK
      <4>2. job'.next \in Nat /\ StateOK(job.st)'
        BY <1>1, <3>2, <4>1 DEF JobOK, Opt, StateOK
      <4>3. QED
        BY <4>1, <4>2 DEF JobOK
    <3>3. QED
      BY <1>5, <3>1, <3>2 DEF SyncLookupFailed
  <2>3. QED
    BY <1>5, <2>1, <2>2, LocalOK DEF SyncLookupFailed
<1>6. ASSUME SaveSync PROVE TypeInv'
  <2>1. StateOK(state') /\ JobOK'
    BY <1>1, <1>6, Blanks DEF SaveSync, JobOK
  <2>2. QED
    BY <1>6, <2>1, LocalOK DEF SaveSync
<1>7. QED
  BY <1>2, <1>3, <1>4, <1>5, <1>6 DEF Sync

\* A block moves each singleton to a coin; what was launched stays so.
LEMMA BlockOK ==
  ASSUME TypeInv, NEW n \in NftPath, NEW op \in [Opt -> OptPath], NEW gone, NEW pool,
         \A o \in gone : o \in Opt /\ op[o] # <<>>, pool \subseteq mempool,
         Block(n, op, gone, pool), terms' \in [Opt -> Terms],
         UNCHANGED <<expired, offers, state, job>>
  PROVE  TypeInv'
<1>1. nft' = n /\ opt' = op /\ melted' = gone /\ mempool' \subseteq mempool
  BY DEF Block
<1>2. expired' \in BOOLEAN
  <2>1. expired' = expired
    OBVIOUS
  <2>2. QED
    BY <2>1, Zenon DEF TypeInv, ChainOK
<1>3. ChainOK'
  BY <1>1, <1>2 DEF TypeInv, ChainOK, Launched
<1>4. StateOK(state)' /\ JobOK'
  BY DEF TypeInv, StateOK, JobOK
<1>5. QED
  BY <1>1, <1>3, <1>4 DEF TypeInv, TxOK, Tx

LEMMA ConfirmOK == ASSUME TypeInv, NEW t \in mempool, Confirm(t) PROVE TypeInv'
<1> DEFINE n == IF t.kind = "take" THEN nft ELSE NftChild(t)
           op == IF t.kind \in {"create", "take"} THEN [opt EXCEPT ![t.o] = OptChild(t)] ELSE opt
           gone == IF t.kind = "exercise" THEN melted \cup {t.o} ELSE melted
<1>1. TxOK(t) /\ t \in Tx /\ ChainOK
  BY DEF TypeInv, TxOK
<1>2. /\ NftChild(t) \in NftPath /\ OptChild(t) \in OptPath
      /\ OptChild(t) # <<>>
  BY <1>1, ChildrenTyped
<1>3. n \in NftPath /\ op \in [Opt -> OptPath]
  BY <1>1, <1>2 DEF ChainOK
<1>4. \A o \in gone : o \in Opt /\ op[o] # <<>>
  <2>1. \A o \in melted : o \in Opt /\ op[o] # <<>>
    BY <1>1, <1>2 DEF ChainOK, Launched
  <2>2. t.kind = "exercise" => t.o \in Opt /\ opt[t.o] # <<>>
    BY <1>1 DEF Confirm, Valid, InputsLive, TxOK
  <2>3. QED
    BY <2>1, <2>2
<1>5. Block(n, op, gone, mempool \ {t}) /\ UNCHANGED <<expired, offers, state, job>>
      /\ terms' \in [Opt -> Terms]
  BY <1>1 DEF Confirm, ChainOK
<1>6. QED
  BY <1>3, <1>4, <1>5, BlockOK

LEMMA PeersOK ==
  ASSUME TypeInv, NEW o \in Opt,
         PeerBuys(o) \/ PeerExercises(o) \/ PeerCreates(o) \/ PeerClawsBack(o)
  PROVE  TypeInv'
<1>1. ChainOK /\ Me \in Party \cup Opt /\ Peer \in Party /\ Peer \in Party \cup Opt
      /\ o \in Party \cup Opt
  BY DEF TypeInv, Party
<1>2. /\ nft \in NftPath /\ opt \in [Opt -> OptPath]
      /\ \A p \in melted : p \in Opt /\ opt[p] # <<>>
  BY <1>1 DEF ChainOK, Launched
<1>3. \A p \in Party \cup Opt :
        Append(nft, p) \in NftPath /\ \A b \in BOOLEAN : Passed(nft, b, p) \in NftPath
  BY <1>2, NftPassed, AppendIsPassed
<1>4. CASE PeerBuys(o)
  <2> DEFINE op == [opt EXCEPT ![o] = Passed(@, TRUE, Peer)]
  <2>1. Passed(opt[o], TRUE, Peer) \in OptPath /\ Passed(opt[o], TRUE, Peer) # <<>>
    BY <1>1, <1>2, OptPassed
  <2>2. op \in [Opt -> OptPath]
    BY <1>2, <2>1
  <2>3. \A p \in melted : p \in Opt /\ op[p] # <<>>
    BY <1>2, <2>1
  <2>4. Block(nft, op, melted, mempool)
        /\ UNCHANGED <<expired, offers, state, job>> /\ terms' \in [Opt -> Terms]
    BY <1>1, <1>4 DEF PeerBuys, ChainOK
  <2>5. QED
    BY <1>2, <2>2, <2>3, <2>4, BlockOK
<1>5. CASE PeerExercises(o)
  <2> DEFINE n == IF terms[o].kind = "transfer" THEN Passed(nft, TRUE, Peer)
                                                ELSE Passed(nft, FALSE, terms[o].creator)
  <2>1. terms[o].creator \in Party \cup Opt
    BY <1>1 DEF ChainOK, Terms
  <2>2. n \in NftPath
    BY <1>1, <1>3, <2>1
  <2>3. \A p \in melted \cup {o} : p \in Opt /\ opt[p] # <<>>
    BY <1>2, <1>5 DEF PeerExercises, Live, Launched
  <2>4. Block(n, opt, melted \cup {o}, mempool)
        /\ UNCHANGED <<expired, offers, state, job>> /\ terms' \in [Opt -> Terms]
    BY <1>1, <1>5 DEF PeerExercises, ChainOK
  <2>5. QED
    BY <1>2, <2>2, <2>3, <2>4, BlockOK
<1>6. CASE PeerCreates(o)
  <2>1. Append(nft, o) \in NftPath /\ <<Peer>> \in OptPath /\ <<Peer>> # <<>>
    BY <1>1, <1>3, PathFacts
  <2>2. [opt EXCEPT ![o] = <<Peer>>] \in [Opt -> OptPath]
    BY <1>2, <2>1
  <2>3. \A p \in melted : p \in Opt /\ [opt EXCEPT ![o] = <<Peer>>][p] # <<>>
    BY <1>2, <2>1
  <2>4. Block(Append(nft, o), [opt EXCEPT ![o] = <<Peer>>], melted, mempool)
        /\ UNCHANGED <<expired, offers, state, job>>
    BY <1>6 DEF PeerCreates
  <2>5. terms' \in [Opt -> Terms]
    <3>1. PICK k \in Kinds :
            terms' = [terms EXCEPT ![o] = [lock |-> Append(nft, o), kind |-> k, creator |-> Peer]]
      BY <1>6 DEF PeerCreates
    <3>2. [lock |-> Append(nft, o), kind |-> k, creator |-> Peer] \in Terms
      BY <1>1, <2>1 DEF Terms
    <3>3. QED
      BY <1>1, <3>1, <3>2 DEF ChainOK
  <2>6. QED
    BY <2>1, <2>2, <2>3, <2>4, <2>5, BlockOK
<1>7. CASE PeerClawsBack(o)
  <2>1. Block(Append(nft, Peer), opt, melted, mempool)
        /\ UNCHANGED <<expired, offers, state, job>> /\ terms' \in [Opt -> Terms]
    BY <1>1, <1>7 DEF PeerClawsBack, ChainOK
  <2>2. Append(nft, Peer) \in NftPath
    BY <1>1, <1>3
  <2>3. QED
    BY <1>2, <2>1, <2>2, BlockOK
<1>8. QED
  BY <1>4, <1>5, <1>6, <1>7

LEMMA NetworkOK == ASSUME TypeInv, Network PROVE TypeInv'
<1>1. ChainOK /\ StateOK(state) /\ JobOK
  BY DEF TypeInv
<1>2. ASSUME NEW t \in mempool, Drop(t) PROVE TypeInv'
  <2>1. nft' = nft /\ opt' = opt /\ melted' = melted /\ terms' = terms /\ offers' = offers
        /\ state' = state /\ job' = job /\ mempool' \subseteq mempool
    BY <1>2 DEF Drop, chainVars
  <2>2. expired' \in BOOLEAN
    <3>1. expired' = expired
      BY <1>2 DEF Drop
    <3>2. QED
      BY <1>1, <3>1, Zenon DEF ChainOK
  <2>3. ChainOK' /\ StateOK(state)' /\ JobOK'
    BY <1>1, <2>1, <2>2 DEF ChainOK, Launched, StateOK, JobOK
  <2>4. QED
    BY <2>1, <2>3 DEF TypeInv, TxOK, Tx
<1>3. ASSUME Expire PROVE TypeInv'
  <2>1. nft' = nft /\ opt' = opt /\ melted' = melted /\ terms' = terms /\ offers' = offers
        /\ state' = state /\ job' = job /\ mempool' \subseteq mempool
    BY <1>3 DEF Expire, chainVars
  <2>2. expired' \in BOOLEAN
    BY <1>3, Zenon DEF Expire
  <2>3. ChainOK' /\ StateOK(state)' /\ JobOK'
    BY <1>1, <2>1, <2>2 DEF ChainOK, Launched, StateOK, JobOK
  <2>4. QED
    BY <2>1, <2>3 DEF TypeInv, TxOK, Tx
<1>4. ASSUME PeerSends PROVE TypeInv'
  <2>1. Append(nft, Me) \in NftPath /\ opt \in [Opt -> OptPath]
        /\ \A p \in melted : p \in Opt /\ opt[p] # <<>>
    BY <1>1, NftPassed, AppendIsPassed DEF ChainOK, Launched, Party
  <2>2. Block(Append(nft, Me), opt, melted, mempool)
        /\ UNCHANGED <<expired, offers, state, job>> /\ terms' \in [Opt -> Terms]
    BY <1>1, <1>4 DEF PeerSends, ChainOK
  <2>3. QED
    BY <2>1, <2>2, BlockOK
<1>5. QED
  BY <1>2, <1>3, <1>4, ConfirmOK, PeersOK DEF Network

LEMMA StutterOK == ASSUME TypeInv, UNCHANGED vars PROVE TypeInv'
<1>1. StateOK(state') /\ JobOK'
  BY DEF TypeInv, vars, StateOK, JobOK
<1>2. QED
  BY <1>1, LocalOK DEF vars, chainVars

THEOREM TypeInvariant == Spec => []TypeInv
<1>1. TypeInv /\ [Next]_vars => TypeInv'
  BY CommandOK, SyncOK, NetworkOK, StutterOK DEF Next
<1>2. QED
  BY InitTypeInv, <1>1, PTL DEF Spec

\* Every variable keeps its shape, whatever this wallet, the other wallets and
\* the network do: a record that is there names a coin, and an option is
\* flagged as reclaimed only with its terms known (state.rs, OptionRecord).
THEOREM TypeCorrect == Spec => []TypeOK
<1>1. TypeInv => TypeOK
  <2> SUFFICES ASSUME TypeInv PROVE TypeOK
    OBVIOUS
  <2>1. expired \in BOOLEAN
    BY Zenon DEF TypeInv, ChainOK
  <2>2. mempool \subseteq Tx
    BY DEF TypeInv, TxOK
  <2>3. QED
    BY <2>1, <2>2 DEF TypeInv, TypeOK, ChainOK, StateOK, JobOK, Terms
<1>2. QED
  BY TypeInvariant, <1>1, PTL

-----------------------------------------------------------------------------
(* What links the chain, the terms and the bundles: an NFT locked in an      *)
(* option is the coin the option's terms name.  The file is not mentioned,   *)
(* so nothing that is stale in it matters here.                              *)

TxLinked(t) ==
  /\ t.kind = "create" =>
       t.to = t.o /\ t.coin = <<>> /\ ~t.settled /\ terms[t.o].lock = NftChild(t)
  /\ t.kind # "create" => t.to \in Party

LinkInv ==
  /\ \A t \in mempool : TxLinked(t)
  /\ \A o \in Opt : opt[o] # <<>> => terms[o].lock # <<>> /\ IsPrefix(terms[o].lock, nft)
  /\ nft # <<>> /\ Owner(nft) \in Opt => nft = terms[Owner(nft)].lock

\* Nothing is locked or unlocked.
LEMMA LinkSame ==
  ASSUME TypeInv, LinkInv, nft' = nft, terms' = terms, mempool' \subseteq mempool,
         \A o \in Opt : opt[o] = <<>> => opt'[o] = <<>>
  PROVE  LinkInv'
  BY DEF LinkInv, TxLinked, NftChild, Owner

\* The NFT leaves for a party.
LEMMA LinkFree ==
  ASSUME TypeInv, LinkInv, NEW b \in BOOLEAN, NEW x \in Party, nft' = Passed(nft, b, x),
         opt' = opt, terms' = terms, mempool' \subseteq mempool
  PROVE  LinkInv'
<1>1. nft \in NftPath /\ nft \in Seq(Hop) /\ x \in Hop /\ terms \in [Opt -> Terms]
  BY PathFacts DEF TypeInv, ChainOK, Hop
<1>2. Owner(nft') = x /\ x \notin Opt
  BY <1>1, NftPassed, LifecycleAssumption
<1>3. ASSUME NEW o \in Opt, opt[o] # <<>>
      PROVE  terms[o].lock # <<>> /\ IsPrefix(terms[o].lock, nft')
  <2>1. terms[o].lock \in Seq(Hop) /\ IsPrefix(terms[o].lock, nft)
    BY <1>1, <1>3, PathFacts DEF LinkInv, Terms
  <2>2. IsPrefix(terms[o].lock, Passed(nft, b, x))
    BY <1>1, <2>1, PrefixPassed
  <2>3. QED
    BY <1>3, <2>2 DEF LinkInv
<1>4. \A t \in mempool' : TxLinked(t)'
  BY DEF LinkInv, TxLinked, NftChild
<1>5. QED
  BY <1>2, <1>3, <1>4 DEF LinkInv, Owner

\* The NFT is locked in an option, on the terms that were given to it.
LEMMA LinkLocked ==
  ASSUME TypeInv, LinkInv, NEW o \in Opt, nft' = Append(nft, o),
         \A p \in Opt \ {o} : opt'[p] = opt[p] /\ terms'[p] = terms[p],
         terms'[o].lock = Append(nft, o),
         terms[o].lock = <<>> \/ terms'[o] = terms[o], mempool' \subseteq mempool
  PROVE  LinkInv'
<1>1. nft \in Seq(Hop) /\ terms \in [Opt -> Terms] /\ o \in Hop
  BY PathFacts DEF TypeInv, ChainOK, Hop
<1>2. nft' \in Seq(Hop) /\ Owner(nft') = o /\ nft' # <<>>
  BY <1>1 DEF Owner
<1>3. ASSUME NEW p \in Opt, opt'[p] # <<>>
      PROVE  terms'[p].lock # <<>> /\ IsPrefix(terms'[p].lock, nft')
  <2>1. CASE p = o
    BY <1>2, <2>1, PrefixSelf
  <2>2. CASE p # o
    <3>1. terms'[p].lock = terms[p].lock /\ opt[p] # <<>>
      BY <1>3, <2>2
    <3>2. terms[p].lock \in Seq(Hop) /\ terms[p].lock # <<>> /\ IsPrefix(terms[p].lock, nft)
      BY <1>1, <3>1, PathFacts DEF LinkInv, Terms
    <3>3. IsPrefix(terms[p].lock, Append(nft, o))
      BY <1>1, <3>2, PrefixAppend
    <3>4. QED
      BY <3>1, <3>2, <3>3
  <2>3. QED
    BY <2>1, <2>2
<1>4. ASSUME NEW t \in mempool' PROVE TxLinked(t)'
  <2>1. t \in mempool /\ TxLinked(t) /\ TxOK(t) /\ t \in Tx
    BY DEF LinkInv, TypeInv, TxOK
  <2>2. NftChild(t) # <<>>
    BY <2>1, ChildrenTyped
  <2>3. t.kind = "create" => terms'[t.o].lock = terms[t.o].lock
    BY <2>1, <2>2 DEF TxLinked, TxOK
  <2>4. QED
    BY <2>1, <2>3 DEF TxLinked, NftChild
<1>5. QED
  BY <1>2, <1>3, <1>4 DEF LinkInv, Owner

\* A bundle joins the mempool; terms that name a coin are final.
LEMMA LinkSubmit ==
  ASSUME TypeInv, LinkInv, NEW t, TxOK(t), NEW after, Submit(t, after),
         t.kind = "create" =>
           t.to = t.o /\ t.coin = <<>> /\ ~t.settled /\ terms'[t.o].lock = NftChild(t),
         t.kind # "create" => t.to \in Party,
         \A o \in Opt : terms[o].lock # <<>> => terms'[o] = terms[o]
  PROVE  LinkInv'
<1>1. nft' = nft /\ opt' = opt /\ mempool' \subseteq mempool \cup {t}
  BY DEF Submit, chainVars
<1>2. ASSUME NEW u \in mempool' PROVE TxLinked(u)'
  <2>1. CASE u = t
    BY <2>1 DEF TxLinked, NftChild
  <2>2. CASE u \in mempool
    <3>1. TxLinked(u) /\ TxOK(u) /\ u \in Tx
      BY <2>2 DEF LinkInv, TypeInv, TxOK
    <3>2. NftChild(u) # <<>>
      BY <3>1, ChildrenTyped
    <3>3. QED
      BY <3>1, <3>2 DEF TxLinked, TxOK, NftChild
  <2>3. QED
    BY <1>1, <2>1, <2>2
<1>3. QED
  BY <1>1, <1>2 DEF LinkInv, Owner

LEMMA LinkMints == ASSUME TypeInv, LinkInv, Mint \/ SweepIncome PROVE LinkInv'
<1>1. TxOK(MintTx) /\ TxOK(SweepTx) /\ Me \in Party
  BY SingletonTxsOK DEF TypeInv, Party
<1>2. MintTx.kind = "mint" /\ MintTx.to = Me /\ SweepTx.kind = "sweep" /\ SweepTx.to = Me
  BY DEF MintTx, SweepTx, NftTx
<1>3. CASE Mint
  BY <1>1, <1>2, <1>3, LinkSubmit DEF Mint
<1>4. CASE SweepIncome
  BY <1>1, <1>2, <1>4, LinkSubmit DEF SweepIncome
<1>5. QED
  BY <1>3, <1>4

LEMMA LinkMoves ==
  ASSUME TypeInv, LinkInv, NEW o \in Opt, Take(o) \/ Exercise(o) \/ Clawback(o)
  PROVE  LinkInv'
<1>1. StateOK(state) /\ ChainOK /\ Me \in Party /\ terms[o].creator \in Party
  BY DEF TypeInv, ChainOK, Terms, Party
<1>2. CASE Take(o)
  <2>1. opt[o] # <<>>
    BY <1>2 DEF Take, LiveOffer, OptStatus, Status
  <2>2. TxOK(TakeTx(o)) /\ TakeTx(o).kind = "take" /\ TakeTx(o).to = Me
    BY <1>1, <2>1, OptionTxsOK DEF TakeTx, NftTx
  <2>3. QED
    BY <1>1, <1>2, <2>2, LinkSubmit DEF Take
<1>3. CASE Exercise(o)
  <2>1. state.opt[o].phase # "none"
    BY <1>3 DEF Exercise, ExerciseGuard
  <2>2. TxOK(ExerciseTx(o)) /\ ExerciseTx(o).kind = "exercise" /\ ExerciseTx(o).to \in Party
    BY <1>1, <2>1, OptionTxsOK DEF ExerciseTx, ReturnTx, TransferTx, NftTx
  <2>3. QED
    BY <1>1, <1>3, <2>2, LinkSubmit DEF Exercise
<1>4. CASE Clawback(o)
  <2>1. PICK to \in Party :
          Submit(ClawbackTx(o, to),
            [WithNft(NftChild(ClawbackTx(o, to)), "pending") EXCEPT !.opt[o].reclaimed = TRUE])
    BY <1>4 DEF Clawback
  <2>2. TxOK(ClawbackTx(o, to)) /\ ClawbackTx(o, to).kind = "clawback" /\ ClawbackTx(o, to).to \in Party
    BY <1>1, OptionTxsOK DEF ClawbackTx, NftTx
  <2>3. terms' = terms
    BY <1>4 DEF Clawback
  <2>4. QED
    BY <2>1, <2>2, <2>3, LinkSubmit
<1>5. QED
  BY <1>2, <1>3, <1>4

LEMMA LinkCreate == ASSUME TypeInv, LinkInv, NEW o \in Opt, Create(o) PROVE LinkInv'
<1>1. StateOK(state) /\ ChainOK
  BY DEF TypeInv
<1>2. PICK k \in Kinds, creator \in Party, owner \in Party :
        LET t == CreateTx(o, owner) IN
        /\ terms' = [terms EXCEPT ![o] = [lock |-> NftChild(t), kind |-> k, creator |-> creator]]
        /\ Submit(t, [WithNft(NftChild(t), "superseded") EXCEPT
                       !.opt[o] = [coin |-> OptChild(t), phase |-> "pending",
                                   known |-> TRUE, reclaimed |-> FALSE]])
  BY DEF Create
<1> DEFINE t == CreateTx(o, owner)
<1>3. TxOK(t) /\ t.kind = "create" /\ t.o = o /\ t.to = o /\ t.coin = <<>> /\ ~t.settled
  BY <1>1, OptionTxsOK DEF CreateTx, NftTx
<1>4. terms[o].lock = <<>>
  BY DEF Create, NextOpt, NoTerms
<1>5. terms'[o].lock = NftChild(t) /\ \A p \in Opt : terms[p].lock # <<>> => terms'[p] = terms[p]
  BY <1>1, <1>2, <1>4 DEF ChainOK
<1>6. QED
  BY <1>2, <1>3, <1>5, LinkSubmit

LEMMA LinkConfirm == ASSUME TypeInv, LinkInv, NEW t \in mempool, Confirm(t) PROVE LinkInv'
<1>1. /\ TxOK(t) /\ t \in Tx /\ TxLinked(t) /\ terms' = terms /\ mempool' \subseteq mempool
      /\ nft' = (IF t.kind = "take" THEN nft ELSE NftChild(t))
      /\ opt' = (IF t.kind \in {"create", "take"} THEN [opt EXCEPT ![t.o] = OptChild(t)] ELSE opt)
      /\ InputsLive(t, nft, opt, melted) /\ opt \in [Opt -> OptPath]
  BY DEF TypeInv, TxOK, LinkInv, Confirm, Block, Valid, ChainOK
<1>2. CASE t.kind = "create"
  <2>1. /\ t.o \in Opt /\ nft' = Append(nft, t.o) /\ terms[t.o].lock = Append(nft, t.o)
        /\ \A p \in Opt \ {t.o} : opt'[p] = opt[p]
    BY <1>1, <1>2 DEF TxOK, TxLinked, NftChild, Passed, InputsLive
  <2>2. QED
    BY <1>1, <2>1, LinkLocked
<1>3. CASE t.kind = "take"
  <2>1. nft' = nft /\ t.o \in Opt /\ opt[t.o] # <<>>
    BY <1>1, <1>3 DEF TxOK, InputsLive
  <2>2. \A o \in Opt : opt[o] = <<>> => opt'[o] = <<>>
    BY <1>1, <1>3, <2>1
  <2>3. QED
    BY <1>1, <2>1, <2>2, LinkSame
<1>4. CASE t.kind \notin {"create", "take"}
  <2>1. /\ nft' = Passed(nft, t.settled, t.to) /\ opt' = opt /\ t.to \in Party
        /\ t.settled \in BOOLEAN
    BY <1>1, <1>4 DEF TxLinked, NftChild, InputsLive, Tx
  <2>2. QED
    BY <1>1, <2>1, LinkFree
<1>5. QED
  BY <1>2, <1>3, <1>4

LEMMA LinkPeers ==
  ASSUME TypeInv, LinkInv, NEW o \in Opt,
         PeerBuys(o) \/ PeerExercises(o) \/ PeerCreates(o) \/ PeerClawsBack(o)
  PROVE  LinkInv'
<1>1. /\ opt \in [Opt -> OptPath] /\ terms \in [Opt -> Terms] /\ Me \in Party /\ Peer \in Party
      /\ terms[o].creator \in Party
  BY DEF TypeInv, ChainOK, Terms, Party
<1>2. CASE PeerBuys(o)
  <2>1. nft' = nft /\ terms' = terms /\ mempool' \subseteq mempool
        /\ opt' = [opt EXCEPT ![o] = Passed(@, TRUE, Peer)] /\ opt[o] # <<>>
    BY <1>2 DEF PeerBuys, Block, Live, Launched
  <2>2. \A p \in Opt : opt[p] = <<>> => opt'[p] = <<>>
    BY <1>1, <2>1
  <2>3. QED
    BY <2>1, <2>2, LinkSame
<1>3. CASE PeerExercises(o) \/ PeerClawsBack(o)
  <2>1. PICK b \in BOOLEAN, x \in Party : nft' = Passed(nft, b, x)
    BY <1>1, <1>3, AppendIsPassed DEF PeerExercises, PeerClawsBack, Block
  <2>2. opt' = opt /\ terms' = terms /\ mempool' \subseteq mempool
    BY <1>3 DEF PeerExercises, PeerClawsBack, Block
  <2>3. QED
    BY <2>1, <2>2, LinkFree
<1>4. CASE PeerCreates(o)
  <2>1. PICK k \in Kinds :
          terms' = [terms EXCEPT ![o] = [lock |-> Append(nft, o), kind |-> k, creator |-> Peer]]
    BY <1>4 DEF PeerCreates
  <2>2. /\ nft' = Append(nft, o) /\ opt' = [opt EXCEPT ![o] = <<Peer>>] /\ mempool' \subseteq mempool
        /\ terms[o].lock = <<>>
    BY <1>4 DEF PeerCreates, Block, NextOpt, NoTerms
  <2>3. terms'[o].lock = Append(nft, o)
        /\ \A p \in Opt \ {o} : opt'[p] = opt[p] /\ terms'[p] = terms[p]
    BY <1>1, <2>1, <2>2
  <2>4. QED
    BY <2>2, <2>3, LinkLocked
<1>5. QED
  BY <1>2, <1>3, <1>4

LEMMA LinkNext == ASSUME TypeInv, LinkInv, [Next]_vars PROVE LinkInv'
<1>1. ASSUME UNCHANGED <<chainVars, terms>>, mempool' \subseteq mempool PROVE LinkInv'
  BY <1>1, LinkSame DEF chainVars
<1>2. ASSUME NEW o \in Opt, Offer(o) \/ Recover(o) PROVE LinkInv'
  BY <1>1, <1>2 DEF Offer, Recover
<1>3. CASE Save \/ RecoverTaken \/ RecoverTakenFailed \/ Crash \/ Sync
  BY <1>1, <1>3 DEF Save, RecoverTaken, RecoverTakenFailed, Crash, Sync, BeginSync, SyncNft,
                   SyncOpt, SyncLookupFailed, SaveSync
<1>4. ASSUME NEW t \in mempool, Drop(t) PROVE LinkInv'
  BY <1>1, <1>4 DEF Drop
<1>5. CASE Expire
  BY <1>1, <1>5 DEF Expire
<1>6. CASE UNCHANGED vars
  BY <1>1, <1>6 DEF vars, chainVars
<1>7. CASE PeerSends
  <2>1. /\ nft' = Passed(nft, FALSE, Me) /\ Me \in Party /\ opt' = opt /\ terms' = terms
        /\ mempool' \subseteq mempool
    BY <1>7, AppendIsPassed DEF PeerSends, Block, Party
  <2>2. QED
    BY <2>1, LinkFree
<1>8. QED
  BY <1>2, <1>3, <1>4, <1>5, <1>6, <1>7, LinkMints, LinkMoves, LinkCreate, LinkConfirm, LinkPeers
  DEF Next, Command, Network

THEOREM LinkInvariant == Spec => [](TypeInv /\ LinkInv)
<1>1. Init => LinkInv
  <2> SUFFICES ASSUME Init PROVE LinkInv
    OBVIOUS
  <2>1. nft = <<>> \/ Owner(nft) = Peer
    BY DEF Init, Owner
  <2>2. Peer \notin Opt
    BY LifecycleAssumption DEF Party
  <2>3. QED
    BY <2>1, <2>2 DEF Init, LinkInv
<1>2. TypeInv /\ LinkInv /\ [Next]_vars => (TypeInv /\ LinkInv)'
  BY LinkNext, CommandOK, SyncOK, NetworkOK, StutterOK DEF Next
<1>3. QED
  BY InitTypeInv, <1>1, <1>2, PTL DEF Spec

\* The checks of cmd_option_exercise, against its own file and the two coins it
\* looks up, imply every condition the chain puts on the exercise: however
\* stale the file, and however many options, they need no third lookup.
THEOREM ExerciseIsSafe == Spec => []ExerciseGuardsSuffice
<1>1. TypeInv /\ LinkInv => ExerciseGuardsSuffice
  <2> SUFFICES ASSUME TypeInv, LinkInv, NEW o \in Opt, ExerciseGuard(o)
               PROVE  Valid(ExerciseTx(o))
    BY DEF ExerciseGuardsSuffice
  <2>1. state.nft.coin = nft /\ nft # <<>>
    BY DEF ExerciseGuard, NftReady, NftStatus, Status
  <2>2. state.opt[o].coin = opt[o] /\ o \notin melted
    BY DEF ExerciseGuard, OptReady, OptStatus, Status
  <2>3. nft = terms[o].lock
    BY <2>1 DEF ExerciseGuard, LinkInv
  <2>4. LET t == ExerciseTx(o) IN
        t.kind = "exercise" /\ t.o = o /\ t.nft = state.nft.coin /\ t.coin = state.opt[o].coin
    BY DEF ExerciseTx, ReturnTx, TransferTx, NftTx
  <2>5. QED
    BY <2>1, <2>2, <2>3, <2>4 DEF Valid, InputsLive, ExerciseGuard
<1>2. QED
  BY LinkInvariant, <1>1, PTL

-----------------------------------------------------------------------------
(* The file against the chain: what is confirmed in it was seen, and a closed *)
(* record is reopened only by following its coin.                             *)

Found(coin, path) == coin # <<>> /\ IsPrefix(coin, path)

SeenOK(s) ==
  /\ s.nft.phase = "confirmed" => Found(s.nft.coin, nft)
  /\ \A o \in Opt : s.opt[o].phase = "confirmed" => Found(s.opt[o].coin, opt[o])

\* From one record to the next, none is reopened on a coin that is not followed.
Followed(old, new) == Reopened(old, new) => new.coin # old.coin /\ Owner(new.coin) = Me
FollowedAll(s) ==
  /\ Followed(state.nft, s.nft)
  /\ \A o \in Opt : Followed(state.opt[o], s.opt[o])

\* The job's copy against the file; what sync has not reached yet is as it was.
FileInv ==
  /\ SeenOK(state)
  /\ job.at \in {"pushed", "nft", "opt"} => SeenOK(job.st) /\ FollowedAll(job.st)
  /\ job.at = "nft" => job.st.nft = state.nft /\ job.st.opt = state.opt
  /\ job.at = "opt" => \A o \in Opt : o >= job.next => job.st.opt[o] = state.opt[o]

LEMMA StatusFound ==
  ASSUME NEW coin, NEW path, NEW gone \in BOOLEAN
  PROVE  Status(coin, path, gone) # "NotFound" <=> Found(coin, path)
BY DEF Status, Found

\* Following a record: it is confirmed only on a coin that was seen, and a
\* closed one only on another coin, of the wallet.
LEMMA ReconciledFollows ==
  ASSUME NEW S, NEW rec, rec.coin \in Seq(S), rec.phase \in Phase,
         NEW path \in Seq(S), NEW gone \in BOOLEAN, NEW ph \in BOOLEAN,
         rec.phase = "confirmed" => Found(rec.coin, path),
         rec \in NftRec \/ rec \in OptRec
  PROVE  /\ Followed(rec, Reconciled(rec, path, gone, ph))
         /\ Reconciled(rec, path, gone, ph).phase = "confirmed" =>
              Found(Reconciled(rec, path, gone, ph).coin, path)
<1> DEFINE new == Reconciled(rec, path, gone, ph)
<1>1. CASE Status(rec.coin, path, gone) = "NotFound"
  BY <1>1 DEF Reconciled, Followed, Reopened
<1>2. CASE Status(rec.coin, path, gone) = "ConfirmedUnspent"
  <2>1. Found(rec.coin, path)
    BY <1>2, StatusFound
  <2>2. new.coin = rec.coin /\ (rec.phase = "superseded" => new.phase = "superseded")
    BY <1>2 DEF Reconciled, NftRec, OptRec, Phase
  <2>3. QED
    BY <2>1, <2>2 DEF Followed, Reopened
<1>3. CASE Status(rec.coin, path, gone) = "Spent" /\ gone
  <2>1. new.phase = "superseded"
    BY <1>3 DEF Reconciled, NftRec, OptRec
  <2>2. QED
    BY <2>1 DEF Followed, Reopened
<1>4. CASE Status(rec.coin, path, gone) = "Spent" /\ ~gone
  <2>1. rec.coin # path /\ rec.coin # <<>> /\ IsPrefix(rec.coin, path)
    BY <1>4 DEF Status
  <2>2. path # <<>>
    BY <2>1 DEF IsPrefix
  <2>3. Found(path, path)
    BY <2>2, PrefixSelf DEF Found
  <2>4. new.coin = path /\ (new.phase = "confirmed" => Owner(path) = Me)
    BY <1>4 DEF Reconciled, NftRec, OptRec
  <2>5. QED
    BY <2>1, <2>3, <2>4 DEF Followed, Reopened
<1>5. QED
  BY <1>1, <1>2, <1>3, <1>4 DEF Status

\* The chain only grows: a coin that was there stays on its singleton's path.
Grows ==
  /\ nft' = nft \/ \E b \in BOOLEAN, x \in Party \cup Opt : nft' = Passed(nft, b, x)
  /\ \A o \in Opt :
       opt'[o] = opt[o] \/ \E b \in BOOLEAN, x \in Party : opt'[o] = Passed(opt[o], b, x)

LEMMA ConfirmGrows == ASSUME TypeInv, LinkInv, NEW t \in mempool, Confirm(t) PROVE Grows
<1>1. /\ TxOK(t) /\ t \in Tx /\ TxLinked(t)
      /\ nft' = (IF t.kind = "take" THEN nft ELSE NftChild(t))
      /\ opt' = (IF t.kind \in {"create", "take"} THEN [opt EXCEPT ![t.o] = OptChild(t)] ELSE opt)
      /\ InputsLive(t, nft, opt, melted) /\ opt \in [Opt -> OptPath] /\ nft \in NftPath
      /\ terms \in [Opt -> Terms]
  BY DEF TypeInv, TxOK, LinkInv, Confirm, Block, Valid, ChainOK
<1>2. nft' = nft \/ \E b \in BOOLEAN, x \in Party \cup Opt : nft' = Passed(nft, b, x)
  <2>1. t.to \in Party \cup Opt /\ t.settled \in BOOLEAN
    BY <1>1 DEF Tx
  <2>2. CASE t.kind = "take"
    BY <1>1, <2>2
  <2>3. CASE t.kind # "take"
    BY <1>1, <2>1, <2>3 DEF InputsLive, NftChild
  <2>4. QED
    BY <2>2, <2>3
<1>3. ASSUME NEW o \in Opt
      PROVE  opt'[o] = opt[o] \/ \E b \in BOOLEAN, x \in Party : opt'[o] = Passed(opt[o], b, x)
  <2>1. CASE t.kind = "create" /\ o = t.o
    <3>1. terms[o].lock = Append(nft, t.to) /\ nft \in Seq(Hop) /\ t.to \in Hop
      BY <1>1, <2>1, PathFacts DEF TxLinked, NftChild, Passed, InputsLive, Tx, Hop
    <3>2. ~IsPrefix(terms[o].lock, nft)
      BY <3>1, AppendNoPrefix
    <3>3. opt[o] = <<>>
      BY <3>2 DEF LinkInv
    <3>4. t.own \in Party /\ t.settled \in BOOLEAN /\ opt'[o] = Passed(opt[o], t.settled, t.own)
      BY <1>1, <2>1, <3>3 DEF OptChild, TxLinked, Tx
    <3>5. QED
      BY <3>4
  <2>2. CASE t.kind = "take" /\ o = t.o
    <3>1. t.own \in Party /\ t.settled \in BOOLEAN /\ opt'[o] = Passed(opt[o], t.settled, t.own)
      BY <1>1, <2>2 DEF OptChild, InputsLive, Tx
    <3>2. QED
      BY <3>1
  <2>3. CASE t.kind \notin {"create", "take"} \/ o # t.o
    BY <1>1, <2>3
  <2>4. QED
    BY <2>1, <2>2, <2>3
<1>4. QED
  BY <1>2, <1>3 DEF Grows

LEMMA NetworkKeepsFile == Network => state' = state /\ job' = job
BY DEF Network, Confirm, Drop, Expire, PeerBuys, PeerExercises, PeerCreates, PeerClawsBack, PeerSends

LEMMA NetworkGrows == ASSUME TypeInv, LinkInv, Network PROVE Grows /\ UNCHANGED <<state, job>>
<1>1. /\ opt \in [Opt -> OptPath] /\ terms \in [Opt -> Terms] /\ Me \in Party /\ Peer \in Party
      /\ Party \subseteq Party \cup Opt
  BY DEF TypeInv, ChainOK, Party
<1>2. ASSUME NEW t \in mempool, Confirm(t) \/ Drop(t) PROVE Grows /\ UNCHANGED <<state, job>>
  <2>1. CASE Confirm(t)
    BY <2>1, ConfirmGrows DEF Confirm
  <2>2. CASE Drop(t)
    BY <2>2 DEF Drop, chainVars, Grows
  <2>3. QED
    BY <1>2, <2>1, <2>2
<1>3. CASE Expire
  BY <1>3 DEF Expire, chainVars, Grows
<1>4. ASSUME NEW o \in Opt, PeerBuys(o) PROVE Grows /\ UNCHANGED <<state, job>>
  <2>1. nft' = nft /\ opt' = [opt EXCEPT ![o] = Passed(@, TRUE, Peer)] /\ UNCHANGED <<state, job>>
    BY <1>4 DEF PeerBuys, Block
  <2>2. QED
    BY <1>1, <2>1 DEF Grows
<1>5. ASSUME NEW o \in Opt, PeerExercises(o) \/ PeerClawsBack(o)
      PROVE  Grows /\ UNCHANGED <<state, job>>
  <2>1. terms[o].creator \in Party
    BY <1>1 DEF Terms
  <2>2. /\ opt' = opt /\ UNCHANGED <<state, job>>
        /\ \E b \in BOOLEAN, x \in Party : nft' = Passed(nft, b, x)
    BY <1>1, <1>5, <2>1, AppendIsPassed DEF PeerExercises, PeerClawsBack, Block
  <2>3. QED
    BY <1>1, <2>2 DEF Grows
<1>6. ASSUME NEW o \in Opt, PeerCreates(o) PROVE Grows /\ UNCHANGED <<state, job>>
  <2>1. nft' = Append(nft, o) /\ opt' = [opt EXCEPT ![o] = <<Peer>>] /\ UNCHANGED <<state, job>>
        /\ terms[o].lock = <<>>
    BY <1>6 DEF PeerCreates, Block, NextOpt, NoTerms
  <2>2. opt[o] = <<>> /\ <<Peer>> = Passed(<<>>, FALSE, Peer)
    BY <2>1 DEF LinkInv, Passed
  <2>3. nft' = Passed(nft, FALSE, o)
    BY <2>1, AppendIsPassed
  <2>4. QED
    BY <1>1, <2>1, <2>2, <2>3 DEF Grows
<1>7. CASE PeerSends
  BY <1>1, <1>7, AppendIsPassed DEF PeerSends, Block, Grows
<1>8. QED
  BY <1>2, <1>3, <1>4, <1>5, <1>6, <1>7 DEF Network

LEMMA SeenGrows ==
  ASSUME TypeInv, Grows, NEW s, StateOK(s), SeenOK(s)
  PROVE  /\ s.nft.phase = "confirmed" => Found(s.nft.coin, nft')
         /\ \A o \in Opt : s.opt[o].phase = "confirmed" => Found(s.opt[o].coin, opt'[o])
<1>1. ASSUME s.nft.phase = "confirmed" PROVE Found(s.nft.coin, nft')
  <2>1. s.nft.coin \in Seq(Hop) /\ nft \in Seq(Hop) /\ Found(s.nft.coin, nft)
    BY <1>1, PathFacts DEF StateOK, State, NftRec, TypeInv, ChainOK, SeenOK
  <2>2. \A b \in BOOLEAN, x \in Party \cup Opt : IsPrefix(s.nft.coin, Passed(nft, b, x))
    BY <2>1, PrefixPassed DEF Found, Hop
  <2>3. QED
    BY <2>1, <2>2 DEF Grows, Found
<1>2. ASSUME NEW o \in Opt, s.opt[o].phase = "confirmed" PROVE Found(s.opt[o].coin, opt'[o])
  <2>1. s.opt[o].coin \in Seq(Hop) /\ opt[o] \in Seq(Hop) /\ Found(s.opt[o].coin, opt[o])
    BY <1>2, PathFacts DEF StateOK, State, OptRec, TypeInv, ChainOK, SeenOK
  <2>2. \A b \in BOOLEAN, p \in Party : IsPrefix(s.opt[o].coin, Passed(opt[o], b, p))
    BY <2>1, PrefixPassed DEF Found, Hop
  <2>3. QED
    BY <2>1, <2>2 DEF Grows, Found
<1>3. QED
  BY <1>1, <1>2

\* What a command saves confirms nothing the file does not.
Quiet(s) ==
  /\ s.nft.phase = "confirmed" => s.nft = state.nft
  /\ \A o \in Opt : s.opt[o].phase = "confirmed" =>
       state.opt[o].phase = "confirmed" /\ s.opt[o].coin = state.opt[o].coin

LEMMA QuietEdit ==
  ASSUME StateOK(state), NEW path \in NftPath, path # <<>>, NEW ph \in {"pending", "superseded"},
         NEW o \in Opt
  PROVE  /\ Quiet(WithNft(path, ph))
         /\ \A rec : rec.phase # "confirmed" => Quiet([WithNft(path, ph) EXCEPT !.opt[o] = rec])
         /\ Quiet([WithNft(path, ph) EXCEPT !.opt[o].phase = "superseded"])
         /\ Quiet([WithNft(path, ph) EXCEPT !.opt[o].reclaimed = TRUE])
         /\ \A rec : rec.phase # "confirmed" => Quiet([state EXCEPT !.opt[o] = rec])
<1> DEFINE w == WithNft(path, ph)
<1>1. w \in State /\ w.nft.phase = ph /\ w.opt = state.opt /\ state \in State
  BY WithNftOK DEF StateOK, WithNft, State, Phase
<1>2. Quiet(w)
  BY <1>1 DEF Quiet
<1>3. ASSUME NEW rec, rec.phase # "confirmed"
      PROVE  Quiet([w EXCEPT !.opt[o] = rec]) /\ Quiet([state EXCEPT !.opt[o] = rec])
  BY <1>1, <1>3 DEF Quiet, State
<1>4. Quiet([w EXCEPT !.opt[o].phase = "superseded"])
  BY <1>1 DEF Quiet, State, OptRec
<1>5. Quiet([w EXCEPT !.opt[o].reclaimed = TRUE])
  BY <1>1 DEF Quiet, State, OptRec
<1>6. QED
  BY <1>2, <1>3, <1>4, <1>5

LEMMA FileSubmit ==
  ASSUME TypeInv, FileInv, NEW t, NEW after, Submit(t, after), Quiet(after)
  PROVE  FileInv'
<1>1. nft' = nft /\ opt' = opt /\ state' = state
  BY DEF Submit, chainVars
<1>2. SeenOK(after) /\ FollowedAll(after)
  BY DEF FileInv, SeenOK, Quiet, FollowedAll, Followed, Reopened
<1>3. CASE job' = [at |-> "pushed", st |-> after, taken |-> IF t.kind = "take" THEN t.o ELSE 0]
  <2>1. job'.at = "pushed" /\ job'.st = after
    BY <1>3
  <2>2. QED
    BY <1>1, <1>2, <2>1 DEF FileInv, SeenOK, FollowedAll, Followed, Reopened
<1>4. CASE job' = Idle
  BY <1>1, <1>4, Blanks DEF FileInv, SeenOK
<1>5. QED
  BY <1>3, <1>4 DEF Submit

LEMMA FileMints == ASSUME TypeInv, FileInv, Mint \/ SweepIncome PROVE FileInv'
<1>1. StateOK(state)
  BY DEF TypeInv
<1>2. MintTx \in Tx /\ SweepTx \in Tx
  BY <1>1, SingletonTxsOK DEF TxOK
<1>3. ASSUME NEW t \in Tx PROVE Quiet(WithNft(NftChild(t), "pending"))
  BY ChildrenTyped, <1>1 DEF Quiet, WithNft, StateOK, State
<1>4. CASE Mint
  BY <1>2, <1>3, <1>4, FileSubmit DEF Mint
<1>5. CASE SweepIncome
  BY <1>2, <1>3, <1>5, FileSubmit DEF SweepIncome
<1>6. QED
  BY <1>4, <1>5

LEMMA FileMoves ==
  ASSUME TypeInv, FileInv, NEW o \in Opt, Create(o) \/ Take(o) \/ Exercise(o) \/ Clawback(o)
  PROVE  FileInv'
<1>1. StateOK(state) /\ ChainOK
  BY DEF TypeInv
<1>2. ASSUME NEW owner \in Party, NEW k, NEW after,
             after = [WithNft(NftChild(CreateTx(o, owner)), "superseded") EXCEPT
                       !.opt[o] = [coin |-> OptChild(CreateTx(o, owner)), phase |-> "pending",
                                   known |-> TRUE, reclaimed |-> FALSE]]
      PROVE  Quiet(after)
  <2>1. NftChild(CreateTx(o, owner)) \in NftPath /\ NftChild(CreateTx(o, owner)) # <<>>
    BY <1>1, OptionTxsOK, ChildrenTyped DEF TxOK
  <2>2. QED
    BY <1>1, <1>2, <2>1, QuietEdit
<1>3. CASE Create(o)
  BY <1>2, <1>3, FileSubmit DEF Create
<1>4. CASE Take(o)
  <2>1. Purchased(o).phase # "confirmed"
    BY DEF Purchased
  <2>2. Quiet([state EXCEPT !.opt[o] = Purchased(o)])
    BY <1>1, <2>1 DEF Quiet, StateOK, State
  <2>3. QED
    BY <1>4, <2>2, FileSubmit DEF Take
<1>5. CASE Exercise(o)
  <2>1. NftChild(ExerciseTx(o)) \in NftPath /\ NftChild(ExerciseTx(o)) # <<>>
    BY <1>1, <1>5, OptionTxsOK, ChildrenTyped DEF TxOK, Exercise, ExerciseGuard
  <2>2. Quiet([WithNft(NftChild(ExerciseTx(o)), "pending") EXCEPT !.opt[o].phase = "superseded"])
    BY <1>1, <2>1, QuietEdit
  <2>3. QED
    BY <1>5, <2>2, FileSubmit DEF Exercise
<1>6. CASE Clawback(o)
  <2>1. PICK to \in Party :
          Submit(ClawbackTx(o, to),
            [WithNft(NftChild(ClawbackTx(o, to)), "pending") EXCEPT !.opt[o].reclaimed = TRUE])
    BY <1>6 DEF Clawback
  <2>2. NftChild(ClawbackTx(o, to)) \in NftPath /\ NftChild(ClawbackTx(o, to)) # <<>>
    BY <1>1, OptionTxsOK, ChildrenTyped DEF TxOK
  <2>3. Quiet([WithNft(NftChild(ClawbackTx(o, to)), "pending") EXCEPT !.opt[o].reclaimed = TRUE])
    BY <1>1, <2>2, QuietEdit
  <2>4. QED
    BY <2>1, <2>3, FileSubmit
<1>7. QED
  BY <1>3, <1>4, <1>5, <1>6

LEMMA FileSync == ASSUME TypeInv, FileInv, Sync PROVE FileInv'
<1>1. StateOK(state) /\ JobOK /\ ChainOK
  BY DEF TypeInv
<1>2. ASSUME BeginSync PROVE FileInv'
  <2>1. PICK refresh \in BOOLEAN :
          job' = [at |-> "nft", st |-> [state EXCEPT !.ph = state.ph \/ refresh]]
    BY <1>2 DEF BeginSync
  <2>2. job'.at = "nft" /\ job'.st.nft = state.nft /\ job'.st.opt = state.opt
    BY <1>1, <2>1 DEF StateOK, State
  <2>3. nft' = nft /\ opt' = opt /\ state' = state
    BY <1>2 DEF BeginSync, chainVars
  <2>4. QED
    BY <2>2, <2>3 DEF FileInv, SeenOK, FollowedAll, Followed, Reopened
<1>3. ASSUME SyncNft PROVE FileInv'
  <2> DEFINE n == Reconciled(job.st.nft, nft, FALSE, job.st.ph)
             s == [job.st EXCEPT !.nft = n]
  <2>1. /\ job.st \in State /\ job.st.nft = state.nft /\ job.st.opt = state.opt
        /\ SeenOK(job.st) /\ SeenOK(state)
    BY <1>1, <1>3 DEF SyncNft, JobOK, StateOK, FileInv
  <2>2. /\ job.st.nft \in NftRec /\ job.st.nft.coin \in Seq(Hop)
        /\ job.st.nft.phase \in Phase /\ nft \in Seq(Hop) /\ job.st.ph \in BOOLEAN
        /\ (job.st.nft.phase = "confirmed" => Found(job.st.nft.coin, nft))
    BY <1>1, <2>1, PathFacts DEF State, NftRec, ChainOK, SeenOK
  <2>3. Followed(job.st.nft, n) /\ (n.phase = "confirmed" => Found(n.coin, nft))
    BY <2>2, ReconciledFollows
  <2>4. job'.at = "opt" /\ job'.st = s /\ s.nft = n /\ s.opt = state.opt
    BY <1>3, <2>1 DEF SyncNft, State
  <2>5. nft' = nft /\ opt' = opt /\ state' = state
    BY <1>3 DEF SyncNft, chainVars
  <2>6. SeenOK(job.st)' /\ FollowedAll(job.st)'
    BY <2>1, <2>3, <2>4, <2>5 DEF SeenOK, FollowedAll, Followed, Reopened
  <2>7. QED
    BY <2>1, <2>4, <2>5, <2>6 DEF FileInv, SeenOK
<1>4. ASSUME SyncOpt PROVE FileInv'
  <2> DEFINE o == job.next
             rec == Reconciled(job.st.opt[o], opt[o], o \in melted, job.st.ph)
             s == [job.st EXCEPT !.opt[o] = rec]
  <2>1. /\ job.st \in State /\ o \in Opt /\ job.st.opt[o] = state.opt[o] /\ o \in Nat
        /\ SeenOK(job.st) /\ SeenOK(state) /\ FollowedAll(job.st)
        /\ \A p \in Opt : p >= o => job.st.opt[p] = state.opt[p]
    BY <1>1, <1>4 DEF SyncOpt, JobOK, StateOK, FileInv, Opt
  <2>2. /\ job.st.opt[o] \in OptRec /\ job.st.opt[o].coin \in Seq(Hop)
        /\ job.st.opt[o].phase \in Phase /\ opt[o] \in Seq(Hop) /\ job.st.ph \in BOOLEAN
        /\ (job.st.opt[o].phase = "confirmed" => Found(job.st.opt[o].coin, opt[o]))
        /\ (o \in melted) \in BOOLEAN
    BY <1>1, <2>1, PathFacts DEF State, OptRec, ChainOK, SeenOK
  <2>3. Followed(job.st.opt[o], rec) /\ (rec.phase = "confirmed" => Found(rec.coin, opt[o]))
    BY <2>2, ReconciledFollows
  <2>4. job'.at = "opt" /\ job'.next = o + 1 /\ job'.st = s
    <3>1. job' = [job EXCEPT !.next = o + 1, !.st.opt[o] = rec] /\ job.at = "opt"
      BY <1>4 DEF SyncOpt
    <3>2. QED
      BY <3>1
  <2>5. s.nft = job.st.nft /\ s.opt = [job.st.opt EXCEPT ![o] = rec] /\ job.st.opt \in [Opt -> OptRec]
    BY <2>1 DEF State
  <2>6. nft' = nft /\ opt' = opt /\ state' = state
    BY <1>4 DEF SyncOpt, chainVars
  <2>7. SeenOK(job.st)' /\ FollowedAll(job.st)'
    BY <2>1, <2>3, <2>4, <2>5, <2>6 DEF SeenOK, FollowedAll, Followed, Reopened
  <2>8. \A p \in Opt : p >= o + 1 => s.opt[p] = state.opt[p]
    BY <2>1, <2>5 DEF Opt
  <2>9. QED
    BY <2>1, <2>4, <2>6, <2>7, <2>8 DEF FileInv, SeenOK
<1>5. ASSUME SyncLookupFailed PROVE FileInv'
  <2>1. nft' = nft /\ opt' = opt /\ state' = state
    BY <1>5 DEF SyncLookupFailed, chainVars
  <2>2. CASE job.at = "nft" /\ job' = [at |-> "opt", next |-> 1, st |-> job.st]
    BY <2>1, <2>2 DEF FileInv, SeenOK, FollowedAll, Followed, Reopened
  <2>3. CASE job.at = "opt" /\ job.next \in Opt /\ job' = [job EXCEPT !.next = @ + 1]
    <3>1. job'.at = "opt" /\ job'.st = job.st /\ job'.next = job.next + 1
      BY <2>3
    <3>2. \A p \in Opt : p >= job.next + 1 => p >= job.next
      BY <2>3 DEF Opt
    <3>3. QED
      BY <2>1, <2>3, <3>1, <3>2 DEF FileInv, SeenOK, FollowedAll, Followed, Reopened
  <2>4. QED
    BY <1>5, <2>2, <2>3 DEF SyncLookupFailed
<1>6. ASSUME SaveSync PROVE FileInv'
  <2>1. state' = job.st /\ job'.at = "idle" /\ nft' = nft /\ opt' = opt /\ SeenOK(job.st)
    BY <1>6, Blanks DEF SaveSync, chainVars, FileInv
  <2>2. QED
    BY <2>1 DEF FileInv, SeenOK
<1>7. QED
  BY <1>2, <1>3, <1>4, <1>5, <1>6 DEF Sync

LEMMA FileNext == ASSUME TypeInv, LinkInv, FileInv, [Next]_vars PROVE FileInv'
<1>1. StateOK(state) /\ JobOK /\ ChainOK /\ SeenOK(state)
  BY DEF TypeInv, FileInv
<1>2. ASSUME UNCHANGED <<nft, opt>>, SeenOK(state'), job'.at \in {"idle", "recover"} PROVE FileInv'
  BY <1>2 DEF FileInv, SeenOK
<1>3. ASSUME NEW o \in Opt, Offer(o) PROVE FileInv'
  BY <1>1, <1>3 DEF Offer, chainVars, FileInv, SeenOK, FollowedAll, Followed, Reopened
<1>4. ASSUME NEW o \in Opt, state' = Recovered(o) PROVE SeenOK(state')
  <2>1. state'.nft.phase = "superseded"
        /\ \A p \in Opt : state'.opt[p].phase = state.opt[p].phase
                         /\ state'.opt[p].coin = state.opt[p].coin
    BY <1>1, <1>4 DEF Recovered, StateOK, State, OptRec
  <2>2. QED
    BY <1>1, <2>1 DEF SeenOK
<1>5. ASSUME NEW o \in Opt, Recover(o) PROVE FileInv'
  BY <1>2, <1>4, <1>5, Blanks DEF Recover, chainVars
<1>6. CASE Save
  <2>1. SeenOK(state') /\ UNCHANGED <<nft, opt>>
    BY <1>6 DEF Save, FileInv, chainVars
  <2>2. job'.at \in {"idle", "recover"}
    BY <1>6, Blanks DEF Save
  <2>3. QED
    BY <1>2, <2>1, <2>2
<1>7. CASE RecoverTaken
  BY <1>1, <1>2, <1>4, <1>7, Blanks DEF RecoverTaken, chainVars, JobOK
<1>8. CASE RecoverTakenFailed \/ Crash
  BY <1>1, <1>2, <1>8, Blanks DEF RecoverTakenFailed, Crash, chainVars
<1>9. CASE Network
  <2>1. Grows /\ state' = state /\ job' = job
    BY <1>9, NetworkGrows
  <2>2. SeenOK(state)'
    BY <1>1, <2>1, SeenGrows DEF SeenOK
  <2>3. job.at \in {"pushed", "nft", "opt"} => SeenOK(job.st)'
    BY <1>1, <2>1, SeenGrows DEF SeenOK, JobOK, FileInv
  <2>4. QED
    BY <2>1, <2>2, <2>3 DEF FileInv, FollowedAll, Followed, Reopened
<1>10. CASE UNCHANGED vars
  BY <1>10 DEF vars, FileInv, SeenOK, FollowedAll, Followed, Reopened
<1>11. QED
  BY <1>3, <1>5, <1>6, <1>7, <1>8, <1>9, <1>10, FileMints, FileMoves, FileSync DEF Next, Command

THEOREM FileInvariant == Spec => [](TypeInv /\ LinkInv /\ FileInv)
<1>1. Init => FileInv
  <2> SUFFICES ASSUME Init PROVE FileInv
    OBVIOUS
  <2>1. PICK b \in BOOLEAN : state = [nft |-> NoNft, opt |-> [o \in Opt |-> NoOption], ph |-> b]
    BY DEF Init
  <2>2. SeenOK(state)
    BY <2>1 DEF SeenOK, NoNft, NoOption
  <2>3. QED
    BY <2>2, Blanks DEF Init, FileInv
<1>2. TypeInv /\ LinkInv /\ FileInv /\ [Next]_vars => FileInv'
  BY FileNext
<1>3. QED
  BY LinkInvariant, <1>1, <1>2, PTL DEF Spec

\* A record is only ever Confirmed when its coin was seen on chain (state.rs,
\* Phase): no dropped bundle, lost answer, failed lookup, crash, race with
\* another wallet or order of commands puts a coin that never was in the file
\* as confirmed.
THEOREM ConfirmedIsSeen == Spec => []ConfirmedWasSeen
<1>1. FileInv => ConfirmedWasSeen
  BY DEF FileInv, SeenOK, ConfirmedWasSeen, NftStatus, OptStatus, Status, Found
<1>2. QED
  BY FileInvariant, <1>1, PTL

\* A closed record is reopened only by following its coin to another one that
\* the wallet controls (sync.rs, reconcile_nfts and reconcile_options), at
\* whatever moment of a refresh the blocks come in.
THEOREM ReopeningFollows == Spec => ReopenedOnlyToMine
<1>1. TypeInv /\ FileInv /\ [Next]_vars => [FollowedAll(state')]_vars
  <2> SUFFICES ASSUME TypeInv, FileInv, Next PROVE FollowedAll(state')
    BY DEF vars
  <2>1. StateOK(state) /\ JobOK
    BY DEF TypeInv
  <2>2. CASE state' = state
    BY <2>2 DEF FollowedAll, Followed, Reopened
  <2>3. CASE Save \/ SaveSync
    BY <2>3 DEF Save, SaveSync, FileInv
  <2>4. ASSUME NEW o \in Opt, state' = Recovered(o) PROVE FollowedAll(state')
    <3>1. state'.nft.phase = "superseded"
          /\ \A p \in Opt : state'.opt[p].phase = state.opt[p].phase
      BY <2>1, <2>4 DEF Recovered, StateOK, State, OptRec
    <3>2. QED
      BY <3>1 DEF FollowedAll, Followed, Reopened
  <2>5. CASE RecoverTaken
    BY <2>1, <2>4, <2>5 DEF RecoverTaken, JobOK
  <2>6. ASSUME NEW o \in Opt, Recover(o) PROVE FollowedAll(state')
    BY <2>4, <2>6 DEF Recover
  <2>7. CASE Network
    BY <2>2, <2>7, NetworkKeepsFile
  <2>8. CASE Mint \/ SweepIncome \/ RecoverTakenFailed \/ Crash
    BY <2>2, <2>8 DEF Mint, SweepIncome, RecoverTakenFailed, Crash, Submit
  <2>9. ASSUME NEW o \in Opt, Create(o) \/ Offer(o) \/ Take(o) \/ Exercise(o) \/ Clawback(o)
        PROVE  FollowedAll(state')
    BY <2>2, <2>9 DEF Create, Offer, Take, Exercise, Clawback, Submit
  <2>10. CASE BeginSync \/ SyncNft \/ SyncOpt \/ SyncLookupFailed
    BY <2>2, <2>10 DEF BeginSync, SyncNft, SyncOpt, SyncLookupFailed
  <2>11. QED
    BY <2>3, <2>5, <2>6, <2>7, <2>8, <2>9, <2>10 DEF Next, Command, Sync
<1>2. [FollowedAll(state')]_vars =>
        [/\ Reopened(state.nft, state'.nft) =>
              state'.nft.coin # state.nft.coin /\ Owner(state'.nft.coin) = Me
         /\ \A o \in Opt : Reopened(state.opt[o], state'.opt[o]) =>
              state'.opt[o].coin # state.opt[o].coin /\ Owner(state'.opt[o].coin) = Me]_vars
  BY DEF FollowedAll, Followed
<1>3. QED
  BY FileInvariant, <1>1, <1>2, PTL DEF Spec, ReopenedOnlyToMine
=============================================================================
