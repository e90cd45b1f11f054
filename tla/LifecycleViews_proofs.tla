------------------------- MODULE LifecycleViews_proofs -------------------------
(* What the user is told of the NFT and the options, for any number of them: *)
(* theorems about the status view and the reclaimed flag of Lifecycle.       *)
EXTENDS Lifecycle_proofs

-----------------------------------------------------------------------------
(* A phase tells where its coin can be.                                      *)

\* A record is open only on a coin that a party owns, and an option's record is
\* closed only on a coin that was on chain.
PhaseOK(s) ==
  /\ s.nft.phase \in {"pending", "confirmed"} => Owner(s.nft.coin) \in Party
  /\ \A o \in Opt : s.opt[o].phase = "superseded" => Found(s.opt[o].coin, opt[o])

PhaseInv ==
  /\ PhaseOK(state)
  /\ job.at \in {"pushed", "nft", "opt"} => PhaseOK(job.st)

LEMMA AppendOwner ==
  ASSUME NEW S, NEW s \in Seq(S), NEW x \in S PROVE Owner(Append(s, x)) = x
  BY DEF Owner

LEMMA ChildOwner == ASSUME NEW t \in Tx PROVE Owner(NftChild(t)) = t.to
<1>1. t.nft \in NftPath /\ t.to \in Party \cup Opt /\ t.settled \in BOOLEAN
  BY DEF Tx
<1>2. QED
  BY <1>1, NftPassed DEF NftChild

\* The coin an NFT passes to is another one.
LEMMA NftMoved ==
  ASSUME TypeInv, NEW b \in BOOLEAN, NEW x \in Party \cup Opt
  PROVE  Passed(nft, b, x) # nft
<1>1. nft \in Path(Party \cup Opt) /\ nft \in Seq(Hop)
  BY PathFacts DEF TypeInv, ChainOK, NftPath
<1>2. ~IsPrefix(Passed(nft, b, x), nft) /\ IsPrefix(nft, nft)
  BY <1>1, PassedFacts, PrefixSelf
<1>3. QED
  BY <1>2

\* A coin that was on chain stays on its option's path.
LEMMA FoundGrows ==
  ASSUME TypeInv, Grows, NEW o \in Opt, NEW coin \in OptPath, Found(coin, opt[o])
  PROVE  Found(coin, opt'[o])
<1>1. coin \in Seq(Hop) /\ opt[o] \in Seq(Hop)
  BY PathFacts DEF TypeInv, ChainOK
<1>2. \A b \in BOOLEAN, x \in Party : IsPrefix(coin, Passed(opt[o], b, x))
  BY <1>1, PrefixPassed DEF Found, Hop
<1>3. QED
  BY <1>1, <1>2 DEF Grows, Found

LEMMA PhaseSubmit ==
  ASSUME TypeInv, PhaseInv, NEW t, NEW after, Submit(t, after), PhaseOK(after)
  PROVE  PhaseInv'
<1>1. opt' = opt /\ state' = state
  BY DEF Submit, chainVars
<1>2. CASE job' = [at |-> "pushed", st |-> after, taken |-> IF t.kind = "take" THEN t.o ELSE 0]
  <2>1. job'.at = "pushed" /\ job'.st = after
    BY <1>2
  <2>2. QED
    BY <1>1, <2>1 DEF PhaseInv, PhaseOK
<1>3. CASE job' = Idle
  BY <1>1, <1>3, Blanks DEF PhaseInv, PhaseOK
<1>4. QED
  BY <1>2, <1>3 DEF Submit

\* The states the commands save: open only on a party's coin.
LEMMA PhaseEdit ==
  ASSUME StateOK(state), PhaseOK(state), NEW path \in NftPath, path # <<>>,
         NEW ph \in {"pending", "superseded"}, ph = "pending" => Owner(path) \in Party,
         NEW o \in Opt
  PROVE  /\ PhaseOK(WithNft(path, ph))
         /\ \A rec : rec.phase = "pending" =>
              /\ PhaseOK([WithNft(path, ph) EXCEPT !.opt[o] = rec])
              /\ PhaseOK([state EXCEPT !.opt[o] = rec])
         /\ Found(state.opt[o].coin, opt[o]) =>
              PhaseOK([WithNft(path, ph) EXCEPT !.opt[o].phase = "superseded"])
         /\ PhaseOK([WithNft(path, ph) EXCEPT !.opt[o].reclaimed = TRUE])
<1> DEFINE w == WithNft(path, ph)
<1>1. /\ w \in State /\ w.nft.phase = ph /\ w.nft.coin = path /\ w.opt = state.opt
      /\ state \in State
  BY WithNftOK DEF StateOK, WithNft, State, Phase
<1>2. PhaseOK(w)
  BY <1>1 DEF PhaseOK
<1>3. ASSUME NEW rec, rec.phase = "pending"
      PROVE  PhaseOK([w EXCEPT !.opt[o] = rec]) /\ PhaseOK([state EXCEPT !.opt[o] = rec])
  BY <1>1, <1>2, <1>3 DEF PhaseOK, State
<1>4. ASSUME Found(state.opt[o].coin, opt[o])
      PROVE  PhaseOK([w EXCEPT !.opt[o].phase = "superseded"])
  BY <1>1, <1>2, <1>4 DEF PhaseOK, State, OptRec
<1>5. PhaseOK([w EXCEPT !.opt[o].reclaimed = TRUE])
  BY <1>1, <1>2 DEF PhaseOK, State, OptRec
<1>6. QED
  BY <1>2, <1>3, <1>4, <1>5

LEMMA PhaseMints == ASSUME TypeInv, PhaseInv, Mint \/ SweepIncome PROVE PhaseInv'
<1>1. StateOK(state) /\ PhaseOK(state) /\ Me \in Party
  BY DEF TypeInv, PhaseInv, Party
<1>2. /\ MintTx \in Tx /\ SweepTx \in Tx
      /\ MintTx.to = Me /\ SweepTx.to = Me
  BY <1>1, SingletonTxsOK DEF TxOK, MintTx, SweepTx, NftTx
<1>3. ASSUME NEW t \in Tx, t.to = Me PROVE PhaseOK(WithNft(NftChild(t), "pending"))
  <2>1. NftChild(t) \in NftPath /\ NftChild(t) # <<>> /\ Owner(NftChild(t)) = Me
    BY <1>3, ChildrenTyped, ChildOwner
  <2>2. WithNft(NftChild(t), "pending").nft = [coin |-> NftChild(t), phase |-> "pending"]
        /\ WithNft(NftChild(t), "pending").opt = state.opt
    BY <1>1 DEF WithNft, StateOK, State
  <2>3. QED
    BY <1>1, <2>1, <2>2 DEF PhaseOK
<1>4. CASE Mint
  BY <1>2, <1>3, <1>4, PhaseSubmit DEF Mint
<1>5. CASE SweepIncome
  BY <1>2, <1>3, <1>5, PhaseSubmit DEF SweepIncome
<1>6. QED
  BY <1>4, <1>5

LEMMA PhaseMoves ==
  ASSUME TypeInv, PhaseInv, NEW o \in Opt, Create(o) \/ Take(o) \/ Exercise(o) \/ Clawback(o)
  PROVE  PhaseInv'
<1>1. StateOK(state) /\ ChainOK /\ PhaseOK(state) /\ terms[o].creator \in Party /\ Me \in Party
  BY DEF TypeInv, PhaseInv, ChainOK, Terms, Party
<1>2. CASE Create(o)
  <2>1. PICK owner \in Party :
          Submit(CreateTx(o, owner),
            [WithNft(NftChild(CreateTx(o, owner)), "superseded") EXCEPT
              !.opt[o] = [coin |-> OptChild(CreateTx(o, owner)), phase |-> "pending",
                          known |-> TRUE, reclaimed |-> FALSE]])
    BY <1>2 DEF Create
  <2>2. NftChild(CreateTx(o, owner)) \in NftPath /\ NftChild(CreateTx(o, owner)) # <<>>
    BY <1>1, OptionTxsOK, ChildrenTyped DEF TxOK
  <2>3. PhaseOK([WithNft(NftChild(CreateTx(o, owner)), "superseded") EXCEPT
                  !.opt[o] = [coin |-> OptChild(CreateTx(o, owner)), phase |-> "pending",
                              known |-> TRUE, reclaimed |-> FALSE]])
    BY <1>1, <2>2, PhaseEdit
  <2>4. QED
    BY <2>1, <2>3, PhaseSubmit
<1>3. CASE Take(o)
  <2>1. Purchased(o).phase = "pending"
    BY DEF Purchased
  <2>2. PhaseOK([state EXCEPT !.opt[o] = Purchased(o)])
    BY <1>1, <2>1 DEF PhaseOK, StateOK, State
  <2>3. QED
    BY <1>3, <2>2, PhaseSubmit DEF Take
<1>4. CASE Exercise(o)
  <2>1. /\ ExerciseTx(o) \in Tx /\ ExerciseTx(o).to \in Party
        /\ Found(state.opt[o].coin, opt[o])
    <3>1. state.opt[o].phase # "none" /\ OptStatus(o, state.opt[o].coin) # "NotFound"
      BY <1>4 DEF Exercise, ExerciseGuard, OptReady
    <3>2. ExerciseTx(o).to \in Party
      BY <1>1 DEF ExerciseTx, ReturnTx, TransferTx, NftTx
    <3>3. Found(state.opt[o].coin, opt[o])
      BY <3>1 DEF OptStatus, Status, Found
    <3>4. QED
      BY <1>1, <3>1, <3>2, <3>3, OptionTxsOK DEF TxOK
  <2>2. NftChild(ExerciseTx(o)) \in NftPath /\ NftChild(ExerciseTx(o)) # <<>>
        /\ Owner(NftChild(ExerciseTx(o))) \in Party
    BY <2>1, ChildrenTyped, ChildOwner
  <2>3. PhaseOK([WithNft(NftChild(ExerciseTx(o)), "pending") EXCEPT !.opt[o].phase = "superseded"])
    BY <1>1, <2>1, <2>2, PhaseEdit
  <2>4. QED
    BY <1>4, <2>3, PhaseSubmit DEF Exercise
<1>5. CASE Clawback(o)
  <2>1. PICK to \in Party :
          Submit(ClawbackTx(o, to),
            [WithNft(NftChild(ClawbackTx(o, to)), "pending") EXCEPT !.opt[o].reclaimed = TRUE])
    BY <1>5 DEF Clawback
  <2>2. ClawbackTx(o, to) \in Tx /\ ClawbackTx(o, to).to = to
    BY <1>1, OptionTxsOK DEF TxOK, ClawbackTx, NftTx
  <2>3. NftChild(ClawbackTx(o, to)) \in NftPath /\ NftChild(ClawbackTx(o, to)) # <<>>
        /\ Owner(NftChild(ClawbackTx(o, to))) \in Party
    BY <2>2, ChildrenTyped, ChildOwner
  <2>4. PhaseOK([WithNft(NftChild(ClawbackTx(o, to)), "pending") EXCEPT !.opt[o].reclaimed = TRUE])
    BY <1>1, <2>3, PhaseEdit
  <2>5. QED
    BY <2>1, <2>4, PhaseSubmit
<1>6. QED
  BY <1>2, <1>3, <1>4, <1>5

LEMMA PhaseSync == ASSUME TypeInv, PhaseInv, Sync PROVE PhaseInv'
<1>1. StateOK(state) /\ JobOK /\ ChainOK /\ PhaseOK(state) /\ Me \in Party
  BY DEF TypeInv, PhaseInv, Party
<1>2. ASSUME opt' = opt, state' = state, job'.at \in {"nft", "opt"}, PhaseOK(job'.st)
      PROVE  PhaseInv'
  BY <1>1, <1>2 DEF PhaseInv, PhaseOK
<1>3. CASE BeginSync
  <2>1. PICK refresh \in BOOLEAN :
          job' = [at |-> "nft", st |-> [state EXCEPT !.ph = state.ph \/ refresh]]
    BY <1>3 DEF BeginSync
  <2>2. job'.at = "nft" /\ job'.st.nft = state.nft /\ job'.st.opt = state.opt
    BY <1>1, <2>1 DEF StateOK, State
  <2>3. PhaseOK(job'.st)
    BY <1>1, <2>2 DEF PhaseOK
  <2>4. QED
    BY <1>2, <1>3, <2>2, <2>3 DEF BeginSync, chainVars
<1>4. CASE SyncNft
  <2> DEFINE rec == job.st.nft
             n == Reconciled(rec, nft, FALSE, job.st.ph)
             s == [job.st EXCEPT !.nft = n]
  <2>1. job.st \in State /\ PhaseOK(job.st) /\ rec \in NftRec /\ rec.phase \in Phase
    BY <1>1, <1>4 DEF SyncNft, JobOK, StateOK, PhaseInv, State, NftRec
  <2>2. n.phase \in {"pending", "confirmed"} => Owner(n.coin) \in Party
    BY <1>1, <2>1 DEF Reconciled, NftRec, PhaseOK, Phase, Status
  <2>3. job'.at = "opt" /\ job'.st = s /\ s.nft = n /\ s.opt = job.st.opt
    BY <1>4, <2>1 DEF SyncNft, State
  <2>4. PhaseOK(s)
    BY <2>1, <2>2, <2>3 DEF PhaseOK
  <2>5. QED
    BY <1>2, <1>4, <2>3, <2>4 DEF SyncNft, chainVars
<1>5. CASE SyncOpt
  <2> DEFINE o == job.next
             rec == job.st.opt[o]
             new == Reconciled(rec, opt[o], o \in melted, job.st.ph)
             s == [job.st EXCEPT !.opt[o] = new]
  <2>1. /\ job.st \in State /\ o \in Opt /\ PhaseOK(job.st)
        /\ rec \in OptRec /\ rec.phase \in Phase /\ (o \in melted) \in BOOLEAN
        /\ opt[o] \in Seq(Hop) /\ rec.coin \in Seq(Hop) /\ job.st.ph \in BOOLEAN
    BY <1>1, <1>5, PathFacts DEF SyncOpt, JobOK, StateOK, PhaseInv, State, OptRec, ChainOK
  <2>2. new.phase = "superseded" => Found(new.coin, opt[o])
    <3>1. CASE Status(rec.coin, opt[o], o \in melted) = "NotFound"
      BY <2>1, <3>1 DEF Reconciled, PhaseOK
    <3>2. CASE Status(rec.coin, opt[o], o \in melted) # "NotFound"
      <4>1. Found(rec.coin, opt[o]) /\ opt[o] # <<>>
        <5>1. Found(rec.coin, opt[o])
          BY <2>1, <3>2, StatusFound
        <5>2. QED
          BY <2>1, <5>1 DEF Found, IsPrefix
      <4>2. Found(opt[o], opt[o])
        BY <2>1, <4>1, PrefixSelf DEF Found
      <4>3. new.coin \in {rec.coin, opt[o]}
        BY <2>1, <3>2 DEF Reconciled, OptRec
      <4>4. QED
        BY <4>1, <4>2, <4>3
    <3>3. QED
      BY <3>1, <3>2
  <2>3. job'.at = "opt" /\ job'.st = s
    <3>1. job' = [job EXCEPT !.next = o + 1, !.st.opt[o] = new] /\ job.at = "opt"
      BY <1>5 DEF SyncOpt
    <3>2. QED
      BY <3>1
  <2>4. s.nft = job.st.nft /\ s.opt = [job.st.opt EXCEPT ![o] = new] /\ job.st.opt \in [Opt -> OptRec]
    BY <2>1 DEF State
  <2>5. PhaseOK(s)
    BY <2>1, <2>2, <2>4 DEF PhaseOK
  <2>6. QED
    BY <1>2, <1>5, <2>3, <2>5 DEF SyncOpt, chainVars
<1>6. CASE SyncLookupFailed
  <2>1. job'.at = "opt" /\ job'.st = job.st
    <3>1. CASE job' = [at |-> "opt", next |-> 1, st |-> job.st]
      BY <3>1
    <3>2. CASE job.at = "opt" /\ job' = [job EXCEPT !.next = @ + 1]
      BY <3>2
    <3>3. QED
      BY <1>6, <3>1, <3>2 DEF SyncLookupFailed
  <2>2. PhaseOK(job.st)
    BY <1>6 DEF SyncLookupFailed, PhaseInv
  <2>3. QED
    BY <1>2, <1>6, <2>1, <2>2 DEF SyncLookupFailed, chainVars
<1>7. CASE SaveSync
  BY <1>7, Blanks DEF SaveSync, chainVars, PhaseInv, PhaseOK
<1>8. QED
  BY <1>3, <1>4, <1>5, <1>6, <1>7 DEF Sync

LEMMA PhaseNext == ASSUME TypeInv, LinkInv, PhaseInv, [Next]_vars PROVE PhaseInv'
<1>1. StateOK(state) /\ JobOK /\ ChainOK /\ PhaseOK(state)
  BY DEF TypeInv, PhaseInv
<1>2. ASSUME opt' = opt, PhaseOK(state'), job'.at \in {"idle", "recover"} PROVE PhaseInv'
  BY <1>2 DEF PhaseInv, PhaseOK
<1>3. ASSUME UNCHANGED <<opt, state, job>> PROVE PhaseInv'
  BY <1>3 DEF PhaseInv, PhaseOK
<1>4. ASSUME NEW o \in Opt, Offer(o) PROVE PhaseInv'
  BY <1>3, <1>4 DEF Offer, chainVars
<1>5. ASSUME NEW o \in Opt, state' = Recovered(o) PROVE PhaseOK(state')
  <2>1. state'.nft.phase = "superseded"
        /\ \A p \in Opt : state'.opt[p].phase = state.opt[p].phase
                         /\ state'.opt[p].coin = state.opt[p].coin
    BY <1>1, <1>5 DEF Recovered, StateOK, State, OptRec
  <2>2. QED
    BY <1>1, <2>1 DEF PhaseOK
<1>6. ASSUME NEW o \in Opt, Recover(o) PROVE PhaseInv'
  BY <1>2, <1>5, <1>6, Blanks DEF Recover, chainVars
<1>7. CASE Save
  <2>1. PhaseOK(state') /\ opt' = opt
    BY <1>7 DEF Save, PhaseInv, chainVars
  <2>2. job'.at \in {"idle", "recover"}
    BY <1>7, Blanks DEF Save
  <2>3. QED
    BY <1>2, <2>1, <2>2
<1>8. CASE RecoverTaken
  BY <1>1, <1>2, <1>5, <1>8, Blanks DEF RecoverTaken, chainVars, JobOK
<1>9. CASE RecoverTakenFailed \/ Crash
  BY <1>1, <1>2, <1>9, Blanks DEF RecoverTakenFailed, Crash, chainVars
<1>10. CASE Network
  <2>1. Grows /\ state' = state /\ job' = job
    BY <1>10, NetworkGrows
  <2>2. ASSUME NEW s, StateOK(s), PhaseOK(s)
        PROVE  \A o \in Opt : s.opt[o].phase = "superseded" => Found(s.opt[o].coin, opt'[o])
    BY <2>1, <2>2, FoundGrows DEF PhaseOK, StateOK, State, OptRec
  <2>3. QED
    BY <1>1, <2>1, <2>2 DEF PhaseInv, PhaseOK, JobOK
<1>11. CASE UNCHANGED vars
  BY <1>3, <1>11 DEF vars
<1>12. QED
  BY <1>4, <1>6, <1>7, <1>8, <1>9, <1>10, <1>11, PhaseMints, PhaseMoves, PhaseSync
  DEF Next, Command

THEOREM PhaseInvariant == Spec => [](TypeInv /\ PhaseInv)
<1>1. Init => PhaseInv
  <2> SUFFICES ASSUME Init PROVE PhaseInv
    OBVIOUS
  <2>1. PICK b \in BOOLEAN : state = [nft |-> NoNft, opt |-> [o \in Opt |-> NoOption], ph |-> b]
    BY DEF Init
  <2>2. PhaseOK(state)
    BY <2>1 DEF PhaseOK, NoNft, NoOption
  <2>3. QED
    BY <2>2, Blanks DEF Init, PhaseInv
<1>2. TypeInv /\ LinkInv /\ PhaseInv /\ [Next]_vars => PhaseInv'
  BY PhaseNext
<1>3. QED
  BY LinkInvariant, <1>1, <1>2, PTL DEF Spec

\* An NFT that is locked in an option is shown as locked in an option once the
\* file agrees with the chain (status_view.rs, nft_state), whether this wallet
\* locked it, followed it there or recovered the option's terms: a record that
\* is not closed is never on a coin an option owns.
THEOREM LockedIsSeen == Spec => []LockedIsShown
<1>1. TypeInv /\ PhaseInv => LockedIsShown
  <2> SUFFICES ASSUME TypeInv, PhaseInv, state.nft.phase # "none", NftInSync, Owner(nft) \in Opt
               PROVE  NftShown = "LockedInOption"
    BY DEF LockedIsShown
  <2>1. state.nft.coin = nft /\ nft # <<>> /\ nft \in Seq(Hop)
    BY PathFacts DEF NftInSync, TypeInv, StateOK, ChainOK
  <2>2. state.nft.phase = "superseded"
    BY <2>1, LifecycleAssumption DEF PhaseInv, PhaseOK, TypeInv, StateOK, State, NftRec, Phase
  <2>3. NftStatus(state.nft.coin) = "ConfirmedUnspent"
    BY <2>1, PrefixSelf DEF NftStatus, Status
  <2>4. ~Controlled(state.nft.coin)
    BY <2>1, LifecycleAssumption DEF Controlled, Party
  <2>5. QED
    BY <2>2, <2>3, <2>4 DEF NftShown, NftState
<1>2. QED
  BY PhaseInvariant, <1>1, PTL

\* Once the file agrees with the chain, an option is shown as exercised exactly
\* when it was (status_view.rs, option_state): a sale, an expiry and a clawback
\* never look like an exercise, nor an exercise, by whomever, like one of them.
THEOREM ExercisedIsSeen == Spec => []ExercisedIsShown
<1>1. TypeInv /\ PhaseInv => ExercisedIsShown
  <2> SUFFICES ASSUME TypeInv, PhaseInv, NEW o \in Opt, state.opt[o].phase # "none", OptInSync(o)
               PROVE  OptShown(o) = "Exercised" <=> o \in melted
    BY DEF ExercisedIsShown
  <2>1. /\ state.opt[o].coin # <<>> /\ opt[o] \in Seq(Hop)
        /\ state.opt[o].reclaimed \in BOOLEAN /\ state.opt[o].known \in BOOLEAN
    BY PathFacts DEF TypeInv, StateOK, State, OptRec, ChainOK
  <2>2. CASE o \in melted
    <3>1. state.opt[o].phase = "superseded" /\ Found(state.opt[o].coin, opt[o])
      BY <2>2 DEF OptInSync, PhaseInv, PhaseOK
    <3>2. OptStatus(o, state.opt[o].coin) = "Spent"
      BY <2>2, <3>1 DEF OptStatus, Status, Found
    <3>3. QED
      BY <2>2, <3>1, <3>2 DEF OptShown, OptionState
  <2>3. CASE o \notin melted
    <3>1. state.opt[o].coin = opt[o]
      BY <2>3 DEF OptInSync
    <3>2. OptStatus(o, state.opt[o].coin) = "ConfirmedUnspent"
      BY <2>1, <2>3, <3>1, PrefixSelf DEF OptStatus, Status
    <3>3. OptShown(o) \in {"Reclaimed", "Expired", "Ready", "Transferred"}
      BY <3>2 DEF OptShown, OptionState
    <3>4. QED
      BY <2>3, <3>3
  <2>4. QED
    BY <2>2, <2>3
<1>2. QED
  BY PhaseInvariant, <1>1, PTL

-----------------------------------------------------------------------------
(* A reclaimed flag is kept by the chain.                                    *)

\* The mempool forgets nothing.
NothingDropped == "drop" \notin Faults

\* Every bundle in the mempool spends live coins, and a clawback is past the
\* deadline, of the coin that its option locks.
TxLive(t) ==
  /\ InputsLive(t, nft, opt, melted)
  /\ t.kind = "clawback" => expired /\ t.nft # <<>> /\ t.nft = terms[t.o].lock

\* The NFT has left the option, or a clawback in the mempool will take it out.
Leaving(o) ==
  /\ terms[o].lock # <<>>
  /\ IsPrefix(terms[o].lock, nft)
  /\ nft = terms[o].lock => \E t \in mempool : t.kind = "clawback" /\ t.o = o

\* A coin that an option locks is owned by that option.
LocksOwned == \A o \in Opt : terms[o].lock # <<>> => Owner(terms[o].lock) = o

FlagsOK(s) == \A o \in Opt : s.opt[o].reclaimed => Leaving(o)

ClaimInv ==
  /\ \A t \in mempool : TxLive(t)
  /\ LocksOwned
  /\ FlagsOK(state)
  /\ job.at \in {"pushed", "nft", "opt"} => FlagsOK(job.st)

\* Terms that lock a coin are final, and those a step adds lock a coin of their
\* own option.
TermsKept ==
  \A o \in Opt :
    /\ terms[o].lock # <<>> => terms'[o] = terms[o]
    /\ terms[o].lock = <<>> /\ terms'[o].lock # <<>> => Owner(terms'[o].lock) = o

LEMMA OwnedStays == ASSUME LocksOwned, TermsKept PROVE LocksOwned'
  BY DEF LocksOwned, TermsKept, Owner

\* While the NFT stays, so does the clawback; once it has left, it never comes
\* back to the same coin.
LEMMA LeavingStays ==
  ASSUME TypeInv, TermsKept, NEW o \in Opt, Leaving(o),
         nft' = nft \/ \E b \in BOOLEAN, x \in Party \cup Opt : nft' = Passed(nft, b, x),
         nft' = nft => \A t \in mempool : t.kind = "clawback" /\ t.o = o =>
                         \E u \in mempool' : u.kind = "clawback" /\ u.o = o
  PROVE  Leaving(o)'
<1>1. /\ terms[o].lock \in Seq(Hop) /\ nft \in Seq(Hop) /\ nft \in Path(Party \cup Opt)
      /\ terms'[o] = terms[o] /\ terms[o].lock # <<>> /\ IsPrefix(terms[o].lock, nft)
  BY PathFacts DEF TypeInv, ChainOK, Terms, TermsKept, Leaving, NftPath
<1>2. CASE nft' = nft
  BY <1>1, <1>2 DEF Leaving
<1>3. ASSUME NEW b \in BOOLEAN, NEW x \in Party \cup Opt, nft' = Passed(nft, b, x)
      PROVE  Leaving(o)'
  <2>1. IsPrefix(terms[o].lock, nft')
    BY <1>1, <1>3, PrefixPassed DEF Hop
  <2>2. nft' # terms[o].lock
    BY <1>1, <1>3, PassedFacts
  <2>3. QED
    BY <1>1, <2>1, <2>2 DEF Leaving
<1>4. QED
  BY <1>2, <1>3

\* A step that leaves the chain, the terms and the mempool alone.
LEMMA ClaimLocal ==
  ASSUME ClaimInv, UNCHANGED <<nft, opt, melted, terms, expired, mempool>>,
         FlagsOK(state'), job'.at \in {"pushed", "nft", "opt"} => FlagsOK(job'.st)
  PROVE  ClaimInv'
<1>1. \A o \in Opt : Leaving(o)' <=> Leaving(o)
  BY DEF Leaving
<1>2. \A t \in mempool' : TxLive(t)'
  BY DEF ClaimInv, TxLive, InputsLive
<1>3. LocksOwned'
  BY DEF ClaimInv, LocksOwned, Owner
<1>4. QED
  BY <1>1, <1>2, <1>3 DEF ClaimInv, FlagsOK

\* A bundle joins the mempool and pushes no clawback of a flagged option out:
\* what could replace it would need the NFT free, or the deadline ahead.
LEMMA ClaimStays ==
  ASSUME TypeInv, ClaimInv, NEW t, TxOK(t), Valid(t), NEW o \in Opt, Leaving(o),
         nft = terms[o].lock, t.kind = "mint" => t.nft = <<>>,
         NEW u \in mempool, u.kind = "clawback", u.o = o, Conflict(t, u)
  PROVE  t.kind = "clawback" /\ t.o = o
<1>1. nft # <<>> /\ Owner(nft) = o /\ o # Me /\ expired
  BY LifecycleAssumption DEF ClaimInv, LocksOwned, Leaving, TxLive, Party
<1>2. t.kind # "take" /\ t.nft = nft
  BY DEF Conflict, Valid, InputsLive
<1>3. t.kind \notin {"mint", "sweep", "create", "exercise"}
  BY <1>1, <1>2 DEF Valid
<1>4. t.kind = "clawback" /\ t.o \in Opt
  BY <1>2, <1>3 DEF TxOK, Tx
<1>5. t.o = o
  BY <1>1, <1>2, <1>4 DEF Valid, ClaimInv, LocksOwned
<1>6. QED
  BY <1>4, <1>5

LEMMA ClaimSubmit ==
  ASSUME TypeInv, ClaimInv, TermsKept, NEW t, TxOK(t), NEW after, Submit(t, after),
         t.kind = "mint" => t.nft = <<>>,
         t.kind = "clawback" => t.nft # <<>>,
         \A o \in Opt : after.opt[o].reclaimed =>
           state.opt[o].reclaimed \/ (t.kind = "clawback" /\ t.o = o)
  PROVE  ClaimInv'
<1>1. /\ nft' = nft /\ opt' = opt /\ melted' = melted /\ expired' = expired /\ state' = state
      /\ Valid(t) /\ mempool' = {u \in mempool : ~Conflict(t, u)} \cup {t}
  BY DEF Submit, chainVars
<1>2. ASSUME t.kind = "clawback"
      PROVE  t.o \in Opt /\ expired /\ t.nft = nft /\ nft = terms[t.o].lock /\ terms'[t.o] = terms[t.o]
  BY <1>1, <1>2 DEF Valid, InputsLive, TxOK, TermsKept
<1>3. ASSUME NEW u \in mempool' PROVE TxLive(u)'
  <2>1. CASE u = t
    BY <1>1, <1>2, <2>1 DEF TxLive, Valid, InputsLive
  <2>2. CASE u \in mempool
    BY <1>1, <2>2 DEF ClaimInv, TxLive, InputsLive, TypeInv, TxOK, TermsKept
  <2>3. QED
    BY <1>1, <2>1, <2>2
<1>4. ASSUME NEW o \in Opt, Leaving(o) PROVE Leaving(o)'
  <2>1. ASSUME NEW u \in mempool, u.kind = "clawback", u.o = o, nft = terms[o].lock
        PROVE  \E v \in mempool' : v.kind = "clawback" /\ v.o = o
    <3>1. CASE Conflict(t, u)
      BY <1>1, <1>4, <2>1, <3>1, ClaimStays
    <3>2. CASE ~Conflict(t, u)
      BY <1>1, <2>1, <3>2
    <3>3. QED
      BY <3>1, <3>2
  <2>2. terms'[o] = terms[o]
    BY <1>4 DEF Leaving, TermsKept
  <2>3. QED
    BY <1>1, <1>4, <2>1, <2>2 DEF Leaving
<1>5. ASSUME t.kind = "clawback" PROVE Leaving(t.o)'
  <2>1. nft \in Seq(Hop)
    BY PathFacts DEF TypeInv, ChainOK
  <2>2. IsPrefix(nft, nft) /\ t \in mempool'
    BY <1>1, <2>1, PrefixSelf
  <2>3. QED
    BY <1>1, <1>2, <1>5, <2>2 DEF Leaving
<1>6. FlagsOK(state)' /\ FlagsOK(after)'
  BY <1>1, <1>4, <1>5 DEF ClaimInv, FlagsOK
<1>7. LocksOwned'
  BY OwnedStays DEF ClaimInv
<1>8. CASE job' = [at |-> "pushed", st |-> after, taken |-> IF t.kind = "take" THEN t.o ELSE 0]
  <2>1. job'.st = after
    BY <1>8
  <2>2. QED
    BY <1>3, <1>6, <1>7, <2>1 DEF ClaimInv, FlagsOK
<1>9. CASE job' = Idle
  BY <1>3, <1>6, <1>7, <1>9, Blanks DEF ClaimInv
<1>10. QED
  BY <1>8, <1>9 DEF Submit

\* A block: what it leaves in the mempool spends live coins.
LEMMA ClaimBlock ==
  ASSUME TypeInv, ClaimInv, TermsKept, NEW n, NEW op, NEW gone, NEW pool,
         Block(n, op, gone, pool), pool \subseteq mempool,
         UNCHANGED <<expired, state, job>>,
         n = nft \/ \E b \in BOOLEAN, x \in Party \cup Opt : n = Passed(nft, b, x),
         n = nft => \A t \in mempool : t.kind = "clawback" => t \in pool
  PROVE  ClaimInv'
<1>1. /\ nft' = n /\ opt' = op /\ melted' = gone
      /\ mempool' = {u \in pool : InputsLive(u, n, op, gone)}
  BY DEF Block
<1>2. ASSUME NEW u \in mempool' PROVE TxLive(u)'
  BY <1>1 DEF ClaimInv, TxLive, InputsLive, TypeInv, TxOK, TermsKept
<1>3. ASSUME NEW o \in Opt, Leaving(o) PROVE Leaving(o)'
  <2>1. ASSUME nft' = nft, NEW t \in mempool, t.kind = "clawback", t.o = o PROVE t \in mempool'
    <3>1. t \in pool /\ t.nft = n
      BY <1>1, <2>1 DEF ClaimInv, TxLive, InputsLive
    <3>2. QED
      BY <1>1, <2>1, <3>1 DEF InputsLive
  <2>2. QED
    BY <1>1, <1>3, <2>1, LeavingStays
<1>4. FlagsOK(state)' /\ (job.at \in {"pushed", "nft", "opt"} => FlagsOK(job.st)')
  BY <1>3 DEF ClaimInv, FlagsOK
<1>5. LocksOwned'
  BY OwnedStays DEF ClaimInv
<1>6. QED
  BY <1>2, <1>4, <1>5 DEF ClaimInv

LEMMA SameTerms == ASSUME terms' = terms PROVE TermsKept
  BY DEF TermsKept

LEMMA ClaimMints == ASSUME TypeInv, ClaimInv, Mint \/ SweepIncome PROVE ClaimInv'
<1>1. StateOK(state) /\ TxOK(MintTx) /\ TxOK(SweepTx)
  BY SingletonTxsOK DEF TypeInv
<1>2. /\ MintTx.kind = "mint" /\ MintTx.nft = <<>> /\ SweepTx.kind = "sweep"
      /\ MintTx \in Tx /\ SweepTx \in Tx
  BY <1>1 DEF MintTx, SweepTx, NftTx, TxOK
<1>3. ASSUME NEW t \in Tx PROVE WithNft(NftChild(t), "pending").opt = state.opt
  BY <1>1, ChildrenTyped, WithNftOK DEF Phase
<1>4. CASE Mint
  BY <1>1, <1>2, <1>3, <1>4, ClaimSubmit, SameTerms DEF Mint
<1>5. CASE SweepIncome
  BY <1>1, <1>2, <1>3, <1>5, ClaimSubmit, SameTerms DEF SweepIncome
<1>6. QED
  BY <1>4, <1>5

LEMMA ClaimCreate == ASSUME TypeInv, ClaimInv, NEW o \in Opt, Create(o) PROVE ClaimInv'
<1>1. StateOK(state) /\ ChainOK /\ state \in State
  BY DEF TypeInv, StateOK
<1>2. PICK k \in Kinds, creator \in Party, owner \in Party :
        LET t == CreateTx(o, owner) IN
        /\ terms' = [terms EXCEPT ![o] = [lock |-> NftChild(t), kind |-> k, creator |-> creator]]
        /\ Submit(t, [WithNft(NftChild(t), "superseded") EXCEPT
                       !.opt[o] = [coin |-> OptChild(t), phase |-> "pending",
                                   known |-> TRUE, reclaimed |-> FALSE]])
  BY DEF Create
<1> DEFINE t == CreateTx(o, owner)
           w == WithNft(NftChild(t), "superseded")
           rec == [coin |-> OptChild(t), phase |-> "pending", known |-> TRUE, reclaimed |-> FALSE]
<1>3. TxOK(t) /\ t \in Tx /\ t.kind = "create" /\ t.to = o
  BY <1>1, OptionTxsOK DEF CreateTx, NftTx, TxOK
<1>4. Owner(NftChild(t)) = o
  BY <1>3, ChildOwner
<1>5. TermsKept
  <2>1. terms[o].lock = <<>>
    BY DEF Create, NextOpt, NoTerms
  <2>2. QED
    BY <1>1, <1>2, <1>4, <2>1 DEF ChainOK, TermsKept
<1>6. \A p \in Opt : [w EXCEPT !.opt[o] = rec].opt[p].reclaimed => state.opt[p].reclaimed
  <2>1. w.opt = state.opt /\ w \in State
    BY <1>1, <1>3, ChildrenTyped, WithNftOK DEF Phase, StateOK
  <2>2. QED
    BY <1>1, <2>1 DEF State
<1>7. QED
  BY <1>2, <1>3, <1>5, <1>6, ClaimSubmit

LEMMA ClaimMoves ==
  ASSUME TypeInv, ClaimInv, NEW o \in Opt, Take(o) \/ Exercise(o) \/ Clawback(o)
  PROVE  ClaimInv'
<1>1. StateOK(state) /\ ChainOK /\ state \in State
  BY DEF TypeInv, StateOK
<1>2. CASE Take(o)
  <2>1. opt[o] # <<>>
    BY <1>2 DEF Take, LiveOffer, OptStatus, Status
  <2>2. TxOK(TakeTx(o)) /\ TakeTx(o).kind = "take"
    BY <1>1, <2>1, OptionTxsOK DEF TakeTx, NftTx
  <2>3. \A p \in Opt : [state EXCEPT !.opt[o] = Purchased(o)].opt[p].reclaimed
                         => state.opt[p].reclaimed
    BY <1>1 DEF State, Purchased
  <2>4. QED
    BY <1>2, <2>2, <2>3, ClaimSubmit, SameTerms DEF Take
<1>3. CASE Exercise(o)
  <2> DEFINE w == WithNft(NftChild(ExerciseTx(o)), "pending")
  <2>1. TxOK(ExerciseTx(o)) /\ ExerciseTx(o).kind = "exercise" /\ ExerciseTx(o) \in Tx
    BY <1>1, <1>3, OptionTxsOK
    DEF Exercise, ExerciseGuard, ExerciseTx, ReturnTx, TransferTx, NftTx, TxOK
  <2>2. w.opt = state.opt /\ w \in State
    BY <1>1, <2>1, ChildrenTyped, WithNftOK DEF Phase, StateOK
  <2>3. \A p \in Opt : [w EXCEPT !.opt[o].phase = "superseded"].opt[p].reclaimed
                         => state.opt[p].reclaimed
    BY <2>2 DEF State, OptRec
  <2>4. QED
    BY <1>3, <2>1, <2>3, ClaimSubmit, SameTerms DEF Exercise
<1>4. CASE Clawback(o)
  <2>1. PICK to \in Party :
          Submit(ClawbackTx(o, to),
            [WithNft(NftChild(ClawbackTx(o, to)), "pending") EXCEPT !.opt[o].reclaimed = TRUE])
    BY <1>4 DEF Clawback
  <2> DEFINE t == ClawbackTx(o, to)
             w == WithNft(NftChild(t), "pending")
  <2>2. TxOK(t) /\ t.kind = "clawback" /\ t.o = o /\ t.nft = state.nft.coin /\ t \in Tx
    BY <1>1, OptionTxsOK DEF ClawbackTx, NftTx, TxOK
  <2>3. t.nft # <<>>
    BY <1>4, <2>2 DEF Clawback, ClawbackGuard, NftReady, NftStatus, Status
  <2>4. w.opt = state.opt /\ w \in State
    BY <1>1, <2>2, ChildrenTyped, WithNftOK DEF Phase, StateOK
  <2>5. \A p \in Opt : [w EXCEPT !.opt[o].reclaimed = TRUE].opt[p].reclaimed
                         => state.opt[p].reclaimed \/ p = o
    BY <2>4 DEF State, OptRec
  <2>6. TermsKept
    BY <1>4, SameTerms DEF Clawback
  <2>7. QED
    BY <2>1, <2>2, <2>3, <2>5, <2>6, ClaimSubmit
<1>5. QED
  BY <1>2, <1>3, <1>4

LEMMA ClaimNetwork ==
  ASSUME NothingDropped, TypeInv, LinkInv, ClaimInv, Network PROVE ClaimInv'
<1>1. /\ ChainOK /\ Me \in Party \cup Opt /\ Peer \in Party \cup Opt
      /\ nft \in Seq(Hop) /\ Party \cup Opt \subseteq Hop
      /\ \A o \in Opt : o \in Party \cup Opt /\ terms[o].creator \in Party \cup Opt
  BY PathFacts DEF TypeInv, ChainOK, Terms, Party, Hop
<1>2. ASSUME NEW t \in mempool, Confirm(t) PROVE ClaimInv'
  <2> DEFINE n == IF t.kind = "take" THEN nft ELSE NftChild(t)
  <2>1. TermsKept
    BY <1>2, SameTerms DEF Confirm
  <2>2. n = nft \/ \E b \in BOOLEAN, x \in Party \cup Opt : n = Passed(nft, b, x)
    BY <1>2 DEF Confirm, Valid, InputsLive, NftChild, TypeInv, TxOK, Tx
  <2>3. n = nft => t.kind = "take"
    <3>1. ASSUME t.kind # "take" PROVE n # nft
      <4>1. t.to \in Party \cup Opt /\ t.settled \in BOOLEAN /\ n = Passed(nft, t.settled, t.to)
        BY <1>2, <3>1 DEF Confirm, Valid, InputsLive, NftChild, TypeInv, TxOK, Tx
      <4>2. QED
        BY <4>1, NftMoved
    <3>2. QED
      BY <3>1
  <2> HIDE DEF n
  <2>4. n = nft => \A u \in mempool : u.kind = "clawback" => u \in mempool \ {t}
    BY <2>3
  <2>5. QED
    BY <1>2, <2>1, <2>2, <2>4, ClaimBlock DEF Confirm, n
<1>3. CASE Expire
  <2>1. /\ UNCHANGED <<nft, opt, melted, terms, state, job>> /\ expired' = TRUE
        /\ mempool' = {t \in mempool : t.kind # "exercise"}
    BY <1>3 DEF Expire, chainVars
  <2>2. \A t \in mempool' : TxLive(t)'
    BY <2>1 DEF ClaimInv, TxLive, InputsLive
  <2>3. \A o \in Opt : Leaving(o) => Leaving(o)'
    BY <2>1 DEF Leaving
  <2>4. LocksOwned'
    BY <2>1 DEF ClaimInv, LocksOwned, Owner
  <2>5. QED
    BY <2>1, <2>2, <2>3, <2>4 DEF ClaimInv, FlagsOK
<1>4. ASSUME NEW o \in Opt, PeerBuys(o) PROVE ClaimInv'
  BY <1>4, ClaimBlock, SameTerms DEF PeerBuys
<1>5. ASSUME NEW o \in Opt, PeerExercises(o) PROVE ClaimInv'
  <2> DEFINE n == IF terms[o].kind = "transfer" THEN Passed(nft, TRUE, Peer)
                                                ELSE Passed(nft, FALSE, terms[o].creator)
  <2>1. n # nft /\ \E b \in BOOLEAN, x \in Party \cup Opt : n = Passed(nft, b, x)
    BY <1>1, NftMoved
  <2>2. TermsKept /\ Block(n, opt, melted \cup {o}, mempool)
        /\ UNCHANGED <<expired, state, job>>
    BY <1>5, SameTerms DEF PeerExercises
  <2>3. QED
    BY <2>1, <2>2, ClaimBlock
<1>6. ASSUME NEW o \in Opt, PeerCreates(o) PROVE ClaimInv'
  <2>1. PICK k \in Kinds :
          terms' = [terms EXCEPT ![o] = [lock |-> Append(nft, o), kind |-> k, creator |-> Peer]]
    BY <1>6 DEF PeerCreates
  <2>2. TermsKept
    <3>1. terms[o].lock = <<>>
      BY <1>6 DEF PeerCreates, NextOpt, NoTerms
    <3>2. Owner(Append(nft, o)) = o
      BY <1>1, AppendOwner
    <3>3. QED
      BY <1>1, <2>1, <3>1, <3>2 DEF ChainOK, TermsKept
  <2>3. Append(nft, o) # nft /\ Append(nft, o) = Passed(nft, FALSE, o)
    BY <1>1, NftMoved, AppendIsPassed
  <2>4. Block(Append(nft, o), [opt EXCEPT ![o] = <<Peer>>], melted, mempool)
        /\ UNCHANGED <<expired, state, job>>
    BY <1>6 DEF PeerCreates
  <2>5. QED
    BY <1>1, <2>2, <2>3, <2>4, ClaimBlock
<1>7. ASSUME NEW o \in Opt, PeerClawsBack(o) PROVE ClaimInv'
  <2>1. Append(nft, Peer) # nft /\ Append(nft, Peer) = Passed(nft, FALSE, Peer)
    BY <1>1, NftMoved, AppendIsPassed
  <2>2. QED
    BY <1>1, <1>7, <2>1, ClaimBlock, SameTerms DEF PeerClawsBack
<1>8. CASE PeerSends
  <2>1. Append(nft, Me) # nft /\ Append(nft, Me) = Passed(nft, FALSE, Me)
    BY <1>1, NftMoved, AppendIsPassed
  <2>2. QED
    BY <1>1, <1>8, <2>1, ClaimBlock, SameTerms DEF PeerSends
<1>9. QED
  BY <1>2, <1>3, <1>4, <1>5, <1>6, <1>7, <1>8 DEF Network, Drop, NothingDropped

LEMMA ClaimSync == ASSUME TypeInv, ClaimInv, Sync PROVE ClaimInv'
<1>1. StateOK(state) /\ JobOK /\ UNCHANGED <<nft, opt, melted, terms, expired, mempool>>
  BY DEF TypeInv, Sync, BeginSync, SyncNft, SyncOpt, SyncLookupFailed, SaveSync, chainVars
<1>2. ASSUME state' = state, FlagsOK(job'.st) PROVE ClaimInv'
  BY <1>1, <1>2, ClaimLocal DEF ClaimInv
<1>3. CASE BeginSync
  <2>1. PICK refresh \in BOOLEAN :
          job' = [at |-> "nft", st |-> [state EXCEPT !.ph = state.ph \/ refresh]]
    BY <1>3 DEF BeginSync
  <2>2. job'.st.opt = state.opt
    BY <1>1, <2>1 DEF StateOK, State
  <2>3. QED
    BY <1>2, <1>3, <2>2 DEF BeginSync, ClaimInv, FlagsOK
<1>4. CASE SyncNft
  <2>1. job'.st.opt = job.st.opt /\ state' = state /\ FlagsOK(job.st)
    BY <1>1, <1>4 DEF SyncNft, JobOK, StateOK, State, ClaimInv
  <2>2. QED
    BY <1>2, <2>1 DEF FlagsOK
<1>5. CASE SyncOpt
  <2> DEFINE o == job.next
             rec == job.st.opt[o]
             new == Reconciled(rec, opt[o], o \in melted, job.st.ph)
             s == [job.st EXCEPT !.opt[o] = new]
  <2>1. job.st \in State /\ o \in Opt /\ rec \in OptRec /\ FlagsOK(job.st)
    BY <1>1, <1>5 DEF SyncOpt, JobOK, StateOK, State, ClaimInv
  <2>2. new.reclaimed = rec.reclaimed
    BY <2>1 DEF Reconciled, OptRec
  <2>3. job'.st = s
    <3>1. job' = [job EXCEPT !.next = o + 1, !.st.opt[o] = new] /\ job.at = "opt"
      BY <1>5 DEF SyncOpt
    <3>2. QED
      BY <3>1
  <2>4. s.opt = [job.st.opt EXCEPT ![o] = new] /\ job.st.opt \in [Opt -> OptRec]
    BY <2>1 DEF State
  <2>5. FlagsOK(s)
    BY <2>1, <2>2, <2>4 DEF FlagsOK
  <2>6. QED
    BY <1>2, <1>5, <2>3, <2>5 DEF SyncOpt
<1>6. CASE SyncLookupFailed
  <2>1. job'.st = job.st
    <3>1. CASE job' = [at |-> "opt", next |-> 1, st |-> job.st]
      BY <3>1
    <3>2. CASE job.at = "opt" /\ job' = [job EXCEPT !.next = @ + 1]
      BY <3>2
    <3>3. QED
      BY <1>6, <3>1, <3>2 DEF SyncLookupFailed
  <2>2. FlagsOK(job.st)
    BY <1>6 DEF SyncLookupFailed, ClaimInv
  <2>3. QED
    BY <1>2, <1>6, <2>1, <2>2 DEF SyncLookupFailed
<1>7. CASE SaveSync
  BY <1>1, <1>7, Blanks, ClaimLocal DEF SaveSync, ClaimInv
<1>8. QED
  BY <1>3, <1>4, <1>5, <1>6, <1>7 DEF Sync

LEMMA ClaimNext ==
  ASSUME NothingDropped, TypeInv, LinkInv, ClaimInv, [Next]_vars PROVE ClaimInv'
<1>1. StateOK(state) /\ JobOK /\ FlagsOK(state)
  BY DEF TypeInv, ClaimInv
<1>2. ASSUME UNCHANGED <<nft, opt, melted, terms, expired, mempool>>, FlagsOK(state'),
             job' = job \/ job'.at \in {"idle", "recover"}
      PROVE  ClaimInv'
  BY <1>2, ClaimLocal DEF ClaimInv
<1>3. ASSUME NEW o \in Opt, state' = Recovered(o) PROVE FlagsOK(state')
  <2>1. \A p \in Opt : state'.opt[p].reclaimed = state.opt[p].reclaimed
    BY <1>1, <1>3 DEF Recovered, StateOK, State, OptRec
  <2>2. QED
    BY <1>1, <2>1 DEF FlagsOK
<1>4. ASSUME NEW o \in Opt, Offer(o) \/ Recover(o) PROVE ClaimInv'
  BY <1>1, <1>2, <1>3, <1>4 DEF Offer, Recover, chainVars
<1>5. CASE Save
  <2>1. FlagsOK(state') /\ job'.at \in {"idle", "recover"}
    BY <1>5, Blanks DEF Save, ClaimInv
  <2>2. QED
    BY <1>2, <1>5, <2>1 DEF Save, chainVars
<1>6. CASE RecoverTaken
  BY <1>1, <1>2, <1>3, <1>6, Blanks DEF RecoverTaken, chainVars, JobOK
<1>7. CASE RecoverTakenFailed \/ Crash
  BY <1>1, <1>2, <1>7, Blanks DEF RecoverTakenFailed, Crash, chainVars
<1>8. CASE UNCHANGED vars
  BY <1>1, <1>2, <1>8 DEF vars
<1>9. QED
  BY <1>4, <1>5, <1>6, <1>7, <1>8, ClaimMints, ClaimCreate, ClaimMoves, ClaimSync, ClaimNetwork
  DEF Next, Command

\* A mempool that forgets nothing makes the reclaimed flag true: the NFT has
\* left the option, or will with the clawback in the mempool, which nothing can
\* replace (main.rs, cmd_option_clawback, sets the flag before the bundle is in a
\* block).  Races, crashes, lost replies and failed lookups do not matter.
THEOREM ReclaimedStaysTrue == NothingDropped => (Spec => []ReclaimedIsTrue)
<1> SUFFICES ASSUME NothingDropped PROVE Spec => []ReclaimedIsTrue
  OBVIOUS
<1>1. Init => ClaimInv
  <2> SUFFICES ASSUME Init PROVE ClaimInv
    OBVIOUS
  <2>1. PICK b \in BOOLEAN : state = [nft |-> NoNft, opt |-> [o \in Opt |-> NoOption], ph |-> b]
    BY DEF Init
  <2>2. FlagsOK(state)
    BY <2>1 DEF FlagsOK, NoOption
  <2>3. LocksOwned
    BY DEF Init, LocksOwned, NoTerms
  <2>4. QED
    BY <2>2, <2>3, Blanks DEF Init, ClaimInv
<1>2. TypeInv /\ LinkInv /\ ClaimInv /\ [Next]_vars => ClaimInv'
  BY ClaimNext
<1>3. ClaimInv => ReclaimedIsTrue
  BY DEF ClaimInv, FlagsOK, Leaving, ReclaimedIsTrue
<1>4. QED
  BY LinkInvariant, <1>1, <1>2, <1>3, PTL DEF Spec
=============================================================================
