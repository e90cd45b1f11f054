------------------------ MODULE CoinReservation_proofs ------------------------
(* Theorems about CoinReservation, for every set of coins. *)
EXTENDS CoinReservation, TLAPS

\* One invocation of the program at a time.
OneProcess == \E p \in Proc : Proc = {p}

\* No command stops between having its bundle accepted and saving its record.
NoInterruption == "crash" \notin Faults /\ "lost_reply" \notin Faults

-----------------------------------------------------------------------------
(* Type correctness holds whatever runs and whatever goes wrong. *)

LEMMA InitTypeOK == Init => TypeOK
  BY ReservationAssumption DEF Init, TypeOK, PCs

\* What a command submits is a bundle, and the coins of it are new ids.
LEMMA BundleTyped ==
  ASSUME TypeOK, NEW p \in Proc, pc[p] = "spend_ready",
         NEW w \in Coin \ ids, NEW cs \in ChangeOf(plan[p], w)
  PROVE  /\ BundleOf(plan[p], w, cs) \in Bundle
         /\ BundleOf(plan[p], w, cs).spent = plan[p].spent
         /\ BundleOf(plan[p], w, cs).watch = w
         /\ BundleOf(plan[p], w, cs).mine \subseteq Coin \ ids
<1>1. plan[p] \in Plan
  BY DEF TypeOK
<1>2. cs \subseteq Coin \ ids
  BY DEF ChangeOf
<1>3. cs \cup (IF plan[p].own THEN {w} ELSE {}) \subseteq Coin \ ids
  BY <1>2
<1>4. plan[p].spent \in (SUBSET Coin) \ {{}}
  BY <1>1 DEF Plan
<1>5. QED
  BY <1>3, <1>4 DEF BundleOf, Bundle

LEMMA NextTypeOK == TypeOK /\ [Next]_vars => TypeOK'
<1> SUFFICES ASSUME TypeOK, [Next]_vars PROVE TypeOK'
  OBVIOUS
<1> USE DEF TypeOK, PCs, chainVars, procVars
<1>1. ASSUME NEW p \in Proc, BeginSpend(p) PROVE TypeOK'
  BY <1>1 DEF BeginSpend
<1>2. ASSUME NEW p \in Proc, FetchCoins(p) PROVE TypeOK'
  BY <1>2 DEF FetchCoins, UnspentCoins
<1>3. ASSUME NEW p \in Proc, SelectAmount(p) \/ SelectAll(p) \/ SelectConsolidate(p)
      PROVE  TypeOK'
  <2>1. PICK s \in (SUBSET avail[p]) \ {{}}, own \in BOOLEAN, change \in BOOLEAN :
          plan' = [plan EXCEPT ![p] = [spent |-> s, own |-> own, change |-> change]]
    BY <1>3 DEF SelectAmount, SelectAll, SelectConsolidate
  <2>2. [spent |-> s, own |-> own, change |-> change] \in Plan
    BY DEF Plan
  <2>3. plan' \in [Proc -> Plan \cup {None}] /\ plan'[p] \in Plan
    BY <2>1, <2>2
  <2>4. QED
    BY <1>3, <2>1, <2>3 DEF SelectAmount, SelectAll, SelectConsolidate
<1>6. ASSUME NEW p \in Proc, Push(p) PROVE TypeOK'
  <2>1. PICK w \in Coin \ ids : \E cs \in ChangeOf(plan[p], w) :
          /\ Accept(BundleOf(plan[p], w, cs))
          /\ sent' = [sent EXCEPT ![p] = BundleOf(plan[p], w, cs)]
    BY <1>6 DEF Push
  <2>2. QED
    BY <1>6, <2>1, BundleTyped DEF Push, Accept
<1>7. ASSUME NEW p \in Proc, PushLost(p) PROVE TypeOK'
  <2>1. PICK w \in Coin \ ids :
          \E cs \in ChangeOf(plan[p], w) : Accept(BundleOf(plan[p], w, cs))
    BY <1>7 DEF PushLost
  <2>2. QED
    BY <1>7, <2>1, BundleTyped DEF PushLost, Accept, Exit
<1>8. ASSUME NEW p \in Proc, Save(p) PROVE TypeOK'
  BY <1>8 DEF Save, Exit, Rec, TxRecord, Bundle
<1>9. ASSUME NEW p \in Proc, GiveUp(p) \/ Crash(p) PROVE TypeOK'
  BY <1>9 DEF GiveUp, Crash, Exit
<1>10. ASSUME NEW p \in Proc, BeginSync(p) PROVE TypeOK'
  BY <1>10 DEF BeginSync
<1>11. ASSUME NEW p \in Proc, Prune(p) \/ PruneFailed(p) PROVE TypeOK'
  BY <1>11 DEF Prune, PruneFailed, Unsettled
<1>12. ASSUME NEW p \in Proc, SaveSync(p) PROVE TypeOK'
  BY <1>12 DEF SaveSync, Exit
<1>13. ASSUME NEW t \in mempool, Confirm(t) PROVE TypeOK'
  BY <1>13 DEF Confirm
<1>14. ASSUME NEW t \in mempool, Drop(t) PROVE TypeOK'
  BY <1>14 DEF Drop
<1>15. CASE UNCHANGED vars
  BY <1>15 DEF vars
<1>16. QED
  BY <1>1, <1>2, <1>3, <1>6, <1>7, <1>8, <1>9, <1>10, <1>11, <1>12,
     <1>13, <1>14, <1>15 DEF Next, Command, Network

\* Every variable of CoinReservation keeps its type (TypeOK), whatever the
\* processes do, however many run and whatever fails.
THEOREM TypeCorrect == Spec => []TypeOK
  BY InitTypeOK, NextTypeOK, PTL DEF Spec

-----------------------------------------------------------------------------
(* One invocation at a time: what a process has in memory is still true of *)
(* the file.                                                               *)

\* The log only changes when a command saves, and then it ends.
MemoryFresh ==
  \A p \in Proc :
    /\ pc[p] \in {"spend_loaded", "spend_fetched", "spend_ready", "spend_pushed", "sync_loaded"}
         => mem[p] = log
    /\ pc[p] = "sync_classified"
         => mem[p] \subseteq log /\ \A r \in log : r \in mem[p] \/ r.watch \in chain

\* What is offered, and then what is selected, is not reserved.
Unreserved ==
  \A p \in Proc :
    /\ pc[p] = "spend_fetched" => avail[p] \cap Reserved(log) = {}
    /\ pc[p] = "spend_ready" => plan[p].spent \cap Reserved(log) = {}

LEMMA InitMemory == Init => MemoryFresh /\ Unreserved
  BY DEF Init, MemoryFresh, Unreserved

LEMMA NextMemory ==
  ASSUME OneProcess, TypeOK, MemoryFresh, Unreserved, [Next]_vars
  PROVE  MemoryFresh' /\ Unreserved'
<1> USE DEF MemoryFresh, Unreserved, TypeOK, chainVars, procVars
<1>1. PICK self \in Proc : Proc = {self}
  BY DEF OneProcess
<1>2. CASE BeginSpend(self) \/ BeginSync(self)
  BY <1>1, <1>2 DEF BeginSpend, BeginSync
<1>3. CASE FetchCoins(self)
  BY <1>1, <1>3 DEF FetchCoins
<1>4. CASE SelectAmount(self) \/ SelectAll(self) \/ SelectConsolidate(self)
  <2>1. PICK s \in (SUBSET avail[self]) \ {{}}, own \in BOOLEAN, change \in BOOLEAN :
          plan' = [plan EXCEPT ![self] = [spent |-> s, own |-> own, change |-> change]]
    BY <1>4 DEF SelectAmount, SelectAll, SelectConsolidate
  <2>2. plan'[self].spent \cap Reserved(log) = {}
    BY <1>4, <2>1 DEF SelectAmount, SelectAll, SelectConsolidate
  <2>3. QED
    BY <1>1, <1>4, <2>2 DEF SelectAmount, SelectAll, SelectConsolidate
<1>5. CASE Push(self)
  BY <1>1, <1>5 DEF Push, Accept
<1>6. CASE PushLost(self) \/ Save(self) \/ GiveUp(self) \/ SaveSync(self) \/ Crash(self)
  BY <1>1, <1>6 DEF PushLost, Save, GiveUp, SaveSync, Crash, Exit
<1>7. CASE Prune(self) \/ PruneFailed(self)
  BY <1>1, <1>7 DEF Prune, PruneFailed, Unsettled, Status
<1>8. CASE Network
  BY <1>1, <1>8 DEF Network, Confirm, Drop
<1>9. CASE UNCHANGED vars
  BY <1>1, <1>9 DEF vars
<1>10. QED
  BY <1>1, <1>2, <1>3, <1>4, <1>5, <1>6, <1>7, <1>8, <1>9 DEF Next, Command

LEMMA MemoryHolds == OneProcess => (Spec => [](TypeOK /\ MemoryFresh /\ Unreserved))
<1> SUFFICES ASSUME OneProcess PROVE Spec => [](TypeOK /\ MemoryFresh /\ Unreserved)
  OBVIOUS
<1>1. Init => TypeOK /\ MemoryFresh /\ Unreserved
  BY InitTypeOK, InitMemory
<1>2. TypeOK /\ MemoryFresh /\ Unreserved /\ [Next]_vars => (TypeOK /\ MemoryFresh /\ Unreserved)'
  BY NextTypeOK, NextMemory
<1>3. QED
  BY <1>1, <1>2, PTL DEF Spec

\* With one invocation at a time no command forgets a pending transaction
\* (NoLostRecord), even when commands crash, replies are lost and bundles are
\* dropped: a record leaves the log only when its watch coin is on chain.
THEOREM RecordsAreKept == OneProcess => (Spec => NoLostRecord)
<1> SUFFICES ASSUME OneProcess PROVE Spec => NoLostRecord
  OBVIOUS
<1> DEFINE Kept == \A r \in log : r \in log' \/ r.watch \in chain
<1>1. TypeOK /\ MemoryFresh /\ Unreserved /\ [Next]_vars => [Kept]_vars
  <2> SUFFICES ASSUME TypeOK, MemoryFresh, Next PROVE Kept
    OBVIOUS
  <2> USE DEF MemoryFresh
  <2>1. ASSUME NEW p \in Proc, Save(p) \/ SaveSync(p) PROVE Kept
    BY <2>1 DEF Save, SaveSync
  <2>2. ASSUME NEW p \in Proc, Command(p), ~Save(p), ~SaveSync(p) PROVE Kept
    BY <2>2 DEF Command, BeginSpend, FetchCoins, SelectAmount, SelectAll, SelectConsolidate,
                Push, PushLost, GiveUp, BeginSync, Prune, PruneFailed, Crash
  <2>3. CASE Network
    BY <2>3 DEF Network, Confirm, Drop
  <2>4. QED
    BY <2>1, <2>2, <2>3 DEF Next
<1>2. QED
  BY MemoryHolds, <1>1, PTL DEF Spec, NoLostRecord

\* With one invocation at a time a command never submits against a bundle that
\* the log records (ResubmitOnlyUnlogged), whatever fails in between.
THEOREM LoggedBundlesAreSafe == OneProcess => (Spec => []ResubmitOnlyUnlogged)
<1> SUFFICES ASSUME OneProcess PROVE Spec => []ResubmitOnlyUnlogged
  OBVIOUS
<1>1. Unreserved => ResubmitOnlyUnlogged
  <2> SUFFICES ASSUME Unreserved, NEW p \in Proc, pc[p] = "spend_ready",
                      NEW t \in mempool, Rec(t) \in log
               PROVE  plan[p].spent \cap t.spent = {}
    BY DEF ResubmitOnlyUnlogged
  <2>1. Rec(t).spent = t.spent
    BY DEF Rec
  <2>2. t.spent \subseteq Reserved(log)
    BY <2>1 DEF Reserved
  <2>3. QED
    BY <2>2 DEF Unreserved
<1>2. QED
  BY MemoryHolds, <1>1, PTL

-----------------------------------------------------------------------------
(* One invocation at a time, never interrupted after its push: every bundle *)
(* in flight has its record, and no prune takes that record away.           *)

\* A bundle in flight is in the log, or its command is about to put it there.
Logged ==
  \A t \in mempool :
    Rec(t) \in log \/ \E p \in Proc : pc[p] = "spend_pushed" /\ sent[p] = t

\* The watch coin of a bundle in flight is not on chain, and no other bundle
\* in flight creates it.
WatchesFresh ==
  \A t \in mempool :
    /\ t.watch \notin chain
    /\ \A u \in mempool \ {t} : u.watch # t.watch /\ t.watch \notin u.mine

FlightInv == TypeOK /\ MemoryFresh /\ Unreserved /\ Logged /\ WatchesFresh

LEMMA NextWatches ==
  ASSUME TypeOK, WatchesFresh, [Next]_vars
  PROVE  WatchesFresh'
<1> USE DEF WatchesFresh, TypeOK, chainVars, procVars
<1>1. ASSUME NEW p \in Proc, Push(p) \/ PushLost(p) PROVE WatchesFresh'
  <2>1. PICK w \in Coin \ ids :
          \E cs \in ChangeOf(plan[p], w) : Accept(BundleOf(plan[p], w, cs))
    BY <1>1 DEF Push, PushLost
  <2>2. PICK cs \in ChangeOf(plan[p], w) : Accept(BundleOf(plan[p], w, cs))
    BY <2>1
  <2> DEFINE t == BundleOf(plan[p], w, cs)
  <2>3. t.watch = w /\ t.mine \subseteq Coin \ ids
    BY <1>1, BundleTyped DEF Push, PushLost
  <2>4. mempool' \subseteq mempool \cup {t} /\ chain' = chain
    BY <2>2 DEF Accept
  <2> HIDE DEF t
  <2>5. QED
    BY <2>3, <2>4
<1>2. ASSUME NEW t \in mempool, Confirm(t) PROVE WatchesFresh'
  BY <1>2 DEF Confirm
<1>3. ASSUME NEW t \in mempool, Drop(t) PROVE WatchesFresh'
  BY <1>3 DEF Drop
<1>4. ASSUME NEW p \in Proc, Command(p), ~Push(p), ~PushLost(p) PROVE WatchesFresh'
  BY <1>4 DEF Command, BeginSpend, FetchCoins, SelectAmount, SelectAll, SelectConsolidate,
              Save, GiveUp, BeginSync, Prune, PruneFailed, SaveSync, Crash
<1>5. CASE UNCHANGED vars
  BY <1>5 DEF vars
<1>6. QED
  BY <1>1, <1>2, <1>3, <1>4, <1>5 DEF Next, Network

LEMMA NextLogged ==
  ASSUME OneProcess, NoInterruption, FlightInv, [Next]_vars
  PROVE  Logged'
<1> USE DEF Logged, FlightInv, chainVars, procVars
<1>1. PICK self \in Proc : Proc = {self}
  BY DEF OneProcess
<1>2. CASE Push(self)
  <2>1. \A t \in mempool : Rec(t) \in log
    BY <1>1, <1>2 DEF Push
  <2>2. mempool' \subseteq mempool \cup {sent'[self]} /\ log' = log /\ pc'[self] = "spend_pushed"
    BY <1>2 DEF Push, Accept, TypeOK
  <2>3. QED
    BY <1>1, <2>1, <2>2 DEF Rec
<1>3. CASE Save(self)
  <2>1. \A t \in mempool : Rec(t) \in log'
    BY <1>1, <1>3 DEF Save, MemoryFresh
  <2>2. mempool' = mempool
    BY <1>3 DEF Save
  <2>3. QED
    BY <2>1, <2>2 DEF Rec
<1>4. CASE SaveSync(self)
  <2>1. \A t \in mempool : Rec(t) \in log
    BY <1>1, <1>4 DEF SaveSync
  <2>2. \A t \in mempool : Rec(t) \in log'
    BY <1>1, <1>4, <2>1 DEF SaveSync, MemoryFresh, WatchesFresh, Rec
  <2>3. mempool' = mempool
    BY <1>4 DEF SaveSync
  <2>4. QED
    BY <2>2, <2>3 DEF Rec
<1>5. CASE Network
  BY <1>5 DEF Network, Confirm, Drop, Rec
<1>6. CASE PushLost(self) \/ Crash(self)
  BY <1>6 DEF PushLost, Crash, NoInterruption
<1>7. CASE \/ BeginSpend(self) \/ FetchCoins(self) \/ GiveUp(self)
           \/ SelectAmount(self) \/ SelectAll(self) \/ SelectConsolidate(self)
           \/ BeginSync(self) \/ Prune(self) \/ PruneFailed(self)
  <2>1. \A t \in mempool : Rec(t) \in log
    BY <1>1, <1>7 DEF BeginSpend, FetchCoins, GiveUp, SelectAmount, SelectAll,
                     SelectConsolidate, BeginSync, Prune, PruneFailed
  <2>2. mempool' = mempool /\ log' = log
    BY <1>7 DEF BeginSpend, FetchCoins, GiveUp, SelectAmount, SelectAll,
                SelectConsolidate, BeginSync, Prune, PruneFailed
  <2>3. QED
    BY <2>1, <2>2 DEF Rec
<1>8. CASE UNCHANGED vars
  BY <1>8 DEF vars, Rec
<1>9. QED
  BY <1>1, <1>2, <1>3, <1>4, <1>5, <1>6, <1>7, <1>8 DEF Next, Command

LEMMA InitFlight == Init => FlightInv
  BY InitTypeOK, InitMemory DEF FlightInv, Init, Logged, WatchesFresh

LEMMA NextFlight ==
  ASSUME OneProcess, NoInterruption, FlightInv, [Next]_vars
  PROVE  FlightInv'
  BY NextTypeOK, NextMemory, NextWatches, NextLogged DEF FlightInv

\* A command about to submit has avoided every bundle in flight: each of them
\* is in the log, and what it selected is not reserved.
LEMMA FlightIsSafe ==
  ASSUME OneProcess, FlightInv
  PROVE  NoResubmit
<1> SUFFICES ASSUME NEW p \in Proc, pc[p] = "spend_ready", NEW t \in mempool
             PROVE  plan[p].spent \cap t.spent = {}
  BY DEF NoResubmit, InFlight
<1>1. Rec(t) \in log
  BY DEF FlightInv, Logged, OneProcess
<1>2. Rec(t).spent = t.spent
  BY DEF Rec
<1>3. t.spent \subseteq Reserved(log)
  BY <1>1, <1>2 DEF Reserved
<1>4. QED
  BY <1>3 DEF FlightInv, Unreserved

\* With one invocation at a time, none interrupted between its push and its
\* save, no command goes on to spend a coin of a bundle still in flight
\* (NoResubmit): the reservation of pending inputs does what it is for.
THEOREM ReservationIsSound == OneProcess /\ NoInterruption => (Spec => []NoResubmit)
<1> SUFFICES ASSUME OneProcess, NoInterruption PROVE Spec => []NoResubmit
  OBVIOUS
<1>1. FlightInv /\ [Next]_vars => FlightInv'
  BY NextFlight
<1>2. FlightInv => NoResubmit
  BY FlightIsSafe
<1>3. QED
  BY InitFlight, <1>1, <1>2, PTL DEF Spec

-----------------------------------------------------------------------------
(* One invocation at a time, and a mempool that forgets nothing: what the   *)
(* log reserves is still to settle, or has settled.                         *)

NothingDropped == "drop" \notin Faults

\* The bundle of a record is in flight or in a block.
Settling(r) == r.watch \in chain \/ \E t \in mempool : Rec(t) = r

\* So it is for the log, and for the record a command is about to append.
Justified ==
  /\ \A r \in log : Settling(r)
  /\ \A p \in Proc : pc[p] = "spend_pushed" => Settling(Rec(sent[p]))

JustifiedInv == TypeOK /\ MemoryFresh /\ Unreserved /\ Justified

\* A bundle the node accepts replaces none that the log records.
LEMMA AcceptKeepsLogged ==
  ASSUME Unreserved, NEW p \in Proc, pc[p] = "spend_ready",
         NEW w, NEW cs, Accept(BundleOf(plan[p], w, cs)),
         NEW r \in log, Settling(r)
  PROVE  Settling(r)'
<1> DEFINE t == BundleOf(plan[p], w, cs)
<1>1. chain' = chain /\ mempool' = {u \in mempool : u.spent \cap t.spent = {}} \cup {t}
  BY DEF Accept
<1>2. t.spent = plan[p].spent /\ plan[p].spent \cap Reserved(log) = {}
  BY DEF BundleOf, Unreserved
<1>3. CASE r.watch \in chain
  BY <1>1, <1>3 DEF Settling
<1>4. ASSUME NEW u \in mempool, Rec(u) = r PROVE Settling(r)'
  <2>1. u.spent \subseteq Reserved(log)
    BY <1>4 DEF Rec, Reserved
  <2>2. u \in mempool'
    BY <1>1, <1>2, <2>1
  <2>3. QED
    BY <1>4, <2>2 DEF Settling, Rec
<1>5. QED
  BY <1>3, <1>4 DEF Settling

\* A block settles the bundle it takes and no other.
LEMMA ConfirmKeepsSettling ==
  ASSUME NEW t \in mempool, Confirm(t), NEW r, Settling(r)
  PROVE  Settling(r)'
<1>1. chain \subseteq chain' /\ t.watch \in chain' /\ mempool' = mempool \ {t}
  BY DEF Confirm
<1>2. CASE r.watch \in chain
  BY <1>1, <1>2 DEF Settling
<1>3. ASSUME NEW u \in mempool, Rec(u) = r PROVE Settling(r)'
  <2>1. CASE u = t
    BY <1>1, <1>3, <2>1 DEF Settling, Rec
  <2>2. CASE u # t
    <3>1. u \in mempool'
      BY <1>1, <2>2
    <3>2. QED
      BY <1>3, <3>1 DEF Settling, Rec
  <2>3. QED
    BY <2>1, <2>2
<1>4. QED
  BY <1>2, <1>3 DEF Settling

LEMMA NextJustified ==
  ASSUME OneProcess, NothingDropped, JustifiedInv, [Next]_vars
  PROVE  Justified'
<1> USE DEF JustifiedInv, chainVars, procVars
<1>1. PICK self \in Proc : Proc = {self}
  BY DEF OneProcess
<1>2. CASE Push(self)
  <2>1. PICK w \in Coin \ ids : \E cs \in ChangeOf(plan[self], w) :
          /\ Accept(BundleOf(plan[self], w, cs))
          /\ sent' = [sent EXCEPT ![self] = BundleOf(plan[self], w, cs)]
    BY <1>2 DEF Push
  <2>2. PICK cs : /\ Accept(BundleOf(plan[self], w, cs))
                  /\ sent' = [sent EXCEPT ![self] = BundleOf(plan[self], w, cs)]
    BY <2>1
  <2>3. \A r \in log : Settling(r)'
    BY <1>2, <2>2, AcceptKeepsLogged DEF Push, Justified
  <2>4. sent'[self] \in mempool'
    BY <2>2 DEF Accept, TypeOK
  <2>5. Settling(Rec(sent[self]))'
    BY <2>4 DEF Settling, Rec
  <2>6. QED
    BY <1>1, <1>2, <2>3, <2>5 DEF Push, Justified, Rec
<1>3. CASE PushLost(self)
  <2>1. PICK w \in Coin \ ids :
          \E cs \in ChangeOf(plan[self], w) : Accept(BundleOf(plan[self], w, cs))
    BY <1>3 DEF PushLost
  <2>2. \A r \in log : Settling(r)'
    BY <1>3, <2>1, AcceptKeepsLogged DEF PushLost, Justified
  <2>3. QED
    BY <1>1, <1>3, <2>2 DEF PushLost, Exit, Justified, TypeOK
<1>4. CASE Save(self)
  <2>1. log' = log \cup {Rec(sent[self])} /\ mempool' = mempool /\ chain' = chain
    BY <1>1, <1>4 DEF Save, MemoryFresh
  <2>2. \A r \in log' : Settling(r)'
    BY <1>4, <2>1 DEF Save, Justified, Settling, Rec
  <2>3. QED
    BY <1>1, <1>4, <2>2 DEF Save, Exit, Justified, TypeOK
<1>5. CASE SaveSync(self)
  <2>1. log' \subseteq log /\ mempool' = mempool /\ chain' = chain
    BY <1>1, <1>5 DEF SaveSync, MemoryFresh
  <2>2. \A r \in log' : Settling(r)'
    BY <2>1 DEF Justified, Settling, Rec
  <2>3. QED
    BY <1>1, <1>5, <2>2 DEF SaveSync, Exit, Justified, TypeOK
<1>6. CASE Network
  <2>1. PICK t \in mempool : Confirm(t)
    BY <1>6 DEF Network, Drop, NothingDropped
  <2>2. log' = log /\ pc' = pc /\ sent' = sent
    BY <2>1 DEF Confirm
  <2>3. \A r \in log : Settling(r)'
    BY <2>1, ConfirmKeepsSettling DEF Justified
  <2>4. \A p \in Proc : pc[p] = "spend_pushed" => Settling(Rec(sent[p]))'
    <3> SUFFICES ASSUME NEW p \in Proc, pc[p] = "spend_pushed" PROVE Settling(Rec(sent[p]))'
      OBVIOUS
    <3> DEFINE r == Rec(sent[p])
    <3>1. Settling(r)
      BY DEF Justified
    <3>2. r' = r
      BY <2>2 DEF Rec
    <3> HIDE DEF r
    <3>3. (r.watch \in chain \/ \E u \in mempool : Rec(u) = r)'
      BY <2>1, <3>1, <3>2, ConfirmKeepsSettling DEF Settling, Rec
    <3>4. QED
      BY <3>3 DEF Settling, r
  <2>5. QED
    BY <2>2, <2>3, <2>4 DEF Justified
<1>7. CASE \/ BeginSpend(self) \/ FetchCoins(self) \/ GiveUp(self) \/ Crash(self)
           \/ SelectAmount(self) \/ SelectAll(self) \/ SelectConsolidate(self)
           \/ BeginSync(self) \/ Prune(self) \/ PruneFailed(self)
  <2>1. log' = log /\ mempool' = mempool /\ chain' = chain /\ pc'[self] # "spend_pushed"
    BY <1>7 DEF BeginSpend, FetchCoins, GiveUp, Crash, Exit, SelectAmount, SelectAll,
                SelectConsolidate, BeginSync, Prune, PruneFailed, TypeOK
  <2>2. QED
    BY <1>1, <2>1 DEF Justified, Settling, Rec
<1>8. CASE UNCHANGED vars
  BY <1>8 DEF vars, Justified, Settling, Rec
<1>9. QED
  BY <1>1, <1>2, <1>3, <1>4, <1>5, <1>6, <1>7, <1>8 DEF Next, Command

\* With one invocation at a time and a mempool that forgets nothing, a coin is
\* only ever kept from the selection for a bundle that is in flight or in a
\* block (ReservationsJustified, main.rs wallet_spendable_coins): neither a
\* crash, nor a lost reply, nor a bundle that replaces another leaves a record
\* in the log whose bundle can no longer settle.
THEOREM ReservationsAreJustified ==
  OneProcess /\ NothingDropped => (Spec => []ReservationsJustified)
<1> SUFFICES ASSUME OneProcess, NothingDropped PROVE Spec => []ReservationsJustified
  OBVIOUS
<1>1. Init => JustifiedInv
  BY InitTypeOK, InitMemory DEF JustifiedInv, Init, Justified
<1>2. JustifiedInv /\ [Next]_vars => JustifiedInv'
  BY NextTypeOK, NextMemory, NextJustified DEF JustifiedInv
<1>3. JustifiedInv => ReservationsJustified
  BY DEF JustifiedInv, Justified, Settling, ReservationsJustified
<1>4. QED
  BY <1>1, <1>2, <1>3, PTL DEF Spec

-----------------------------------------------------------------------------
(* The wallet implements SpendLedger.                                      *)

\* The outputs of a bundle in flight are not on chain, and no other creates them.
OutputsFresh ==
  \A t \in mempool :
    /\ Outputs(t) \cap chain = {}
    /\ \A u \in mempool \ {t} : Outputs(t) \cap Outputs(u) = {}

\* No two bundles in flight take the same coin.
InputsApart == \A t, u \in mempool : t # u => t.spent \cap u.spent = {}

LedgerInv == FlightInv /\ OutputsFresh /\ InputsApart

\* What the node accepts is new to the chain and to the mempool.
LEMMA AcceptApart ==
  ASSUME TypeOK, OutputsFresh, InputsApart,
         NEW t, t.mine \subseteq Coin \ ids, t.watch \in Coin \ ids, Accept(t)
  PROVE  OutputsFresh' /\ InputsApart'
<1>1. mempool' = {u \in mempool : u.spent \cap t.spent = {}} \cup {t} /\ chain' = chain
  BY DEF Accept
<1>2. Outputs(t) \cap ids = {}
  BY DEF Outputs
<1>3. \A u \in mempool : Outputs(u) \subseteq ids
  BY DEF TypeOK, Outputs
<1>4. chain \subseteq ids
  BY DEF TypeOK
<1>5. OutputsFresh'
  BY <1>1, <1>2, <1>3, <1>4 DEF OutputsFresh, Outputs
<1>6. InputsApart'
  BY <1>1 DEF InputsApart
<1>7. QED
  BY <1>5, <1>6

LEMMA NextApart ==
  ASSUME TypeOK, OutputsFresh, InputsApart, [Next]_vars
  PROVE  OutputsFresh' /\ InputsApart'
<1> USE DEF chainVars, procVars
<1>1. ASSUME NEW p \in Proc, Push(p) \/ PushLost(p) PROVE OutputsFresh' /\ InputsApart'
  <2>1. PICK w \in Coin \ ids :
          \E cs \in ChangeOf(plan[p], w) : Accept(BundleOf(plan[p], w, cs))
    BY <1>1 DEF Push, PushLost
  <2>2. PICK cs \in ChangeOf(plan[p], w) : Accept(BundleOf(plan[p], w, cs))
    BY <2>1
  <2>3. /\ BundleOf(plan[p], w, cs).watch = w
        /\ BundleOf(plan[p], w, cs).mine \subseteq Coin \ ids
    BY <1>1, BundleTyped DEF Push, PushLost
  <2>4. QED
    BY <2>2, <2>3, AcceptApart
<1>2. ASSUME NEW t \in mempool, Confirm(t) PROVE OutputsFresh' /\ InputsApart'
  <2>1. chain' = chain \cup Outputs(t) /\ mempool' = mempool \ {t}
    BY <1>2 DEF Confirm, Outputs
  <2>2. OutputsFresh'
    <3> SUFFICES ASSUME NEW u \in mempool \ {t}
                 PROVE  /\ Outputs(u) \cap (chain \cup Outputs(t)) = {}
                        /\ \A v \in mempool \ {u} : Outputs(u) \cap Outputs(v) = {}
      BY <2>1 DEF OutputsFresh, Outputs
    <3>1. QED
      BY DEF OutputsFresh
  <2>3. QED
    BY <2>1, <2>2 DEF InputsApart
<1>3. ASSUME NEW t \in mempool, Drop(t) PROVE OutputsFresh' /\ InputsApart'
  BY <1>3 DEF Drop, OutputsFresh, InputsApart, Outputs
<1>4. CASE mempool' = mempool /\ chain' = chain
  BY <1>4 DEF OutputsFresh, InputsApart, Outputs
<1>5. ASSUME NEW p \in Proc, Command(p), ~Push(p), ~PushLost(p)
      PROVE  mempool' = mempool /\ chain' = chain
  BY <1>5 DEF Command, BeginSpend, FetchCoins, SelectAmount, SelectAll, SelectConsolidate,
              Save, GiveUp, BeginSync, Prune, PruneFailed, SaveSync, Crash
<1>6. CASE UNCHANGED vars
  BY <1>4, <1>6 DEF vars
<1>7. QED
  BY <1>1, <1>2, <1>3, <1>4, <1>5, <1>6 DEF Next, Network

\* A bundle the node accepts is a transaction of the ledger: nothing that is
\* pending takes one of its coins, so it replaces nothing.
LEMMA PushSubmits ==
  ASSUME OneProcess, NoInterruption, LedgerInv, NEW p \in Proc, Push(p)
  PROVE  Ledger!Submit
<1>1. PICK w \in Coin \ ids :
        \E cs \in ChangeOf(plan[p], w) : Accept(BundleOf(plan[p], w, cs))
  BY DEF Push
<1>2. PICK cs \in ChangeOf(plan[p], w) : Accept(BundleOf(plan[p], w, cs))
  BY <1>1
<1> DEFINE t == BundleOf(plan[p], w, cs)
<1>3. /\ t \in Bundle /\ t.spent = plan[p].spent
      /\ t.watch = w /\ t.mine \subseteq Coin \ ids
  BY BundleTyped DEF Push, LedgerInv, FlightInv
<1>4. Accept(t)
  BY <1>2
<1> HIDE DEF t
<1>5. t.spent \in (SUBSET (chain \ spent)) \ {{}}
  BY <1>3, <1>4 DEF Accept, Bundle
<1>6. Outputs(t) \in (SUBSET (Coin \ ids)) \ {{}}
  BY <1>3 DEF Outputs
<1>7. \A u \in mempool : u.spent \cap t.spent = {}
  <2>1. plan[p].spent \cap InFlight = {}
    BY FlightIsSafe DEF LedgerInv, NoResubmit, Push
  <2>2. QED
    BY <1>3, <2>1 DEF InFlight
<1>8. mempool' = mempool \cup {t}
  BY <1>4, <1>7 DEF Accept
<1>9. {AsTx(u) : u \in mempool'} = {AsTx(u) : u \in mempool} \cup {[ins |-> t.spent, outs |-> Outputs(t)]}
  BY <1>8 DEF AsTx
<1>10. ids' = ids \cup Outputs(t) /\ chain' = chain /\ spent' = spent
  BY <1>4 DEF Accept, Outputs
<1>11. \A u \in {AsTx(v) : v \in mempool} : u.ins \cap t.spent = {}
  BY <1>7 DEF AsTx
<1>12. {AsTx(u) : u \in mempool}' = {AsTx(u) : u \in mempool'}
  BY DEF AsTx, Outputs
<1>13. QED
  BY <1>5, <1>6, <1>9, <1>10, <1>11, <1>12 DEF Ledger!Submit

\* Bundles in flight differ in their inputs, and so do their transactions.
LEMMA TxOfBundle ==
  ASSUME TypeOK, InputsApart, NEW t \in mempool
  PROVE  {AsTx(u) : u \in mempool \ {t}} = {AsTx(u) : u \in mempool} \ {AsTx(t)}
<1>1. \A u \in mempool : u.spent # {}
  BY DEF TypeOK, Bundle
<1>2. \A u \in mempool \ {t} : u.spent # t.spent
  BY <1>1 DEF InputsApart
<1>3. \A u \in mempool \ {t} : AsTx(u) # AsTx(t)
  BY <1>2 DEF AsTx
<1>4. QED
  BY <1>3

\* A block settles a transaction.
LEMMA ConfirmSettles ==
  ASSUME LedgerInv, NEW t \in mempool, Confirm(t)
  PROVE  Ledger!Settle(AsTx(t))
<1>1. mempool' = mempool \ {t} /\ ids' = ids
  BY DEF Confirm
<1>2. {AsTx(u) : u \in mempool}' = {AsTx(u) : u \in mempool} \ {AsTx(t)}
  BY <1>1, TxOfBundle DEF LedgerInv, FlightInv, AsTx, Outputs
<1>3. chain' = chain \cup Outputs(t) /\ spent' = spent \cup t.spent
  BY DEF Confirm, Outputs
<1>4. t.spent \subseteq chain /\ spent \subseteq chain /\ Outputs(t) \cap chain = {}
  BY DEF Confirm, LedgerInv, FlightInv, TypeOK, OutputsFresh
<1>5. chain' \ spent' = ((chain \ spent) \ t.spent) \cup Outputs(t)
  BY <1>3, <1>4
<1>6. QED
  BY <1>1, <1>2, <1>5 DEF Ledger!Settle, AsTx

LEMMA DropLoses ==
  ASSUME LedgerInv, NEW t \in mempool, Drop(t)
  PROVE  Ledger!Lose(AsTx(t))
<1>1. mempool' = mempool \ {t} /\ UNCHANGED chainVars /\ "drop" \in Faults
  BY DEF Drop
<1>2. {AsTx(u) : u \in mempool}' = {AsTx(u) : u \in mempool} \ {AsTx(t)}
  BY <1>1, TxOfBundle DEF LedgerInv, FlightInv, AsTx, Outputs
<1>3. QED
  BY <1>1, <1>2 DEF Ledger!Lose, chainVars

LEMMA InitLedger == Init => LedgerInv /\ Ledger!LedgerInit
<1> SUFFICES ASSUME Init PROVE LedgerInv /\ Ledger!LedgerInit
  OBVIOUS
<1>1. FlightInv
  BY InitFlight
<1>2. OutputsFresh /\ InputsApart
  BY DEF Init, OutputsFresh, InputsApart
<1>3. QED
  BY <1>1, <1>2 DEF LedgerInv, Init, Ledger!LedgerInit

LEMMA NextLedger ==
  ASSUME OneProcess, NoInterruption, LedgerInv, [Next]_vars
  PROVE  [Ledger!LedgerNext]_(Ledger!ledgerVars)
<1>1. CASE \E p \in Proc : Push(p)
  BY <1>1, PushSubmits DEF Ledger!LedgerNext
<1>2. ASSUME NEW t \in mempool, Confirm(t) PROVE Ledger!LedgerNext
  BY <1>2, ConfirmSettles DEF Ledger!LedgerNext
<1>3. ASSUME NEW t \in mempool, Drop(t) PROVE Ledger!LedgerNext
  BY <1>3, DropLoses DEF Ledger!LedgerNext
<1>4. ASSUME mempool' = mempool, chain' = chain, spent' = spent, ids' = ids
      PROVE  UNCHANGED Ledger!ledgerVars
  BY <1>4 DEF Ledger!ledgerVars, AsTx, Outputs
<1>5. ASSUME NEW p \in Proc, Command(p), ~Push(p)
      PROVE  mempool' = mempool /\ chain' = chain /\ spent' = spent /\ ids' = ids
  BY <1>5 DEF Command, BeginSpend, FetchCoins, SelectAmount, SelectAll, SelectConsolidate,
              PushLost, Save, GiveUp, BeginSync, Prune, PruneFailed, SaveSync, Crash,
              chainVars, NoInterruption
<1>6. CASE UNCHANGED vars
  BY <1>4, <1>6 DEF vars
<1>7. QED
  BY <1>1, <1>2, <1>3, <1>4, <1>5, <1>6 DEF Next, Network

\* With one invocation at a time, none interrupted between its push and its
\* save, the wallet implements SpendLedger (SpendsNeverCompete): every accepted
\* bundle is a transaction for live coins that no pending one takes, a block
\* settles exactly one, and every other step leaves the ledger alone.
THEOREM SpendsImplementLedger ==
  OneProcess /\ NoInterruption => (Spec => SpendsNeverCompete)
<1> SUFFICES ASSUME OneProcess, NoInterruption PROVE Spec => SpendsNeverCompete
  OBVIOUS
<1>1. LedgerInv /\ [Next]_vars => LedgerInv'
  BY NextFlight, NextApart DEF LedgerInv, FlightInv
<1>2. LedgerInv /\ [Next]_vars => [Ledger!LedgerNext]_(Ledger!ledgerVars)
  BY NextLedger
<1>3. QED
  BY InitLedger, <1>1, <1>2, PTL DEF Spec, SpendsNeverCompete, Ledger!LedgerSpec
===============================================================================
