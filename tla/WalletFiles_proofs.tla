-------------------------- MODULE WalletFiles_proofs --------------------------
(* Theorems about WalletFiles, for one invocation at a time, any number of   *)
(* wallets and edits, and invocations that die anywhere.                     *)
EXTENDS WalletFiles, TLAPS

OneProcess == \E p \in Proc : Proc = {p}

-----------------------------------------------------------------------------
(* The invariant. *)

TypeInv ==
  /\ content \in [Inode -> Content]
  /\ main \in Inode \cup {None} /\ tmp \in Inode \cup {None}
  /\ key \in 0..Blank /\ made \in 0..MaxWallet
  /\ at \in [Proc -> Steps]
  /\ fd \in [Proc -> Inode \cup {None}]
  /\ out \in [Proc -> State]
  /\ own \in [Proc -> 0..MaxWallet]
  /\ cut \in BOOLEAN

\* What is being written is the temporary file, which is not the state file.
FilesInv ==
  /\ Readable
  /\ main # None => main # tmp
  /\ \A p \in Proc :
       /\ at[p] \in {"opened", "written"} => tmp # None /\ fd[p] = tmp
       /\ at[p] = "opened" => content[tmp] = Empty
       /\ at[p] = "written" => content[tmp] = Whole(out[p])

\* A wallet that was generated for the key file is still the only one.
KeyInv ==
  \A p \in Proc :
    /\ at[p] = "key_checked" => key = Absent
    /\ at[p] = "key_opened" => key = Blank
    /\ at[p] \in {"key_checked", "key_opened"} => own[p] \in Wallet

\* What was loaded is what is stored, and what is saved is that with one more
\* edit, or a fresh state.
DataInv ==
  \A p \in Proc :
    /\ at[p] = "loaded" => out[p] = Stored /\ own[p] \in {Absent, key}
    /\ at[p] \in {"opened", "written"} =>
         \/ out[p] = Default
         \/ /\ out[p].edits = Stored.edits + 1
            /\ out[p].of \subseteq Stored.of \cup ({key} \cap Wallet)

IInv == TypeInv /\ FilesInv /\ KeyInv /\ DataInv /\ NoInheritedRecords

-----------------------------------------------------------------------------
(* Type correctness. *)

LEMMA Texts ==
  /\ Default \in State
  /\ Empty \in Content /\ Torn \in Content
  /\ \A s \in State : Whole(s) \in Content
  BY FilesAssumption DEF Default, State, Empty, Torn, Whole, Text, Content

LEMMA StoredTyped == TypeInv => Stored \in State
  BY Texts DEF TypeInv, Stored, Content

LEMMA EditedTyped ==
  ASSUME TypeInv, NEW p \in Proc, out[p].edits < MaxEdits
  PROVE  /\ Edited(p) \in State
         /\ Edited(p).edits = out[p].edits + 1 /\ Edited(p).edits # 0
         /\ Edited(p).of = out[p].of \cup ({own[p]} \cap Wallet)
<1>1. out[p] \in State
  BY DEF TypeInv
<1>2. out[p].edits + 1 \in 0..MaxEdits /\ out[p].edits + 1 # 0
  BY <1>1, FilesAssumption DEF State
<1>3. out[p].of \cup ({own[p]} \cap Wallet) \subseteq Wallet
  BY <1>1 DEF State
<1>4. QED
  BY <1>2, <1>3 DEF Edited, State

\* Opening a file to save a state in it.
LEMMA OpenTyped ==
  ASSUME TypeInv, NEW p \in Proc, NEW s \in State, Open(p, s)
  PROVE  TypeInv'
<1>1. PICK i \in Inode :
        /\ tmp' = i
        /\ content' = [content EXCEPT ![i] = Empty]
        /\ fd' = [fd EXCEPT ![p] = i]
  BY DEF Open
<1>2. QED
  BY <1>1, Texts DEF Open, keyVars, TypeInv, Steps

\* Back to the shell.
LEMMA ExitTyped ==
  ASSUME TypeInv, NEW p \in Proc, Exit(p)
  PROVE  /\ at' \in [Proc -> Steps] /\ fd' \in [Proc -> Inode \cup {None}]
         /\ out' \in [Proc -> State] /\ own' \in [Proc -> 0..MaxWallet]
  BY Texts, FilesAssumption DEF Exit, TypeInv, Steps

LEMMA InitTypeInv == Init => TypeInv
<1> SUFFICES ASSUME Init PROVE TypeInv
  OBVIOUS
<1>1. content \in [Inode -> Content] /\ out \in [Proc -> State]
  BY Texts DEF Init
<1>2. key \in 0..Blank /\ made \in 0..MaxWallet /\ own \in [Proc -> 0..MaxWallet]
  BY FilesAssumption DEF Init, Absent, Blank
<1>3. at \in [Proc -> Steps] /\ fd \in [Proc -> Inode \cup {None}]
  BY DEF Init, Steps
<1>4. cut \in BOOLEAN
  BY Zenon DEF Init
<1>5. QED
  BY <1>1, <1>2, <1>3, <1>4 DEF Init, TypeInv

LEMMA NextTypeInv == TypeInv /\ [Next]_vars => TypeInv'
<1> SUFFICES ASSUME TypeInv, [Next]_vars PROVE TypeInv'
  OBVIOUS
<1> USE FilesAssumption DEF fileVars, keyVars
<1>1. ASSUME NEW p \in Proc, Load(p) PROVE TypeInv'
  <2>1. PICK w \in {Absent, key} \ {Blank} : own' = [own EXCEPT ![p] = w]
    BY <1>1 DEF Load
  <2>2. w \in 0..MaxWallet
    BY DEF TypeInv, Absent, Blank
  <2>3. QED
    BY <1>1, <2>1, <2>2, StoredTyped DEF Load, TypeInv, Steps
<1>2. ASSUME NEW p \in Proc, SaveEdited(p) PROVE TypeInv'
  BY <1>2, EditedTyped, OpenTyped DEF SaveEdited
<1>3. ASSUME NEW p \in Proc, Write(p) PROVE TypeInv'
  <2>1. PICK c \in {Whole(out[p]), Torn} : content' = [content EXCEPT ![fd[p]] = c]
    BY <1>3 DEF Write
  <2>2. c \in Content
    BY Texts DEF TypeInv
  <2>3. QED
    BY <1>3, <2>1, <2>2 DEF Write, TypeInv, Steps
<1>4. ASSUME NEW p \in Proc, WriteFails(p) PROVE TypeInv'
  <2>1. content' \in [Inode -> Content]
    BY <1>4, Texts DEF WriteFails, TypeInv
  <2>2. cut' \in BOOLEAN
    BY <1>4, Zenon DEF WriteFails
  <2>3. QED
    BY <1>4, <2>1, <2>2, ExitTyped DEF WriteFails, TypeInv
<1>5. ASSUME NEW p \in Proc, Rename(p) PROVE TypeInv'
  <2>1. cut' \in BOOLEAN
    BY <1>5, Zenon DEF Rename
  <2>2. QED
    BY <1>5, <2>1, ExitTyped DEF Rename, TypeInv
<1>6. ASSUME NEW p \in Proc, CheckKey(p) PROVE TypeInv'
  BY <1>6 DEF CheckKey, TypeInv, Steps
<1>7. ASSUME NEW p \in Proc, OpenKey(p) PROVE TypeInv'
  BY <1>7 DEF OpenKey, TypeInv, Steps, Blank
<1>8. ASSUME NEW p \in Proc, WriteKey(p) PROVE TypeInv'
  BY <1>8 DEF WriteKey, TypeInv, Steps, Blank
<1>9. ASSUME NEW p \in Proc, SaveFresh(p) PROVE TypeInv'
  BY <1>9, OpenTyped, Texts DEF SaveFresh, FreshState
<1>10. ASSUME NEW p \in Proc, GiveUp(p) \/ Crash(p) PROVE TypeInv'
  <2>1. cut' \in BOOLEAN
    BY <1>10, Zenon DEF GiveUp, Crash, TypeInv
  <2>2. QED
    BY <1>10, <2>1, ExitTyped DEF GiveUp, Crash, TypeInv
<1>11. CASE RemoveKey
  BY <1>11 DEF RemoveKey, TypeInv, Absent, Blank
<1>12. CASE UNCHANGED vars
  BY <1>12 DEF vars, TypeInv
<1>13. QED
  BY <1>1, <1>2, <1>3, <1>4, <1>5, <1>6, <1>7, <1>8, <1>9, <1>10, <1>11, <1>12 DEF Next

-----------------------------------------------------------------------------
(* The state file is only ever replaced by a whole one. *)

LEMMA Forms == Empty.form = "empty" /\ Torn.form = "torn" /\ \A s : Whole(s).form = "whole"
  BY DEF Empty, Torn, Whole, Text

LEMMA OpenFiles ==
  ASSUME TypeInv, FilesInv, NEW p \in Proc, Proc = {p}, NEW s \in State, Open(p, s)
  PROVE  FilesInv'
<1>1. PICK i \in Inode :
        /\ IF tmp = None THEN i \notin {main} \cup {fd[q] : q \in Proc} ELSE i = tmp
        /\ tmp' = i
        /\ content' = [content EXCEPT ![i] = Empty]
        /\ fd' = [fd EXCEPT ![p] = i]
  BY DEF Open
<1>2. main' = main /\ i # main /\ at'[p] = "opened"
  BY <1>1 DEF Open, FilesInv, TypeInv
<1>3. content'[i] = Empty /\ fd'[p] = i /\ i # None
  BY <1>1, FilesAssumption DEF TypeInv
<1>4. main # None => content'[main] = content[main]
  BY <1>1, <1>2 DEF TypeInv
<1>5. QED
  BY <1>1, <1>2, <1>3, <1>4 DEF FilesInv, Readable

LEMMA NextFilesInv ==
  ASSUME TypeInv, FilesInv, [Next]_vars, NEW p \in Proc, Proc = {p}
  PROVE  FilesInv'
<1> USE DEF keyVars, fileVars
<1>1. CASE SaveEdited(p)
  BY <1>1, OpenFiles, EditedTyped DEF SaveEdited
<1>2. CASE SaveFresh(p)
  BY <1>2, OpenFiles, Texts DEF SaveFresh, FreshState
<1>3. CASE Write(p)
  <2>1. fd[p] = tmp /\ tmp \in Inode /\ content[tmp] = Empty
    BY <1>3 DEF Write, FilesInv, TypeInv
  <2>2. content' = [content EXCEPT ![tmp] = Whole(out[p])]
    BY <1>3, <2>1 DEF Write
  <2>3. at'[p] = "written" /\ content'[tmp] = Whole(out[p]) /\ out' = out
    BY <1>3, <2>1, <2>2 DEF Write, TypeInv
  <2>4. main # None => content'[main] = content[main]
    BY <2>2 DEF FilesInv, TypeInv
  <2>5. QED
    BY <1>3, <2>1, <2>3, <2>4 DEF Write, FilesInv, Readable
<1>4. CASE WriteFails(p)
  <2>1. fd[p] = tmp /\ content' = [content EXCEPT ![tmp] = Torn]
    BY <1>4 DEF WriteFails, FilesInv
  <2>2. main # None => content'[main] = content[main]
    BY <2>1 DEF FilesInv, TypeInv
  <2>3. at'[p] = "idle"
    BY <1>4 DEF WriteFails, Exit, TypeInv
  <2>4. QED
    BY <1>4, <2>2, <2>3 DEF WriteFails, FilesInv, Readable
<1>5. CASE Rename(p)
  <2>1. tmp # None /\ main' = tmp /\ tmp' = None /\ content' = content /\ at'[p] = "idle"
    BY <1>5 DEF Rename, FilesInv, Exit, TypeInv
  <2>2. content'[main'].form = "whole"
    BY <1>5, <2>1, Forms DEF Rename, FilesInv
  <2>3. QED
    BY <2>1, <2>2 DEF FilesInv, Readable
<1>6. CASE GiveUp(p) \/ Crash(p)
  BY <1>6 DEF GiveUp, Crash, Exit, FilesInv, Readable, TypeInv
<1>7. CASE Load(p) \/ CheckKey(p) \/ OpenKey(p) \/ WriteKey(p) \/ RemoveKey
  BY <1>7 DEF Load, CheckKey, OpenKey, WriteKey, RemoveKey, FilesInv, Readable, TypeInv
<1>8. CASE UNCHANGED vars
  BY <1>8 DEF vars, FilesInv, Readable
<1>9. QED
  BY <1>1, <1>2, <1>3, <1>4, <1>5, <1>6, <1>7, <1>8 DEF Next

-----------------------------------------------------------------------------
(* The key file. *)

LEMMA NextKeyInv ==
  ASSUME TypeInv, KeyInv, [Next]_vars, NEW p \in Proc, Proc = {p}
  PROVE  KeyInv'
<1> USE DEF keyVars, fileVars
<1>1. CASE CheckKey(p)
  <2>1. made + 1 \in Wallet
    BY <1>1, FilesAssumption DEF CheckKey, TypeInv, Wallet
  <2>2. QED
    BY <1>1, <2>1 DEF CheckKey, KeyInv, TypeInv
<1>2. CASE OpenKey(p) \/ WriteKey(p)
  BY <1>2 DEF OpenKey, WriteKey, KeyInv, TypeInv
<1>3. CASE RemoveKey
  BY <1>3 DEF RemoveKey, KeyInv
<1>4. CASE WriteFails(p) \/ Rename(p) \/ GiveUp(p) \/ Crash(p)
  BY <1>4 DEF WriteFails, Rename, GiveUp, Crash, Exit, KeyInv, TypeInv
<1>5. CASE Load(p) \/ Write(p)
  BY <1>5 DEF Load, Write, KeyInv, TypeInv
<1>6. CASE SaveEdited(p) \/ SaveFresh(p)
  BY <1>6 DEF SaveEdited, SaveFresh, Open, KeyInv, TypeInv
<1>7. CASE UNCHANGED vars
  BY <1>7 DEF vars, KeyInv
<1>8. QED
  BY <1>1, <1>2, <1>3, <1>4, <1>5, <1>6, <1>7 DEF Next

-----------------------------------------------------------------------------
(* What is stored, and what an invocation has of it. *)

\* Only the rename changes what is stored.
LEMMA StoredKept ==
  ASSUME TypeInv, FilesInv, [Next]_vars, NEW p \in Proc, Proc = {p}, ~Rename(p)
  PROVE  Stored' = Stored
<1> USE DEF keyVars, fileVars
<1>1. SUFFICES main' = main /\ (main # None => content'[main] = content[main])
  BY DEF Stored
<1>2. ASSUME NEW s, Open(p, s)
      PROVE  main' = main /\ (main # None => content'[main] = content[main])
  <2>1. PICK i \in Inode :
          /\ IF tmp = None THEN i \notin {main} \cup {fd[q] : q \in Proc} ELSE i = tmp
          /\ content' = [content EXCEPT ![i] = Empty]
    BY <1>2 DEF Open
  <2>2. i # main
    BY <2>1 DEF FilesInv
  <2>3. QED
    BY <1>2, <2>1, <2>2 DEF Open, TypeInv
<1>3. CASE SaveEdited(p) \/ SaveFresh(p)
  BY <1>2, <1>3 DEF SaveEdited, SaveFresh
<1>4. CASE Write(p) \/ WriteFails(p)
  <2>1. fd[p] = tmp /\ (main # None => main # tmp)
    BY <1>4 DEF Write, WriteFails, FilesInv
  <2>2. \E c : content' = [content EXCEPT ![tmp] = c]
    BY <1>4, <2>1 DEF Write, WriteFails
  <2>3. QED
    BY <1>4, <2>1, <2>2 DEF Write, WriteFails, TypeInv
<1>5. CASE \/ Load(p) \/ CheckKey(p) \/ OpenKey(p) \/ WriteKey(p) \/ GiveUp(p) \/ Crash(p)
           \/ RemoveKey \/ UNCHANGED vars
  BY <1>5 DEF Load, CheckKey, OpenKey, WriteKey, GiveUp, Crash, RemoveKey, vars
<1>6. QED
  BY <1>3, <1>4, <1>5 DEF Next

\* The rename stores what the invocation was saving.
LEMMA StoredRenamed ==
  ASSUME TypeInv, FilesInv, NEW p \in Proc, Rename(p)
  PROVE  Stored' = out[p] /\ at'[p] = "idle" /\ cut' = (cut /\ ~InInit(p))
<1>1. tmp # None /\ content[tmp] = Whole(out[p]) /\ main' = tmp /\ content' = content
  BY DEF Rename, FilesInv
<1>2. content'[main'].state = out[p]
  BY <1>1 DEF Whole, Text
<1>3. QED
  BY <1>1, <1>2 DEF Rename, Exit, Stored, TypeInv

LEMMA NextDataInv ==
  ASSUME TypeInv, FilesInv, KeyInv, DataInv, [Next]_vars, NEW p \in Proc, Proc = {p}
  PROVE  DataInv'
<1> USE DEF keyVars, fileVars
<1>1. CASE Rename(p)
  BY <1>1, StoredRenamed DEF DataInv
<1> SUFFICES ASSUME ~Rename(p) PROVE DataInv'
  BY <1>1
<1>2. Stored' = Stored
  BY StoredKept
<1>3. CASE Load(p)
  <2>1. at'[p] = "loaded" /\ out'[p] = Stored /\ own'[p] \in {Absent, key} /\ key' = key
    BY <1>3 DEF Load, TypeInv
  <2>2. QED
    BY <1>2, <2>1 DEF DataInv
<1>4. CASE SaveEdited(p)
  <2>1. at'[p] = "opened" /\ out'[p] = Edited(p) /\ key' = key
    BY <1>4 DEF SaveEdited, Open, TypeInv
  <2>2. out[p] = Stored /\ own[p] \in {Absent, key}
    BY <1>4 DEF SaveEdited, DataInv
  <2>3. {own[p]} \cap Wallet \subseteq {key} \cap Wallet
    BY <2>2 DEF Wallet, Absent
  <2>4. QED
    BY <1>2, <1>4, <2>1, <2>2, <2>3, EditedTyped DEF SaveEdited, DataInv
<1>5. CASE SaveFresh(p)
  BY <1>5 DEF SaveFresh, Open, FreshState, DataInv, TypeInv
<1>6. CASE Write(p)
  <2>1. at[p] = "opened" /\ at'[p] = "written" /\ out' = out /\ key' = key
    BY <1>6 DEF Write, TypeInv
  <2>2. QED
    BY <1>2, <2>1 DEF DataInv
<1>7. CASE WriteFails(p) \/ GiveUp(p) \/ Crash(p)
  BY <1>7 DEF WriteFails, GiveUp, Crash, Exit, DataInv, TypeInv
<1>8. CASE CheckKey(p) \/ OpenKey(p) \/ WriteKey(p)
  BY <1>8 DEF CheckKey, OpenKey, WriteKey, DataInv, TypeInv
<1>9. CASE RemoveKey
  BY <1>9 DEF RemoveKey, DataInv
<1>10. CASE UNCHANGED vars
  BY <1>2, <1>10 DEF vars, DataInv
<1>11. QED
  BY <1>3, <1>4, <1>5, <1>6, <1>7, <1>8, <1>9, <1>10 DEF Next

LEMMA NextNoInherited ==
  ASSUME TypeInv, FilesInv, KeyInv, DataInv, NoInheritedRecords, [Next]_vars,
         NEW p \in Proc, Proc = {p}
  PROVE  NoInheritedRecords'
<1> USE DEF keyVars, fileVars
<1>1. CASE Rename(p)
  <2>1. CASE out[p] = Default
    BY <1>1, <2>1, StoredRenamed DEF Default, NoInheritedRecords
  <2>2. CASE out[p] # Default
    <3>1. out[p].edits # 0 /\ out[p].of \subseteq Stored.of \cup ({key} \cap Wallet)
      BY <1>1, <2>2, StoredTyped DEF Rename, DataInv, State
    <3>2. ~InInit(p) /\ key' = key
      BY <1>1, <3>1 DEF Rename, InInit
    <3>3. QED
      BY <1>1, <3>1, <3>2, StoredRenamed DEF NoInheritedRecords
  <2>3. QED
    BY <2>1, <2>2
<1> SUFFICES ASSUME ~Rename(p) PROVE NoInheritedRecords'
  BY <1>1
<1>2. Stored' = Stored
  BY StoredKept
<1>3. CASE Load(p) \/ CheckKey(p)
  BY <1>2, <1>3 DEF Load, CheckKey, InInit, NoInheritedRecords, TypeInv
<1>4. CASE OpenKey(p)
  BY <1>4, FilesAssumption DEF OpenKey, Blank, Wallet, NoInheritedRecords
<1>5. CASE WriteKey(p)
  BY <1>5 DEF WriteKey, InInit, NoInheritedRecords, TypeInv
<1>6. CASE SaveEdited(p)
  BY <1>2, <1>6 DEF SaveEdited, Open, InInit, NoInheritedRecords
<1>7. CASE SaveFresh(p)
  <2>1. at'[p] = "opened" /\ out'[p].edits = 0
    BY <1>7 DEF SaveFresh, Open, FreshState, Default, TypeInv
  <2>2. QED
    BY <2>1 DEF InInit, NoInheritedRecords
<1>8. CASE Write(p)
  <2>1. InInit(p)' = InInit(p)
    BY <1>8 DEF Write, InInit, TypeInv
  <2>2. QED
    BY <1>2, <1>8, <2>1 DEF Write, NoInheritedRecords
<1>9. CASE WriteFails(p) \/ Crash(p)
  BY <1>2, <1>9 DEF WriteFails, Crash, NoInheritedRecords
<1>10. CASE GiveUp(p)
  BY <1>2, <1>10 DEF GiveUp, InInit, NoInheritedRecords
<1>11. CASE RemoveKey
  BY <1>11 DEF RemoveKey, Absent, Wallet, NoInheritedRecords
<1>12. CASE UNCHANGED vars
  BY <1>2, <1>12 DEF vars, InInit, NoInheritedRecords
<1>13. QED
  BY <1>3, <1>4, <1>5, <1>6, <1>7, <1>8, <1>9, <1>10, <1>11, <1>12 DEF Next

-----------------------------------------------------------------------------
LEMMA InitIInv == Init => IInv
<1> SUFFICES ASSUME Init PROVE IInv
  OBVIOUS
<1>1. FilesInv /\ KeyInv /\ DataInv
  BY DEF Init, FilesInv, Readable, KeyInv, DataInv
<1>2. NoInheritedRecords
  BY DEF Init, NoInheritedRecords, Absent, Wallet
<1>3. QED
  BY <1>1, <1>2, InitTypeInv DEF IInv

LEMMA InvHolds == OneProcess => (Spec => []IInv)
<1> SUFFICES ASSUME OneProcess PROVE Spec => []IInv
  OBVIOUS
<1>1. IInv /\ [Next]_vars => IInv'
  <2> SUFFICES ASSUME IInv, [Next]_vars PROVE IInv'
    OBVIOUS
  <2>1. PICK p \in Proc : Proc = {p}
    BY DEF OneProcess
  <2>2. QED
    BY <2>1, NextTypeInv, NextFilesInv, NextKeyInv, NextDataInv, NextNoInherited DEF IInv
<1>2. QED
  BY <1>1, InitIInv, PTL DEF Spec

\* Every variable keeps its type (TypeOK), and what is written is one of the
\* two files, while one invocation runs at a time.
THEOREM TypeCorrect == OneProcess => (Spec => []TypeOK)
<1>1. IInv => TypeOK
  BY DEF IInv, TypeInv, FilesInv, TypeOK
<1>2. QED
  BY <1>1, InvHolds, PTL

\* The state file is never half written (Readable), wherever an invocation
\* dies and whenever the disk is full.
THEOREM SaveIsAtomic == OneProcess => (Spec => []Readable)
<1>1. IInv => Readable
  BY DEF IInv, FilesInv
<1>2. QED
  BY <1>1, InvHolds, PTL

\* An init that ran to its end leaves no record of another wallet
\* (NoInheritedRecords), however many came before it.
THEOREM InitIsFresh == OneProcess => (Spec => []NoInheritedRecords)
<1>1. IInv => NoInheritedRecords
  BY DEF IInv
<1>2. QED
  BY <1>1, InvHolds, PTL

-----------------------------------------------------------------------------
(* The refinement. *)

LEMMA StepRefines ==
  ASSUME IInv, [Next]_vars, NEW p \in Proc, Proc = {p}
  PROVE  [Ledger!LedgerNext]_Ledger!ledgerVars
<1> DEFINE starting == \E q \in Proc : InInit(q)
<1> USE DEF IInv, keyVars, fileVars
<1>a. (starting <=> InInit(p)) /\ (starting' <=> InInit(p)')
  OBVIOUS
<1> HIDE DEF starting
<1>1. CASE Rename(p)
  <2>1. Stored' = out[p] /\ ~InInit(p)'
    BY <1>1, StoredRenamed DEF InInit
  <2>2. CASE InInit(p)
    BY <1>a, <1>1, <2>1, <2>2 DEF InInit, Rename, Ledger!LedgerNext, Ledger!Fresh, starting
  <2>3. CASE ~InInit(p)
    <3>1. out[p].edits = Stored.edits + 1
      BY <1>1, <2>3 DEF Rename, InInit, DataInv, Default
    <3>2. QED
      BY <1>a, <2>1, <2>3, <3>1 DEF Ledger!LedgerNext, Ledger!Edit, starting
  <2>4. QED
    BY <2>2, <2>3
<1> SUFFICES ASSUME ~Rename(p) PROVE [Ledger!LedgerNext]_Ledger!ledgerVars
  BY <1>1
<1>2. Stored' = Stored
  BY StoredKept
<1>3. CASE WriteKey(p)
  <2>1. InInit(p)'
    BY <1>3 DEF WriteKey, InInit, TypeInv
  <2>2. QED
    BY <1>a, <1>2, <2>1 DEF Ledger!LedgerNext, Ledger!Start, starting
<1>4. CASE WriteFails(p) \/ Crash(p)
  <2>1. ~InInit(p)'
    BY <1>4 DEF WriteFails, Crash, Exit, InInit, TypeInv
  <2>2. QED
    BY <1>a, <1>2, <2>1 DEF Ledger!LedgerNext, Ledger!Fresh, Ledger!ledgerVars, starting
<1>5. CASE SaveEdited(p)
  <2>1. ~InInit(p) /\ ~InInit(p)'
    BY <1>5, EditedTyped DEF SaveEdited, Open, InInit, TypeInv
  <2>2. QED
    BY <1>a, <1>2, <2>1 DEF Ledger!ledgerVars, starting
<1>6. CASE SaveFresh(p)
  <2>1. InInit(p) /\ InInit(p)'
    BY <1>6 DEF SaveFresh, FreshState, Default, Open, InInit, TypeInv
  <2>2. QED
    BY <1>a, <1>2, <2>1 DEF Ledger!ledgerVars, starting
<1>7. CASE \/ Load(p) \/ Write(p) \/ CheckKey(p) \/ OpenKey(p) \/ GiveUp(p)
           \/ RemoveKey \/ UNCHANGED vars
  <2>1. InInit(p)' <=> InInit(p)
    BY <1>7 DEF Load, Write, CheckKey, OpenKey, GiveUp, Exit, RemoveKey, InInit, TypeInv, vars
  <2>2. QED
    BY <1>a, <1>2, <2>1 DEF Ledger!ledgerVars, starting
<1>8. QED
  BY <1>3, <1>4, <1>5, <1>6, <1>7 DEF Next

\* The files implement the ledger (LedgerSpec): every edit is applied in one
\* step, none is lost to a crash, and only an init starts afresh.
THEOREM FilesImplementLedger == OneProcess => (Spec => LedgerSpec)
<1> SUFFICES ASSUME OneProcess PROVE Spec => LedgerSpec
  OBVIOUS
<1>1. Init => Ledger!LedgerInit
  BY DEF Init, Ledger!LedgerInit, Stored, Default, InInit
<1>2. IInv /\ [Next]_vars => [Ledger!LedgerNext]_Ledger!ledgerVars
  BY StepRefines DEF OneProcess
<1>3. QED
  BY <1>1, <1>2, InvHolds, PTL DEF Spec, LedgerSpec, Ledger!LedgerSpec
===============================================================================
