----------------------------- MODULE WalletFiles -----------------------------
(***************************************************************************)
(* The key file and the state file, as the file system sees them.          *)
(*                                                                         *)
(* `State::save` writes a temporary file beside the state file and renames *)
(* it; `save_new_wallet` writes the key file in place, if there is none.   *)
(* A write first truncates and then fills the file, and an invocation may  *)
(* die anywhere, also with the disk full.  Files are inodes: a name refers *)
(* to one, and so does an invocation that is writing, which keeps writing  *)
(* the same inode when it is renamed.                                      *)
(***************************************************************************)
EXTENDS Naturals, FiniteSets

CONSTANTS
  Proc,        \* invocations of the program that may run at the same time
  Inode,       \* the inodes of state files
  MaxWallet,   \* wallets ever generated
  MaxEdits,    \* edits of one state
  Faults       \* among FaultKind

FaultKind ==
  { "crash",   \* an invocation dies between two steps
    "full" }   \* a write stops halfway and reports it

None == "none"

ASSUME FilesAssumption ==
  /\ None \notin Inode
  /\ MaxWallet \in Nat /\ MaxEdits \in Nat
  /\ Faults \subseteq FaultKind

VARIABLES
  content,   \* what each inode holds
  main, tmp, \* the inodes named state.json and state.json.tmp
  key,       \* what the key file holds
  made,      \* how many wallets were generated
  at,        \* where each invocation is
  fd,        \* the inode it is writing
  out,       \* the state it has loaded or is saving
  own,       \* the wallet it works for
  cut        \* was an `init` interrupted after it wrote the key?

fileVars == <<content, main, tmp>>
keyVars == <<key, made>>
vars == <<content, main, tmp, key, made, at, fd, out, own, cut>>

Wallet == 1..MaxWallet
\* A state, by the wallets whose records it holds and its edits so far.
State == [of : SUBSET Wallet, edits : 0..MaxEdits]
Default == [of |-> {}, edits |-> 0]
\* The text of a state file: of a state, or nothing, or what does not parse.
Text(f, s) == [form |-> f, state |-> s]
Whole(s) == Text("whole", s)
Empty == Text("empty", Default)
Torn == Text("torn", Default)
Content == [form : {"empty", "torn", "whole"}, state : State]
\* The key file is a wallet's, or missing, or has no text yet.
Absent == 0
Blank == MaxWallet + 1
Steps == {"idle", "loaded", "opened", "written", "key_checked", "key_opened", "key_written"}

Init ==
  /\ content = [i \in Inode |-> Empty]
  /\ main = None /\ tmp = None
  /\ key = Absent /\ made = 0
  /\ at = [p \in Proc |-> "idle"]
  /\ fd = [p \in Proc |-> None]
  /\ out = [p \in Proc |-> Default]
  /\ own = [p \in Proc |-> 0]
  /\ cut = FALSE

\* The invocation ends, and the shell forgets it.
Exit(p) ==
  /\ at' = [at EXCEPT ![p] = "idle"]
  /\ fd' = [fd EXCEPT ![p] = None]
  /\ out' = [out EXCEPT ![p] = Default]
  /\ own' = [own EXCEPT ![p] = 0]

-----------------------------------------------------------------------------
(* State::load and State::save. *)

\* What load makes of the file: a missing or empty one is a fresh state.
Stored == IF main = None THEN Default ELSE content[main].state

\* Load, taking a read error for a missing file.
Load_Lenient(p) ==
  /\ at[p] = "idle"
  /\ main # None => content[main] # Torn
  /\ at' = [at EXCEPT ![p] = "loaded"]
  /\ \E s \in {Stored, Default} : out' = [out EXCEPT ![p] = s]
  /\ own' = [own EXCEPT ![p] = key % Blank]
  /\ UNCHANGED <<fileVars, keyVars, fd, cut>>

\* A command that edits the state loads the key, unless it needs none (potato),
\* and the state, which must parse.
Load(p) ==
  /\ at[p] = "idle"
  /\ main # None => content[main] # Torn
  /\ at' = [at EXCEPT ![p] = "loaded"]
  /\ out' = [out EXCEPT ![p] = Stored]
  /\ \E w \in {Absent, key} \ {Blank} : own' = [own EXCEPT ![p] = w]
  /\ UNCHANGED <<fileVars, keyVars, fd, cut>>

\* Edited, also for a command that works for no wallet.
Edited_Nobody(p) == [of |-> out[p].of \cup {own[p]}, edits |-> out[p].edits + 1]

\* What the command makes of the state: one more edit, with the records of its wallet.
Edited(p) ==
  [of |-> out[p].of \cup ({own[p]} \cap Wallet), edits |-> out[p].edits + 1]

\* Open, on the state file itself.
Open_InPlace(p, s) ==
  /\ \E i \in IF main = None THEN Inode ELSE {main} :
       /\ main' = i /\ tmp' = i
       /\ content' = [content EXCEPT ![i] = Empty]
       /\ fd' = [fd EXCEPT ![p] = i]
  /\ out' = [out EXCEPT ![p] = s]
  /\ at' = [at EXCEPT ![p] = "opened"]
  /\ UNCHANGED <<keyVars, own, cut>>

\* Create the temporary file, or truncate the one that is there.
Open(p, s) ==
  /\ \E i \in Inode :
       /\ IF tmp = None THEN i \notin {main} \cup {fd[q] : q \in Proc} ELSE i = tmp
       /\ tmp' = i
       /\ content' = [content EXCEPT ![i] = Empty]
       /\ fd' = [fd EXCEPT ![p] = i]
  /\ out' = [out EXCEPT ![p] = s]
  /\ at' = [at EXCEPT ![p] = "opened"]
  /\ UNCHANGED <<main, keyVars, own, cut>>

SaveEdited(p) ==
  /\ at[p] = "loaded" /\ out[p].edits < MaxEdits
  /\ Open(p, Edited(p))

\* A shorter text over a longer one leaves its tail.
Write(p) ==
  /\ at[p] = "opened"
  /\ \E c \in {Whole(out[p])} \cup (IF content[fd[p]] = Empty THEN {} ELSE {Torn}) :
       content' = [content EXCEPT ![fd[p]] = c]
  /\ at' = [at EXCEPT ![p] = "written"]
  /\ UNCHANGED <<main, tmp, keyVars, fd, out, own, cut>>

\* The key is there and the state that goes with it is not yet.
InInit(p) == at[p] = "key_written" \/ (at[p] \in {"opened", "written"} /\ out[p].edits = 0)

WriteFails(p) ==
  /\ at[p] = "opened" /\ "full" \in Faults
  /\ content' = [content EXCEPT ![fd[p]] = Torn]
  /\ cut' = (cut \/ InInit(p))
  /\ Exit(p)
  /\ UNCHANGED <<main, tmp, keyVars>>

\* The temporary file becomes the state file, unless another invocation took it.
Rename(p) ==
  /\ at[p] = "written"
  /\ IF tmp = None
       THEN /\ cut' = (cut \/ InInit(p))
            /\ UNCHANGED <<main, tmp>>
       ELSE /\ cut' = (cut /\ ~InInit(p))
            /\ main' = tmp /\ tmp' = None
  /\ Exit(p)
  /\ UNCHANGED <<content, keyVars>>

-----------------------------------------------------------------------------
(* init *)

\* Generate a wallet; refuse when there is a key file.  Between the look and
\* the write another invocation may do the same.
CheckKey(p) ==
  /\ at[p] = "idle"
  /\ key = Absent
  /\ made < MaxWallet /\ made' = made + 1
  /\ at' = [at EXCEPT ![p] = "key_checked"]
  /\ own' = [own EXCEPT ![p] = made + 1]
  /\ UNCHANGED <<fileVars, key, fd, out, cut>>

OpenKey(p) ==
  /\ at[p] = "key_checked"
  /\ key' = Blank
  /\ at' = [at EXCEPT ![p] = "key_opened"]
  /\ UNCHANGED <<fileVars, made, fd, out, own, cut>>

WriteKey(p) ==
  /\ at[p] = "key_opened"
  /\ key' = own[p]
  /\ at' = [at EXCEPT ![p] = "key_written"]
  /\ UNCHANGED <<fileVars, made, fd, out, own, cut>>

\* FreshState, with the records that are there.
FreshState_Inherited == [of |-> Stored.of, edits |-> 0]
FreshState == Default

\* A new key gets fresh state.
SaveFresh(p) ==
  /\ at[p] = "key_written"
  /\ Open(p, FreshState)

-----------------------------------------------------------------------------
\* An error, or a declined prompt, before the save.
GiveUp(p) ==
  /\ at[p] = "loaded"
  /\ Exit(p)
  /\ UNCHANGED <<fileVars, keyVars, cut>>

\* The invocation dies, or ends because the key file cannot be written.
Crash(p) ==
  /\ "crash" \in Faults /\ at[p] # "idle"
  /\ cut' = (cut \/ InInit(p))
  /\ Exit(p)
  /\ UNCHANGED <<fileVars, keyVars>>

\* The user moves the key file away, between two commands.
RemoveKey ==
  /\ \A p \in Proc : at[p] = "idle"
  /\ key # Absent
  /\ key' = Absent
  /\ UNCHANGED <<fileVars, made, at, fd, out, own, cut>>

Next ==
  \/ \E p \in Proc :
       \/ Load(p) \/ SaveEdited(p) \/ Write(p) \/ WriteFails(p) \/ Rename(p)
       \/ CheckKey(p) \/ OpenKey(p) \/ WriteKey(p) \/ SaveFresh(p)
       \/ GiveUp(p) \/ Crash(p)
  \/ RemoveKey

Spec == Init /\ [][Next]_vars

-----------------------------------------------------------------------------
(* Properties. *)

\* Every variable keeps its shape; an invocation writes to an inode that is
\* one of the two files.
TypeOK ==
  /\ content \in [Inode -> Content]
  /\ main \in Inode \cup {None} /\ tmp \in Inode \cup {None}
  /\ key \in 0..Blank /\ made \in 0..MaxWallet
  /\ at \in [Proc -> Steps]
  /\ fd \in [Proc -> Inode \cup {None}]
  /\ out \in [Proc -> State]
  /\ own \in [Proc -> 0..MaxWallet]
  /\ cut \in BOOLEAN
  /\ \A p \in Proc : at[p] \in {"opened", "written"} => fd[p] \in {main, tmp} \ {None}

\* The state file is never seen half written, wherever an invocation dies or
\* the disk fills up (state.rs: an interrupted write cannot corrupt it).
Readable == main # None => content[main].form = "whole"

\* A new key never comes with the records of an old wallet (cmd_init), unless
\* the init that made it was interrupted before its state was in place.
NoInheritedRecords ==
  key \in Wallet /\ (\A p \in Proc : ~InInit(p)) /\ ~cut => Stored.of \subseteq {key}

\* The file implements the ledger: edits are applied one after the other and
\* only an `init` starts afresh, wherever invocations die (State::save).
Ledger == INSTANCE StateLedger
  WITH edits <- Stored.edits, starting <- \E p \in Proc : InInit(p)
LedgerSpec == Ledger!LedgerSpec
=============================================================================
