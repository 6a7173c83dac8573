---------------------------- MODULE SettingsStore ----------------------------
(***************************************************************************)
(* The settings on disk and in the keyring (sync/src/link/store.rs,        *)
(* secret.rs) and the processes that change them: tasks of the daemon      *)
(* (`config.set`, `webhook.set`, every reconnect) and `imsg setup connect`.*)
(*                                                                         *)
(* An operation stores a password, reads config.toml, changes some of what *)
(* it read and replaces the file: it writes config.toml.tmp, one name for  *)
(* all, and renames it.  It ends with a load, and a load that finds a      *)
(* password in the file moves it to the keyring and replaces the file.     *)
(* Nothing locks.  A process may end, or a step of it fail, anywhere.      *)
(*                                                                         *)
(* Files are inodes: a process writes to the one it opened, whatever the   *)
(* name stands for by then.                                                *)
(***************************************************************************)
EXTENDS Naturals, FiniteSets

CONSTANTS
    Procs,          \* tasks and processes that use the store
    Servers, Passwords,
    None,           \* no server, no password
    Torn            \* a file that does not parse

Inodes == 1..(Cardinality(Procs) + 2)

VARIABLES
    keyring,        \* the password there, or None
    conf, tmp,      \* the inode each name stands for (0: no file)
    data,           \* inode -> what it holds
    proc,           \* process -> its operation and where it is in it
    saved,          \* the settings the operations put in place one after the other
    overlap         \* an operation has begun to read while another was replacing

files == <<conf, tmp, data>>
vars == <<keyring, conf, tmp, data, proc, saved, overlap>>

\* FileIn and PublicFile.  A file without a key parses as Blank.
File == [server : Servers \cup {None}, hook : BOOLEAN, plain : Passwords \cup {None}]
Blank == [server |-> None, hook |-> FALSE, plain |-> None]

ASSUME StoreAssumption ==
    /\ IsFiniteSet(Procs)
    /\ None \notin Servers \cup Passwords
    /\ Torn \notin File

Ops == [kind : {"server"}, server : Servers, password : Passwords \cup {None}]
       \cup [kind : {"hook"}, hook : BOOLEAN] \cup [kind : {"load"}]
Load == [kind |-> "load"]
PCs == {"idle", "secret", "read", "migrate", "create", "write", "rename"}
Proc == [pc : PCs, op : Ops, fd : Inodes \cup {0}, staged : File]
Idle == [pc |-> "idle", op |-> Load, fd |-> 0, staged |-> Blank]

TypeOK ==
    /\ keyring \in Passwords \cup {None}
    /\ conf \in Inodes \cup {0} /\ tmp \in Inodes \cup {0}
    /\ data \in [Inodes -> File \cup {Torn}]
    /\ proc \in [Procs -> Proc]
    /\ saved \in [server : Servers \cup {None}, hook : BOOLEAN]
    /\ overlap \in BOOLEAN
    /\ conf # 0 => conf # tmp

\* No file, a file of today, or one of the build that kept the password in it.
Init ==
    /\ tmp = 0
    /\ \E file \in File :
          /\ data = [i \in Inodes |-> IF i = 1 THEN file ELSE Blank]
          /\ conf \in IF file = Blank THEN {0, 1} ELSE {1}
          /\ keyring \in IF file.plain = None THEN Passwords \cup {None} ELSE {None}
          /\ saved = [server |-> file.server, hook |-> file.hook]
    /\ proc = [p \in Procs |-> Idle]
    /\ overlap = FALSE

-----------------------------------------------------------------------------
(* The steps of an operation                                                *)

Goto(p, pc) == proc' = [proc EXCEPT ![p].pc = pc]
End(p) == proc' = [proc EXCEPT ![p] = Idle]

\* commit, commit_webhook or load is called.
Begin(p) ==
    /\ proc[p].pc = "idle"
    /\ \E op \in Ops :
          proc' = [proc EXCEPT ![p] = [Idle EXCEPT
              !.op = op, !.pc = IF op.kind = "server" THEN "secret" ELSE "read"]]
    /\ UNCHANGED <<keyring, files, saved, overlap>>

\* PasswordUpdate: to keep one there must be one; a new one goes to the keyring
\* before anything else.
StoreSecret(p) ==
    /\ proc[p].pc = "secret"
    /\ IF proc[p].op.password = None
       THEN /\ IF keyring = None THEN End(p) ELSE Goto(p, "read")
            /\ UNCHANGED keyring
       ELSE /\ keyring' = proc[p].op.password
            /\ Goto(p, "read")
    /\ UNCHANGED <<files, saved, overlap>>

Replacing(p) == proc[p].pc \in {"migrate", "create", "write", "rename"}
Content == IF conf = 0 THEN Blank ELSE data[conf]

\* Mutant: what is not asked for takes its default.
EditedFromDefaults(op, file) ==
    CASE op.kind = "server" -> [Blank EXCEPT !.server = op.server]
      [] op.kind = "hook" -> [Blank EXCEPT !.hook = op.hook, !.server = file.server]
      [] op.kind = "load" -> file

\* The PublicFile an operation makes of what it read.
Edited(op, file) ==
    CASE op.kind = "server" -> [file EXCEPT !.server = op.server, !.plain = None]
      [] op.kind = "hook" -> [file EXCEPT !.hook = op.hook, !.plain = None]
      [] op.kind = "load" -> file

\* The file is read and parsed; a file that does not parse ends the operation, and
\* a load is over unless there is a password in it.
ReadFile(p) ==
    /\ proc[p].pc = "read"
    /\ IF Content = Torn \/ (proc[p].op = Load /\ Content.plain = None)
       THEN End(p)
       ELSE proc' = [proc EXCEPT ![p].staged = Edited(proc[p].op, Content),
                                 ![p].pc = IF proc[p].op = Load THEN "migrate" ELSE "create"]
    /\ overlap' = (overlap \/ \E q \in Procs \ {p} : Replacing(q))
    /\ UNCHANGED <<keyring, files, saved>>

\* Mutant: a keyring that fails is ignored.
MigrateRegardless(p) ==
    /\ proc[p].pc = "migrate"
    /\ keyring' \in {keyring, proc[p].staged.plain}
    /\ proc' = [proc EXCEPT ![p].staged.plain = None, ![p].pc = "create"]
    /\ UNCHANGED <<files, saved, overlap>>

\* load: the password of an old file goes to the keyring.
Migrate(p) ==
    /\ proc[p].pc = "migrate"
    /\ keyring' = proc[p].staged.plain
    /\ proc' = [proc EXCEPT ![p].staged.plain = None, ![p].pc = "create"]
    /\ UNCHANGED <<files, saved, overlap>>

Used == {conf, tmp} \cup {proc[q].fd : q \in Procs}
FreshInode == CHOOSE i \in Inodes : i \notin Used

\* Mutant: config.toml itself is opened and truncated.
OpenInPlace(p) ==
    /\ proc[p].pc = "create"
    /\ tmp' = IF conf = 0 THEN FreshInode ELSE conf
    /\ data' = [data EXCEPT ![tmp'] = Blank]
    /\ proc' = [proc EXCEPT ![p].fd = tmp', ![p].pc = "write"]
    /\ UNCHANGED <<keyring, conf, saved, overlap>>

\* write_private: the temporary file is made, or truncated if it is there ...
CreateTmp(p) ==
    /\ proc[p].pc = "create"
    /\ tmp' = IF tmp = 0 THEN FreshInode ELSE tmp
    /\ data' = [data EXCEPT ![tmp'] = Blank]
    /\ proc' = [proc EXCEPT ![p].fd = tmp', ![p].pc = "write"]
    /\ UNCHANGED <<keyring, conf, saved, overlap>>

\* ... written, perhaps over what another has written since ...
WriteTmp(p) ==
    /\ proc[p].pc = "write"
    /\ \E file \in IF data[proc[p].fd] = Blank THEN {proc[p].staged} ELSE {proc[p].staged, Torn} :
          data' = [data EXCEPT ![proc[p].fd] = file]
    /\ Goto(p, "rename")
    /\ UNCHANGED <<keyring, conf, tmp, saved, overlap>>

Intended(op) ==
    CASE op.kind = "server" -> [saved EXCEPT !.server = op.server]
      [] op.kind = "hook" -> [saved EXCEPT !.hook = op.hook]
      [] op.kind = "load" -> saved

\* ... and renamed, if nobody else did; an inode without a name or a process to
\* write to it is gone.  A load follows what is not one.
Rename(p) ==
    /\ proc[p].pc = "rename"
    /\ IF tmp = 0
       THEN /\ End(p)
            /\ UNCHANGED <<files, saved>>
       ELSE /\ conf' = tmp /\ tmp' = 0
            /\ saved' = Intended(proc[p].op)
            /\ IF proc[p].op = Load THEN End(p)
               ELSE proc' = [proc EXCEPT ![p] = [Idle EXCEPT !.pc = "read"]]
            /\ data' = [i \in Inodes |->
                   IF i = tmp \/ \E q \in Procs \ {p} : proc[q].fd = i THEN data[i] ELSE Blank]
    /\ UNCHANGED <<keyring, overlap>>

\* An error of the keyring or the file system, or the process ends.
Stop(p) ==
    /\ proc[p].pc # "idle"
    /\ End(p)
    /\ UNCHANGED <<keyring, files, saved, overlap>>

Next ==
    \E p \in Procs :
        \/ Begin(p) \/ StoreSecret(p) \/ ReadFile(p) \/ Migrate(p)
        \/ CreateTmp(p) \/ WriteTmp(p) \/ Rename(p) \/ Stop(p)

Spec == Init /\ [][Next]_vars

-----------------------------------------------------------------------------
(* Properties                                                               *)

\* A crash or an error anywhere, also between the keyring and the file, leaves a
\* file that parses and holds, setting for setting, what the last operation about
\* it put in place: no operation loses what another saved.  Only operations that
\* read while another was replacing the file can.
SettingsKept ==
    ~overlap => /\ Content # Torn
                /\ Content.server = saved.server /\ Content.hook = saved.hook

HasPassword == keyring # None \/ (Content # Torn /\ Content.plain # None)

\* The move of the password from the file to the keyring, and whatever replaces it
\* later, never leaves the user without one, also when processes move it at once or
\* are cut short.  (Not so webhook.set, see PasswordKept.)
MoveKeepsPassword ==
    [][HasPassword =>
          HasPassword' \/ \E p \in Procs : proc[p].op.kind = "hook" /\ Rename(p)]_vars

\* "second load should stay Ready": no operation loses the password.
PasswordKept == [][HasPassword => HasPassword']_vars
=============================================================================
