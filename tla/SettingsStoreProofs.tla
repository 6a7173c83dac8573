------------------------- MODULE SettingsStoreProofs -------------------------
(***************************************************************************)
(* For any number of processes, servers and passwords: while no operation  *)
(* begins to read when another is replacing the file, every setting on     *)
(* disk is the one put there last; and moving the password to the keyring  *)
(* never leaves the user without one, overlap or not.                      *)
(*                                                                         *)
(* The argument: an inode made for config.toml.tmp is not the one that     *)
(* config.toml stands for, so until its rename an operation leaves the     *)
(* settings alone; only one operation replaces the file, and what it       *)
(* staged is its change of what it read.  A password in a file can only be *)
(* in the config.toml that was there at the start, and nothing but         *)
(* webhook.set renames over that before there is one in the keyring.       *)
(***************************************************************************)
EXTENDS SettingsStore, FiniteSetTheorems, TLAPS

\* A process has a file open from its creation to its rename, and only config.set
\* stores a password first.
OpenFiles ==
    \A p \in Procs :
        /\ proc[p].fd # 0 <=> proc[p].pc \in {"write", "rename"}
        /\ proc[p].pc = "secret" => proc[p].op.kind = "server"

\* A password is only in the file that config.toml stands for, which nobody has open.
PlainInConf ==
    \A i \in Inodes : data[i] # Torn /\ data[i].plain # None =>
        i = conf /\ \A p \in Procs : proc[p].fd # i

\* A process brings no password to the file, and there is one in the keyring before it
\* may replace the file, unless webhook.set does.
Covered(r, key) ==
    /\ r.pc = "migrate" => r.staged.plain # None
    /\ r.pc \in {"create", "write", "rename"} =>
          r.staged.plain = None /\ (r.op.kind # "hook" => key # None)
    /\ r.pc = "read" /\ r.op.kind = "server" => key # None

PasswordPlaces == PlainInConf /\ \A p \in Procs : Covered(proc[p], keyring)

Settings(file) == [server |-> file.server, hook |-> file.hook]

\* A process that replaces the file has its change of the settings that were there,
\* and then its temporary file has it.
Staged(p) ==
    /\ Settings(proc[p].staged) = Intended(proc[p].op)
    /\ proc[p].pc = "write" => proc[p].fd = tmp /\ data[tmp] = Blank
    /\ proc[p].pc = "rename" => proc[p].fd = tmp /\ data[tmp] = proc[p].staged

\* While operations do not overlap one process at a time replaces the file.
OneReplaces ==
    ~overlap => \A p \in Procs : Replacing(p) =>
        Staged(p) /\ \A q \in Procs : Replacing(q) => p = q

-----------------------------------------------------------------------------

\* With one inode for each process and two names, one is left for a process that
\* has no file open.
LEMMA FreshInodeExists ==
    ASSUME TypeOK, NEW p \in Procs, proc[p].fd = 0
    PROVE  FreshInode \in Inodes /\ FreshInode \notin Used
<1> DEFINE N == Cardinality(Procs)
           Others == Procs \ {p}
           f == [q \in Others |-> proc[q].fd]
           Fds == {proc[q].fd : q \in Others}
           Names == {conf, tmp}
<1>1. IsFiniteSet(Procs) /\ N \in Nat
  BY StoreAssumption, FS_CardinalityType
<1>2. IsFiniteSet(Others) /\ Cardinality(Others) = N - 1 /\ N - 1 \in Nat
  <2>1. IsFiniteSet(Others) /\ Cardinality(Others) = N - 1
    BY <1>1, FS_RemoveElement
  <2>2. Cardinality(Others) \in Nat
    BY <2>1, FS_CardinalityType
  <2>3. QED
    BY <2>1, <2>2
<1>3. IsFiniteSet(Fds) /\ Cardinality(Fds) <= N - 1
  <2>1. f \in Surjection(Others, Fds)
    BY DEF Surjection
  <2>2. QED
    BY <1>2, <2>1, FS_Surjection
<1>4. IsFiniteSet(Names) /\ Cardinality(Names) <= 2
  <2>1. IsFiniteSet({conf}) /\ Cardinality({conf}) = 1
    BY FS_Singleton
  <2>2. Names = {conf} \cup {tmp}
    OBVIOUS
  <2>3. /\ IsFiniteSet(Names)
        /\ Cardinality(Names) = IF tmp \in {conf} THEN Cardinality({conf}) ELSE Cardinality({conf}) + 1
    BY <2>1, <2>2, FS_AddElement, Zenon
  <2> HIDE DEF Names
  <2>4. QED
    BY <2>1, <2>3
<1>5. IsFiniteSet(Names \cup Fds) /\ Cardinality(Names \cup Fds) <= N + 1
  <2>1. IsFiniteSet(Names \cup Fds)
        /\ Cardinality(Names \cup Fds) =
             Cardinality(Names) + Cardinality(Fds) - Cardinality(Names \cap Fds)
    BY <1>3, <1>4, FS_Union
  <2>2. Cardinality(Names) \in Nat /\ Cardinality(Fds) \in Nat
    BY <1>3, <1>4, FS_CardinalityType
  <2>3. Cardinality(Names \cap Fds) \in Nat
    BY <1>4, FS_Subset, FS_CardinalityType
  <2> HIDE DEF Names, Fds, N
  <2>4. QED
    BY <1>1, <1>3, <1>4, <2>1, <2>2, <2>3
<1>6. Cardinality(Inodes) = N + 2
  BY <1>1, FS_Interval DEF Inodes
<1>7. \E i \in Inodes : i \notin Names \cup Fds
  <2> SUFFICES ASSUME Inodes \subseteq Names \cup Fds PROVE FALSE
    OBVIOUS
  <2>1. Cardinality(Inodes) <= Cardinality(Names \cup Fds)
    BY <1>5, FS_Subset
  <2>2. Cardinality(Names \cup Fds) \in Nat
    BY <1>5, FS_CardinalityType
  <2> HIDE DEF Names, Fds, N
  <2>3. QED
    BY <1>1, <1>5, <1>6, <2>1, <2>2
<1>8. \A i \in Inodes : i \in Used => i \in Names \cup Fds
  BY <1>1 DEF Used, Inodes
<1>9. \E i \in Inodes : i \notin Used
  BY <1>7, <1>8
<1>10. QED
  BY <1>9 DEF FreshInode

LEMMA ConstantTypes ==
    /\ Blank \in File /\ Load \in Ops /\ Idle \in Proc
    /\ Blank.plain = None /\ Blank # Torn
    /\ \A op \in Ops : op.kind = "load" => op = Load
<1>1. Blank \in File
  BY DEF Blank, File
<1>2. Load \in [kind : {"load"}] /\ Load \in Ops
  BY DEF Load, Ops
<1>3. Idle \in Proc
  BY <1>1, <1>2 DEF Idle, Proc, PCs
<1>4. ASSUME NEW op \in Ops, op.kind = "load" PROVE op = Load
  <2>1. op \in [kind : {"load"}]
    BY <1>4 DEF Ops
  <2>2. QED
    BY <2>1 DEF Load
<1>5. Blank.plain = None /\ Blank # Torn
  BY <1>1, StoreAssumption DEF Blank
<1>6. QED
  BY <1>1, <1>2, <1>3, <1>4, <1>5

\* What the file an operation makes has of the one it read.
LEMMA EditedFile ==
    ASSUME NEW op \in Ops, NEW file \in File
    PROVE  /\ Edited(op, file) \in File
           /\ op # Load => Edited(op, file).plain = None
           /\ op = Load => Edited(op, file) = file
           /\ Settings(file) = saved => Settings(Edited(op, file)) = Intended(op)
<1>1. CASE op.kind = "server"
  <2>1. op.server \in Servers /\ op # Load
    BY <1>1 DEF Ops, Load
  <2>2. Edited(op, file) = [file EXCEPT !.server = op.server, !.plain = None]
    BY <1>1 DEF Edited
  <2>3. Intended(op) = [saved EXCEPT !.server = op.server]
    BY <1>1 DEF Intended
  <2>4. Edited(op, file) = [server |-> op.server, hook |-> file.hook, plain |-> None]
    BY <2>2 DEF File
  <2>5. Settings(file) = saved => Intended(op) = [server |-> op.server, hook |-> file.hook]
    BY <2>3 DEF Settings
  <2>6. QED
    BY <2>1, <2>4, <2>5 DEF File, Settings
<1>2. CASE op.kind = "hook"
  <2>1. op.hook \in BOOLEAN /\ op # Load
    BY <1>2 DEF Ops, Load
  <2>2. Edited(op, file) = [file EXCEPT !.hook = op.hook, !.plain = None]
    BY <1>2 DEF Edited
  <2>3. Intended(op) = [saved EXCEPT !.hook = op.hook]
    BY <1>2 DEF Intended
  <2>4. Edited(op, file) = [server |-> file.server, hook |-> op.hook, plain |-> None]
    BY <2>2 DEF File
  <2>5. Settings(file) = saved => Intended(op) = [server |-> file.server, hook |-> op.hook]
    BY <2>3 DEF Settings
  <2>6. QED
    BY <2>1, <2>4, <2>5 DEF File, Settings
<1>3. CASE op.kind = "load"
  BY <1>3, ConstantTypes DEF Edited, Intended
<1>4. QED
  BY <1>1, <1>2, <1>3 DEF Ops

-----------------------------------------------------------------------------

\* What the steps that touch the files do to them, in terms the proofs below use.
LEMMA CreateTmpStep ==
    ASSUME TypeOK, OpenFiles, NEW p \in Procs, CreateTmp(p)
    PROVE  /\ tmp' \in Inodes /\ tmp' # conf /\ (tmp = 0 \/ tmp' = tmp)
           /\ \A q \in Procs : tmp = 0 => proc[q].fd # tmp'
           /\ data' = [data EXCEPT ![tmp'] = Blank]
           /\ proc' = [proc EXCEPT ![p] = [proc[p] EXCEPT !.fd = tmp', !.pc = "write"]]
           /\ UNCHANGED <<keyring, conf, saved, overlap>>
<1>1. proc[p].fd = 0
  BY DEF OpenFiles, CreateTmp
<1>2. FreshInode \in Inodes /\ FreshInode # conf /\ \A q \in Procs : proc[q].fd # FreshInode
  BY <1>1, FreshInodeExists DEF Used
<1>3. 0 \notin Inodes
  BY StoreAssumption, FS_CardinalityType DEF Inodes
<1>4. /\ tmp' \in Inodes /\ tmp' # conf /\ (tmp = 0 \/ tmp' = tmp)
      /\ \A q \in Procs : tmp = 0 => proc[q].fd # tmp'
  BY <1>2, <1>3 DEF CreateTmp, TypeOK
<1>5. proc' = [proc EXCEPT ![p] = [proc[p] EXCEPT !.fd = tmp', !.pc = "write"]]
  BY DEF CreateTmp, TypeOK
<1>6. QED
  BY <1>4, <1>5 DEF CreateTmp

LEMMA RenameStep ==
    ASSUME TypeOK, OpenFiles, NEW p \in Procs, Rename(p), tmp # 0
    PROVE  /\ tmp \in Inodes /\ conf' = tmp /\ tmp' = 0
           /\ saved' = Intended(proc[p].op)
           /\ \E idle \in {Idle, [Idle EXCEPT !.pc = "read"]} : proc' = [proc EXCEPT ![p] = idle]
           /\ data' \in [Inodes -> File \cup {Torn}]
           /\ \A i \in Inodes : data'[i] = data[i] \/ (i # tmp /\ data'[i] = Blank)
           /\ \A i \in Inodes :
                 i # tmp /\ (\A q \in Procs : proc[q].fd # i) => data'[i] = Blank
           /\ UNCHANGED <<keyring, overlap>>
<1>1. tmp \in Inodes
  BY DEF TypeOK
<1>2. /\ data' = [i \in Inodes |->
             IF i = tmp \/ \E q \in Procs \ {p} : proc[q].fd = i THEN data[i] ELSE Blank]
      /\ conf' = tmp /\ tmp' = 0 /\ saved' = Intended(proc[p].op)
      /\ UNCHANGED <<keyring, overlap>>
  BY DEF Rename
<1>3. \E idle \in {Idle, [Idle EXCEPT !.pc = "read"]} : proc' = [proc EXCEPT ![p] = idle]
  BY DEF Rename, End
<1>4. data' \in [Inodes -> File \cup {Torn}]
  BY <1>2, ConstantTypes DEF TypeOK
<1>5. \A i \in Inodes : data'[i] = data[i] \/ (i # tmp /\ data'[i] = Blank)
  BY <1>2
<1>6. \A i \in Inodes : i # tmp /\ (\A q \in Procs : proc[q].fd # i) => data'[i] = Blank
  BY <1>2
<1>7. QED
  BY <1>1, <1>2, <1>3, <1>4, <1>5, <1>6

LEMMA WriteTmpStep ==
    ASSUME TypeOK, OpenFiles, NEW p \in Procs, WriteTmp(p)
    PROVE  /\ proc[p].fd \in Inodes
           /\ \E file \in {proc[p].staged, Torn} :
                 /\ data' = [data EXCEPT ![proc[p].fd] = file]
                 /\ data[proc[p].fd] = Blank => file = proc[p].staged
           /\ proc' = [proc EXCEPT ![p] = [proc[p] EXCEPT !.pc = "rename"]]
           /\ UNCHANGED <<keyring, conf, tmp, saved, overlap>>
<1>1. proc[p].fd \in Inodes
  BY DEF TypeOK, OpenFiles, WriteTmp, Proc
<1>2. proc' = [proc EXCEPT ![p] = [proc[p] EXCEPT !.pc = "rename"]]
  BY DEF WriteTmp, Goto, TypeOK
<1>3. \E file \in {proc[p].staged, Torn} :
         /\ data' = [data EXCEPT ![proc[p].fd] = file]
         /\ data[proc[p].fd] = Blank => file = proc[p].staged
  BY DEF WriteTmp
<1>4. QED
  BY <1>1, <1>2, <1>3 DEF WriteTmp

\* What a process becomes when some of what it holds is replaced.
LEMMA ProcField ==
    ASSUME NEW r \in Proc, NEW x
    PROVE  /\ [r EXCEPT !.pc = x] = [pc |-> x, op |-> r.op, fd |-> r.fd, staged |-> r.staged]
           /\ [r EXCEPT !.staged = x] = [pc |-> r.pc, op |-> r.op, fd |-> r.fd, staged |-> x]
<1>1. [r EXCEPT !.pc = x] = [pc |-> x, op |-> r.op, fd |-> r.fd, staged |-> r.staged]
  BY DEF Proc
<1>2. [r EXCEPT !.staged = x] = [pc |-> r.pc, op |-> r.op, fd |-> r.fd, staged |-> x]
  BY DEF Proc
<1>3. QED
  BY <1>1, <1>2, Zenon

LEMMA ProcOpAndPc ==
    ASSUME NEW r \in Proc, NEW op \in Ops, NEW x
    PROVE  [r EXCEPT !.op = op, !.pc = x] = [pc |-> x, op |-> op, fd |-> r.fd, staged |-> r.staged]
<1> DEFINE s == [r EXCEPT !.op = op]
<1>1. s = [pc |-> r.pc, op |-> op, fd |-> r.fd, staged |-> r.staged]
  BY DEF Proc
<1>2. s \in Proc /\ s.op = op /\ s.fd = r.fd /\ s.staged = r.staged
  BY <1>1 DEF Proc
<1>3. [r EXCEPT !.op = op, !.pc = x] = [s EXCEPT !.pc = x]
  BY Zenon
<1> HIDE DEF s
<1>4. [s EXCEPT !.pc = x] = [pc |-> x, op |-> s.op, fd |-> s.fd, staged |-> s.staged]
  BY <1>2, ProcField
<1>5. QED
  BY <1>2, <1>3, <1>4, Zenon

LEMMA ProcStagedAndPc ==
    ASSUME NEW r \in Proc, NEW file \in File, NEW x
    PROVE  [r EXCEPT !.staged = file, !.pc = x] =
             [pc |-> x, op |-> r.op, fd |-> r.fd, staged |-> file]
<1> DEFINE s == [r EXCEPT !.staged = file]
<1>1. s = [pc |-> r.pc, op |-> r.op, fd |-> r.fd, staged |-> file]
  BY ProcField, Zenon
<1>2. s \in Proc /\ s.op = r.op /\ s.fd = r.fd /\ s.staged = file
  BY <1>1 DEF Proc
<1>3. [r EXCEPT !.staged = file, !.pc = x] = [s EXCEPT !.pc = x]
  BY Zenon
<1> HIDE DEF s
<1>4. [s EXCEPT !.pc = x] = [pc |-> x, op |-> s.op, fd |-> s.fd, staged |-> s.staged]
  BY <1>2, ProcField
<1>5. QED
  BY <1>2, <1>3, <1>4, Zenon

\* A process goes on with its operation, or becomes something else.
Became(p, new) == proc' = [proc EXCEPT ![p] = new]
On(p, pc, staged) == [pc |-> pc, op |-> proc[p].op, fd |-> proc[p].fd, staged |-> staged]

\* The steps that leave the files alone, but for what they say of the keyring.
LEMMA ProcessSteps ==
    ASSUME TypeOK, NEW p \in Procs
    PROVE  /\ Begin(p) => \E op \in Ops, pc \in {"secret", "read"} :
                /\ Became(p, [pc |-> pc, op |-> op, fd |-> 0, staged |-> Blank])
                /\ op.kind = "server" <=> pc = "secret"
           /\ StoreSecret(p) =>
                Became(p, Idle) \/ Became(p, On(p, "read", proc[p].staged))
           /\ ReadFile(p) =>
                \/ Became(p, Idle)
                \/ /\ Content # Torn /\ (proc[p].op = Load => Content.plain # None)
                   /\ \E pc \in {"migrate", "create"} :
                         /\ Became(p, On(p, pc, Edited(proc[p].op, Content)))
                         /\ pc = "migrate" <=> proc[p].op = Load
           /\ Migrate(p) =>
                Became(p, On(p, "create", [proc[p].staged EXCEPT !.plain = None]))
<1> USE DEF Became, On
<1>1. proc[p] \in Proc /\ proc[p] = On(p, proc[p].pc, proc[p].staged)
  BY DEF TypeOK, Proc
<1>2. ASSUME Begin(p)
      PROVE  \E op \in Ops, pc \in {"secret", "read"} :
                /\ Became(p, [pc |-> pc, op |-> op, fd |-> 0, staged |-> Blank])
                /\ op.kind = "server" <=> pc = "secret"
  <2>1. PICK op \in Ops : proc' = [proc EXCEPT ![p] = [Idle EXCEPT
              !.op = op, !.pc = IF op.kind = "server" THEN "secret" ELSE "read"]]
    BY <1>2 DEF Begin
  <2> DEFINE pc == IF op.kind = "server" THEN "secret" ELSE "read"
  <2>a. pc \in {"secret", "read"} /\ (op.kind = "server" <=> pc = "secret")
    OBVIOUS
  <2>b. proc' = [proc EXCEPT ![p] = [Idle EXCEPT !.op = op, !.pc = pc]]
    BY <2>1
  <2> HIDE DEF pc
  <2>2. [Idle EXCEPT !.op = op, !.pc = pc] = [pc |-> pc, op |-> op, fd |-> 0, staged |-> Blank]
    <3>1. [Idle EXCEPT !.op = op, !.pc = pc] =
            [pc |-> pc, op |-> op, fd |-> Idle.fd, staged |-> Idle.staged]
      BY ProcOpAndPc, ConstantTypes, Zenon
    <3>2. Idle.fd = 0 /\ Idle.staged = Blank
      BY DEF Idle
    <3>3. QED
      BY <3>1, <3>2, Zenon
  <2>3. QED
    BY <2>a, <2>b, <2>2
<1>3. ASSUME StoreSecret(p)
      PROVE  Became(p, Idle) \/ Became(p, On(p, "read", proc[p].staged))
  <2>1. [proc[p] EXCEPT !.pc = "read"] = On(p, "read", proc[p].staged)
    BY <1>1
  <2>2. Goto(p, "read") => Became(p, On(p, "read", proc[p].staged))
    BY <2>1 DEF Goto, TypeOK
  <2>3. QED
    BY <1>3, <2>2 DEF StoreSecret, End
<1>4. ASSUME ReadFile(p), ~Became(p, Idle)
      PROVE  /\ Content # Torn /\ (proc[p].op = Load => Content.plain # None)
             /\ \E pc \in {"migrate", "create"} :
                   /\ Became(p, On(p, pc, Edited(proc[p].op, Content)))
                   /\ pc = "migrate" <=> proc[p].op = Load
  <2> DEFINE pc == IF proc[p].op = Load THEN "migrate" ELSE "create"
             file == Edited(proc[p].op, Content)
  <2>0. file \in File
    <3>1. Content # Torn /\ Content \in File \cup {Torn}
      BY <1>4, ConstantTypes DEF ReadFile, End, Content, TypeOK
    <3>2. QED
      BY <1>1, <3>1, EditedFile DEF Proc
  <2>1. /\ Content # Torn /\ (proc[p].op = Load => Content.plain # None)
        /\ proc' = [proc EXCEPT ![p].staged = file, ![p].pc = pc]
    BY <1>4 DEF ReadFile, End
  <2> HIDE DEF file
  <2>2. proc' = [proc EXCEPT ![p] = [proc[p] EXCEPT !.staged = file, !.pc = pc]]
    BY <2>1 DEF TypeOK
  <2>a. pc \in {"migrate", "create"} /\ (pc = "migrate" <=> proc[p].op = Load)
    OBVIOUS
  <2> HIDE DEF pc
  <2>b. [proc[p] EXCEPT !.staged = file, !.pc = pc] = On(p, pc, file)
    BY <1>1, <2>0, ProcStagedAndPc, Zenon DEF On
  <2>3. QED
    BY <2>1, <2>2, <2>a, <2>b DEF file
<1>5. ASSUME Migrate(p)
      PROVE  Became(p, On(p, "create", [proc[p].staged EXCEPT !.plain = None]))
  <2> DEFINE file == [proc[p].staged EXCEPT !.plain = None]
  <2>0. file \in File
    BY <1>1 DEF Proc, File
  <2>1. proc' = [proc EXCEPT ![p].staged = file, ![p].pc = "create"]
    BY <1>5 DEF Migrate, TypeOK
  <2> HIDE DEF file
  <2>2. proc' = [proc EXCEPT ![p] = [proc[p] EXCEPT !.staged = file, !.pc = "create"]]
    BY <2>1 DEF TypeOK
  <2>3. [proc[p] EXCEPT !.staged = file, !.pc = "create"] = On(p, "create", file)
    BY <1>1, <2>0, ProcStagedAndPc, Zenon DEF On
  <2>4. QED
    BY <2>2, <2>3 DEF file
<1>6. QED
  BY <1>2, <1>3, <1>4, <1>5

\* The variables hold values of their types, and no name stands for the inode of
\* the other.
LEMMA StoreTypeInvariant == Spec => [](TypeOK /\ OpenFiles)
<1>0. /\ 0 \notin Inodes /\ 1 \in Inodes
      /\ Idle = [pc |-> "idle", op |-> Load, fd |-> 0, staged |-> Blank]
      /\ [Idle EXCEPT !.pc = "read"] = [pc |-> "read", op |-> Load, fd |-> 0, staged |-> Blank]
  BY StoreAssumption, FS_CardinalityType DEF Inodes, Idle
<1>1. Init => TypeOK /\ OpenFiles
  <2> SUFFICES ASSUME Init PROVE TypeOK /\ OpenFiles
    OBVIOUS
  <2>1. PICK file \in File :
          /\ data = [i \in Inodes |-> IF i = 1 THEN file ELSE Blank]
          /\ conf \in IF file = Blank THEN {0, 1} ELSE {1}
          /\ keyring \in IF file.plain = None THEN Passwords \cup {None} ELSE {None}
          /\ saved = [server |-> file.server, hook |-> file.hook]
    BY DEF Init
  <2>2. saved \in [server : Servers \cup {None}, hook : BOOLEAN]
    BY <2>1 DEF File
  <2>3. QED
    BY <1>0, <2>1, <2>2, ConstantTypes DEF Init, TypeOK, OpenFiles
<1>2. TypeOK /\ OpenFiles /\ [Next]_vars => TypeOK' /\ OpenFiles'
  <2> SUFFICES ASSUME TypeOK, OpenFiles, [Next]_vars PROVE TypeOK' /\ OpenFiles'
    OBVIOUS
  <2>0. \A p \in Procs : proc[p] \in Proc
    BY DEF TypeOK
  <2>a. ASSUME NEW p \in Procs, NEW new \in Proc, Became(p, new),
               new.fd # 0 <=> new.pc \in {"write", "rename"},
               new.pc = "secret" => new.op.kind = "server"
        PROVE  proc' \in [Procs -> Proc] /\ OpenFiles'
    BY <2>a DEF Became, TypeOK, OpenFiles
  <2>b. ASSUME NEW p \in Procs, Became(p, Idle) \/ Became(p, [Idle EXCEPT !.pc = "read"])
        PROVE  proc' \in [Procs -> Proc] /\ OpenFiles'
    <3>1. [Idle EXCEPT !.pc = "read"] \in Proc
      BY <1>0, ConstantTypes DEF Proc, PCs
    <3>2. QED
      BY <1>0, <2>a, <2>b, <3>1, ConstantTypes
  <2>c. ASSUME NEW p \in Procs, NEW pc \in {"read", "migrate", "create"}, NEW staged \in File,
               proc[p].pc \notin {"write", "rename"}, Became(p, On(p, pc, staged))
        PROVE  proc' \in [Procs -> Proc] /\ OpenFiles'
    <3>1. proc[p].fd = 0
      BY <2>c DEF OpenFiles
    <3>2. On(p, pc, staged) \in Proc /\ On(p, pc, staged).fd = 0 /\ On(p, pc, staged).pc = pc
      BY <2>0, <3>1 DEF On, Proc, PCs
    <3> HIDE DEF On
    <3>3. QED
      BY <2>a, <2>c, <3>2
  <2>1. ASSUME NEW p \in Procs, Begin(p) PROVE TypeOK' /\ OpenFiles'
    <3>1. PICK op \in Ops, pc \in {"secret", "read"} :
             /\ Became(p, [pc |-> pc, op |-> op, fd |-> 0, staged |-> Blank])
             /\ op.kind = "server" <=> pc = "secret"
      BY <2>1, ProcessSteps
    <3> DEFINE new == [pc |-> pc, op |-> op, fd |-> 0, staged |-> Blank]
    <3>2. new \in Proc /\ new.fd = 0 /\ new.pc = pc
      BY ConstantTypes DEF Proc, PCs
    <3>a. Became(p, new)
      BY <3>1
    <3>b. new.op = op
      OBVIOUS
    <3> HIDE DEF new
    <3>c. (new.fd # 0 <=> new.pc \in {"write", "rename"})
          /\ (new.pc = "secret" => new.op.kind = "server")
      BY <3>1, <3>2, <3>b
    <3>3. proc' \in [Procs -> Proc] /\ OpenFiles'
      BY <2>a, <3>2, <3>a, <3>c, Zenon
    <3>4. QED
      BY <2>1, <3>3 DEF Begin, files, TypeOK
  <2>2. ASSUME NEW p \in Procs, StoreSecret(p) PROVE TypeOK' /\ OpenFiles'
    <3>1. proc' \in [Procs -> Proc] /\ OpenFiles'
      BY <2>0, <2>2, <2>b, <2>c, ProcessSteps DEF StoreSecret, Proc
    <3>2. keyring' \in Passwords \cup {None}
      <4>1. proc[p].op.password \in Passwords \cup {None}
        BY <2>0, <2>2 DEF Proc, Ops, OpenFiles, StoreSecret
      <4>2. QED
        BY <2>2, <4>1 DEF StoreSecret, TypeOK
    <3>3. QED
      BY <2>2, <3>1, <3>2 DEF StoreSecret, files, TypeOK
  <2>3. ASSUME NEW p \in Procs, ReadFile(p) PROVE TypeOK' /\ OpenFiles'
    <3>1. Content \in File \cup {Torn}
      BY ConstantTypes DEF Content, TypeOK
    <3>2. Content # Torn => Edited(proc[p].op, Content) \in File
      BY <2>0, <3>1, EditedFile DEF Proc
    <3>3. proc' \in [Procs -> Proc] /\ OpenFiles'
      BY <2>3, <2>b, <2>c, <3>2, ProcessSteps DEF ReadFile
    <3>4. QED
      BY <2>3, <3>3 DEF ReadFile, files, TypeOK
  <2>4. ASSUME NEW p \in Procs, Migrate(p) PROVE TypeOK' /\ OpenFiles'
    <3>1. proc[p].staged \in File
      BY <2>0 DEF Proc
    <3>2. [proc[p].staged EXCEPT !.plain = None] \in File /\ proc[p].staged.plain \in Passwords \cup {None}
      BY <3>1 DEF File
    <3>3. proc' \in [Procs -> Proc] /\ OpenFiles'
      BY <2>4, <2>c, <3>2, ProcessSteps DEF Migrate
    <3>4. QED
      BY <2>4, <3>2, <3>3 DEF Migrate, files, TypeOK
  <2>5. ASSUME NEW p \in Procs, CreateTmp(p) PROVE TypeOK' /\ OpenFiles'
    <3> DEFINE new == [proc[p] EXCEPT !.fd = tmp', !.pc = "write"]
    <3>1. new \in Proc /\ new.fd = tmp' /\ new.pc = "write"
      BY <2>0, <2>5, CreateTmpStep DEF Proc, PCs
    <3> HIDE DEF new
    <3>2. proc' \in [Procs -> Proc] /\ OpenFiles'
      BY <1>0, <2>5, <2>a, <3>1, CreateTmpStep DEF Became, new
    <3>3. QED
      BY <2>5, <3>2, CreateTmpStep, ConstantTypes DEF TypeOK
  <2>6. ASSUME NEW p \in Procs, WriteTmp(p) PROVE TypeOK' /\ OpenFiles'
    <3> DEFINE new == [proc[p] EXCEPT !.pc = "rename"]
    <3>1. new \in Proc /\ new.fd = proc[p].fd /\ new.pc = "rename" /\ proc[p].staged \in File
      BY <2>0 DEF Proc, PCs
    <3> HIDE DEF new
    <3>2. proc' \in [Procs -> Proc] /\ OpenFiles'
      BY <1>0, <2>6, <2>a, <3>1, WriteTmpStep DEF Became, new, OpenFiles, WriteTmp
    <3>3. QED
      BY <2>6, <3>1, <3>2, WriteTmpStep DEF TypeOK
  <2>7. ASSUME NEW p \in Procs, Rename(p) PROVE TypeOK' /\ OpenFiles'
    <3>1. CASE tmp = 0
      BY <2>7, <2>b, <3>1 DEF Rename, End, Became, files, TypeOK
    <3>2. CASE tmp # 0
      <4>1. proc' \in [Procs -> Proc] /\ OpenFiles'
        BY <2>7, <2>b, <3>2, RenameStep DEF Became
      <4>2. proc[p].op \in Ops
        BY <2>0 DEF Proc
      <4>3. Intended(proc[p].op) \in [server : Servers \cup {None}, hook : BOOLEAN]
        <5>1. CASE proc[p].op.kind = "server"
          <6>1. proc[p].op.server \in Servers
            BY <4>2, <5>1 DEF Ops
          <6>2. Intended(proc[p].op) = [saved EXCEPT !.server = proc[p].op.server]
            BY <5>1 DEF Intended
          <6>3. QED
            BY <6>1, <6>2 DEF TypeOK
        <5>2. CASE proc[p].op.kind = "hook"
          <6>1. proc[p].op.hook \in BOOLEAN
            BY <4>2, <5>2 DEF Ops
          <6>2. Intended(proc[p].op) = [saved EXCEPT !.hook = proc[p].op.hook]
            BY <5>2 DEF Intended
          <6>3. QED
            BY <6>1, <6>2 DEF TypeOK
        <5>3. CASE proc[p].op.kind = "load"
          BY <5>3 DEF Intended, TypeOK
        <5>4. QED
          BY <4>2, <5>1, <5>2, <5>3 DEF Ops
      <4>4. QED
        BY <1>0, <2>7, <3>2, <4>1, <4>3, RenameStep DEF TypeOK
    <3>3. QED
      BY <3>1, <3>2
  <2>8. ASSUME NEW p \in Procs, Stop(p) PROVE TypeOK' /\ OpenFiles'
    BY <2>8, <2>b DEF Stop, End, Became, files, TypeOK
  <2>9. CASE UNCHANGED vars
    BY <2>9 DEF vars, files, TypeOK, OpenFiles
  <2>10. QED
    BY <2>1, <2>2, <2>3, <2>4, <2>5, <2>6, <2>7, <2>8, <2>9 DEF Next
<1>3. QED
  BY <1>1, <1>2, PTL DEF Spec

\* The variables hold values of their types whatever the processes do, and no name
\* stands for the inode of the other.
THEOREM StoreTypeCorrect == Spec => []TypeOK
BY StoreTypeInvariant, PTL

-----------------------------------------------------------------------------

\* A step of p changes nothing of the other processes.
LEMMA BecameStep ==
    ASSUME TypeOK, NEW p \in Procs, NEW new, Became(p, new)
    PROVE  proc'[p] = new /\ \A q \in Procs : q # p => proc'[q] = proc[q]
BY DEF Became, TypeOK

\* What every step makes of the keyring and of the process that takes it.
LEMMA CoveredStep ==
    ASSUME TypeOK, OpenFiles, PasswordPlaces, NEW p \in Procs,
           Begin(p) \/ StoreSecret(p) \/ ReadFile(p) \/ Migrate(p)
             \/ CreateTmp(p) \/ WriteTmp(p) \/ Rename(p) \/ Stop(p)
    PROVE  /\ keyring' = keyring \/ keyring' # None
           /\ \A q \in Procs : Covered(proc'[q], keyring')
<1>0. /\ \A q \in Procs : proc[q] \in Proc
      /\ Covered(proc[p], keyring)
      /\ \A r, key : Covered(r, keyring) /\ (key = keyring \/ key # None) => Covered(r, key)
  BY DEF TypeOK, PasswordPlaces, Covered
<1>1. ASSUME NEW new, Became(p, new), keyring' = keyring \/ keyring' # None,
             Covered(new, keyring')
      PROVE  /\ keyring' = keyring \/ keyring' # None
             /\ \A q \in Procs : Covered(proc'[q], keyring')
  <2>1. proc'[p] = new /\ \A q \in Procs : q # p => proc'[q] = proc[q]
    BY <1>1, BecameStep
  <2>2. ASSUME NEW q \in Procs PROVE Covered(proc'[q], keyring')
    <3>1. CASE q = p
      BY <1>1, <2>1, <3>1
    <3>2. CASE q # p
      BY <1>0, <1>1, <2>1, <3>2, Zenon DEF PasswordPlaces
    <3>3. QED
      BY <3>1, <3>2
  <2>3. QED
    BY <1>1, <2>2
<1>2. \A new, key : new.pc = "idle" \/ (new.pc = "read" /\ new.op.kind # "server") => Covered(new, key)
  BY DEF Covered
<1>3. /\ Idle.pc = "idle" /\ [Idle EXCEPT !.pc = "read"].pc = "read"
      /\ [Idle EXCEPT !.pc = "read"].op.kind # "server"
  BY DEF Idle, Load
<1>4. CASE Begin(p)
  <2>1. PICK op \in Ops, pc \in {"secret", "read"} :
           /\ Became(p, [pc |-> pc, op |-> op, fd |-> 0, staged |-> Blank])
           /\ op.kind = "server" <=> pc = "secret"
    BY <1>4, ProcessSteps
  <2>2. Covered([pc |-> pc, op |-> op, fd |-> 0, staged |-> Blank], keyring')
    BY <2>1 DEF Covered
  <2>3. QED
    BY <1>1, <1>4, <2>1, <2>2 DEF Begin
<1>5. CASE StoreSecret(p)
  <2>1. CASE Became(p, Idle)
    <3>1. keyring' = keyring \/ keyring' # None
      BY <1>5 DEF StoreSecret
    <3>2. QED
      BY <1>1, <1>2, <1>3, <2>1, <3>1
  <2>2. CASE Became(p, On(p, "read", proc[p].staged)) /\ ~Became(p, Idle)
    <3>1. keyring' # None
      BY <1>5, <2>2 DEF StoreSecret, Became, End
    <3>2. Covered(On(p, "read", proc[p].staged), keyring')
      BY <3>1 DEF Covered, On
    <3>3. QED
      BY <1>1, <2>2, <3>1, <3>2
  <2>3. QED
    BY <1>5, <2>1, <2>2, ProcessSteps
<1>6. CASE ReadFile(p)
  <2>0. keyring' = keyring /\ Content \in File \cup {Torn} /\ proc[p].op \in Ops
    BY <1>0, <1>6, ConstantTypes DEF ReadFile, Content, TypeOK, Proc
  <2>1. CASE Became(p, Idle)
    BY <1>1, <1>2, <1>3, <2>0, <2>1
  <2>2. CASE ~Became(p, Idle)
    <3>1. PICK pc \in {"migrate", "create"} :
             /\ Became(p, On(p, pc, Edited(proc[p].op, Content)))
             /\ pc = "migrate" <=> proc[p].op = Load
      BY <1>6, <2>2, ProcessSteps
    <3>2. Content \in File /\ (proc[p].op = Load => Content.plain # None)
      BY <1>6, <2>0, <2>2, ProcessSteps
    <3> DEFINE new == On(p, pc, Edited(proc[p].op, Content))
    <3>3. new.pc = pc /\ new.op = proc[p].op /\ new.staged = Edited(proc[p].op, Content)
      BY DEF On
    <3>4. proc[p].op.kind # "hook" /\ proc[p].op # Load => proc[p].op.kind = "server"
      BY <2>0, ConstantTypes DEF Ops
    <3>5. proc[p].op.kind = "server" => keyring # None
      BY <1>0, <1>6 DEF Covered, ReadFile
    <3> HIDE DEF new
    <3>6. CASE proc[p].op = Load
      <4>1. Edited(proc[p].op, Content).plain # None
        BY <2>0, <3>2, <3>6, EditedFile
      <4>2. QED
        BY <1>1, <2>0, <3>1, <3>3, <3>6, <4>1 DEF Covered, new
    <3>7. CASE proc[p].op # Load
      <4>1. Edited(proc[p].op, Content).plain = None
        BY <2>0, <3>2, <3>7, EditedFile
      <4>2. Covered(new, keyring')
        BY <2>0, <3>1, <3>3, <3>4, <3>5, <3>7, <4>1 DEF Covered
      <4>3. QED
        BY <1>1, <2>0, <3>1, <4>2 DEF new
    <3>8. QED
      BY <3>6, <3>7
  <2>3. QED
    BY <2>1, <2>2
<1>7. CASE Migrate(p)
  <2> DEFINE file == [proc[p].staged EXCEPT !.plain = None]
  <2>1. keyring' # None
    BY <1>0, <1>7 DEF Migrate, Covered
  <2>2. file.plain = None
    BY <1>0 DEF Proc, File
  <2> HIDE DEF file
  <2>3. Covered(On(p, "create", file), keyring')
    BY <2>1, <2>2 DEF Covered, On
  <2>4. Became(p, On(p, "create", file))
    BY <1>7, ProcessSteps DEF file
  <2>5. QED
    BY <1>1, <2>1, <2>3, <2>4
<1>8. CASE CreateTmp(p)
  <2> DEFINE new == [proc[p] EXCEPT !.fd = tmp', !.pc = "write"]
  <2>1. new.pc = "write" /\ new.op = proc[p].op /\ new.staged = proc[p].staged
    BY <1>0 DEF Proc
  <2> HIDE DEF new
  <2>2. Covered(new, keyring)
    BY <1>0, <1>8, <2>1 DEF Covered, CreateTmp
  <2>3. Became(p, new) /\ keyring' = keyring
    BY <1>8, CreateTmpStep DEF Became, new
  <2>4. QED
    BY <1>1, <2>2, <2>3
<1>9. CASE WriteTmp(p)
  <2> DEFINE new == [proc[p] EXCEPT !.pc = "rename"]
  <2>1. new.pc = "rename" /\ new.op = proc[p].op /\ new.staged = proc[p].staged
    BY <1>0 DEF Proc
  <2> HIDE DEF new
  <2>2. Covered(new, keyring)
    BY <1>0, <1>9, <2>1 DEF Covered, WriteTmp
  <2>3. Became(p, new) /\ keyring' = keyring
    BY <1>9, WriteTmpStep DEF Became, new
  <2>4. QED
    BY <1>1, <2>2, <2>3
<1>10. CASE Rename(p)
  <2>1. \E idle \in {Idle, [Idle EXCEPT !.pc = "read"]} : Became(p, idle)
    BY <1>10 DEF Rename, End, Became
  <2>2. keyring' = keyring
    BY <1>10 DEF Rename
  <2>3. QED
    BY <1>1, <1>2, <1>3, <2>1, <2>2
<1>11. CASE Stop(p)
  BY <1>1, <1>2, <1>3, <1>11 DEF Stop, End, Became
<1>12. QED
  BY <1>4, <1>5, <1>6, <1>7, <1>8, <1>9, <1>10, <1>11


\* No step lets a password be in another file than config.toml.
LEMMA PlainInConfStep ==
    ASSUME TypeOK, TypeOK', OpenFiles, PasswordPlaces, NEW p \in Procs,
           Begin(p) \/ StoreSecret(p) \/ ReadFile(p) \/ Migrate(p)
             \/ CreateTmp(p) \/ WriteTmp(p) \/ Rename(p) \/ Stop(p)
    PROVE  PlainInConf'
<1>0. /\ \A q \in Procs : proc[q] \in Proc /\ proc'[q] \in Proc
      /\ data \in [Inodes -> File \cup {Torn}] /\ 0 \notin Inodes
  BY StoreAssumption, FS_CardinalityType DEF TypeOK, Inodes
<1>1. ASSUME data' = data, conf' = conf, \A q \in Procs : proc'[q].fd = proc[q].fd \/ proc'[q].fd = 0
      PROVE  PlainInConf'
  BY <1>0, <1>1 DEF PasswordPlaces, PlainInConf
<1>2. CASE CreateTmp(p)
  <2> DEFINE new == [proc[p] EXCEPT !.fd = tmp', !.pc = "write"]
  <2>1. new.fd = tmp'
    BY <1>0 DEF Proc
  <2>2. Became(p, new)
    BY <1>2, CreateTmpStep DEF Became
  <2> HIDE DEF new
  <2>3. \A q \in Procs : proc'[q].fd = proc[q].fd \/ proc'[q].fd = tmp'
    BY <2>1, <2>2, BecameStep
  <2>4. /\ tmp' \in Inodes /\ conf' = conf
        /\ \A i \in Inodes : data'[i] = IF i = tmp' THEN Blank ELSE data[i]
    BY <1>0, <1>2, CreateTmpStep
  <2>5. QED
    BY <2>3, <2>4, ConstantTypes DEF PasswordPlaces, PlainInConf
<1>3. CASE WriteTmp(p)
  <2> DEFINE new == [proc[p] EXCEPT !.pc = "rename"]
  <2>1. new.fd = proc[p].fd /\ proc[p].staged.plain = None
    BY <1>0, <1>3 DEF Proc, WriteTmp, PasswordPlaces, Covered
  <2>2. Became(p, new) /\ conf' = conf
    BY <1>3, WriteTmpStep DEF Became
  <2> HIDE DEF new
  <2>3. \A q \in Procs : proc'[q].fd = proc[q].fd
    BY <2>1, <2>2, BecameStep
  <2>4. \A i \in Inodes :
           data'[i] = data[i] \/ data'[i] = proc[p].staged \/ data'[i] = Torn
    BY <1>0, <1>3, WriteTmpStep
  <2>5. QED
    BY <2>1, <2>2, <2>3, <2>4 DEF PasswordPlaces, PlainInConf
<1>4. CASE Rename(p)
  <2>1. \E idle \in {Idle, [Idle EXCEPT !.pc = "read"]} : Became(p, idle) /\ idle.fd = 0
    BY <1>4 DEF Rename, End, Became, Idle
  <2>2. \A q \in Procs : proc'[q].fd = proc[q].fd \/ proc'[q].fd = 0
    BY <2>1, BecameStep
  <2>3. CASE tmp = 0
    BY <1>1, <1>4, <2>2, <2>3 DEF Rename, files
  <2>4. CASE tmp # 0
    <3> SUFFICES ASSUME NEW i \in Inodes, data'[i] # Torn, data'[i].plain # None
                 PROVE  FALSE
      BY DEF PlainInConf
    <3>1. data'[i] = data[i] /\ data'[i] # Blank
      BY <1>4, <2>4, RenameStep, ConstantTypes
    <3>2. i = conf /\ \A q \in Procs : proc[q].fd # i
      BY <3>1 DEF PasswordPlaces, PlainInConf
    <3>3. i # tmp
      BY <1>0, <3>2 DEF TypeOK
    <3>4. QED
      BY <1>4, <2>4, <3>1, <3>2, <3>3, RenameStep
  <2>5. QED
    BY <2>3, <2>4
<1>5. CASE Begin(p) \/ StoreSecret(p) \/ ReadFile(p) \/ Migrate(p) \/ Stop(p)
  <2>1. data' = data /\ conf' = conf
    BY <1>5 DEF Begin, StoreSecret, ReadFile, Migrate, Stop, files
  <2>2. \E new : Became(p, new) /\ (new.fd = 0 \/ new.fd = proc[p].fd)
    <3>1. \A pc, staged : On(p, pc, staged).fd = proc[p].fd
      BY DEF On
    <3>2. Idle.fd = 0
      BY DEF Idle
    <3>3. \A op, pc : [pc |-> pc, op |-> op, fd |-> 0, staged |-> Blank].fd = 0
      OBVIOUS
    <3>4. CASE Begin(p)
      BY <3>3, <3>4, ProcessSteps
    <3>5. CASE StoreSecret(p)
      BY <3>1, <3>2, <3>5, ProcessSteps
    <3>6. CASE ReadFile(p)
      <4>1. CASE Became(p, Idle)
        BY <3>2, <4>1
      <4>2. CASE \E pc \in {"migrate", "create"} :
                    Became(p, On(p, pc, Edited(proc[p].op, Content)))
        BY <3>1, <4>2
      <4>3. QED
        BY <3>6, <4>1, <4>2, ProcessSteps, Zenon
    <3>7. CASE Migrate(p)
      BY <3>1, <3>7, ProcessSteps
    <3>8. CASE Stop(p)
      BY <3>2, <3>8 DEF Stop, End, Became
    <3>9. QED
      BY <1>5, <3>4, <3>5, <3>6, <3>7, <3>8
  <2>3. QED
    BY <1>1, <2>1, <2>2, BecameStep
<1>6. QED
  BY <1>2, <1>3, <1>4, <1>5

LEMMA PasswordInvariant == Spec => [](TypeOK /\ OpenFiles /\ PasswordPlaces)
<1>1. Init /\ TypeOK => PasswordPlaces
  <2> SUFFICES ASSUME Init, TypeOK PROVE PasswordPlaces
    OBVIOUS
  <2>1. PICK file \in File :
          /\ data = [i \in Inodes |-> IF i = 1 THEN file ELSE Blank]
          /\ conf \in IF file = Blank THEN {0, 1} ELSE {1}
    BY DEF Init
  <2>2. \A p \in Procs : proc[p] = Idle
    BY DEF Init
  <2>3. Idle.pc = "idle" /\ Idle.fd = 0
    BY DEF Idle
  <2>4. PlainInConf
    <3>1. 0 \notin Inodes
      BY StoreAssumption, FS_CardinalityType DEF Inodes
    <3>2. \A i \in Inodes : data[i].plain # None => i = conf
      BY <2>1, ConstantTypes
    <3>3. QED
      BY <2>2, <2>3, <3>1, <3>2 DEF PlainInConf
  <2>5. QED
    BY <2>2, <2>3, <2>4 DEF PasswordPlaces, Covered
<1>2. TypeOK /\ TypeOK' /\ OpenFiles /\ PasswordPlaces /\ [Next]_vars => PasswordPlaces'
  <2> SUFFICES ASSUME TypeOK, TypeOK', OpenFiles, PasswordPlaces, [Next]_vars
               PROVE  PasswordPlaces'
    OBVIOUS
  <2>1. CASE Next
    BY <2>1, CoveredStep, PlainInConfStep DEF Next, PasswordPlaces
  <2>2. CASE UNCHANGED vars
    BY <2>2 DEF vars, files, PasswordPlaces, PlainInConf, Covered
  <2>3. QED
    BY <2>1, <2>2
<1>3. QED
  BY <1>1, <1>2, StoreTypeInvariant, PTL DEF Spec

\* Moving the password of an old config.toml to the keyring, and every later replacement
\* of the file but that of webhook.set, leaves the user with a password, however many
\* processes do it at once and wherever they fail.
THEOREM MoveNeverLosesPassword == Spec => MoveKeepsPassword
<1>1. TypeOK /\ OpenFiles /\ PasswordPlaces /\ [Next]_vars
        => [HasPassword =>
              HasPassword' \/ \E p \in Procs : proc[p].op.kind = "hook" /\ Rename(p)]_vars
  <2> SUFFICES ASSUME TypeOK, OpenFiles, PasswordPlaces, NEW p \in Procs,
                      Begin(p) \/ StoreSecret(p) \/ ReadFile(p) \/ Migrate(p)
                        \/ CreateTmp(p) \/ WriteTmp(p) \/ Rename(p) \/ Stop(p),
                      HasPassword, ~(proc[p].op.kind = "hook" /\ Rename(p))
               PROVE  HasPassword'
    BY DEF Next
  <2>1. keyring' = keyring \/ keyring' # None
    BY CoveredStep
  <2>2. CASE keyring # None
    BY <2>1, <2>2 DEF HasPassword
  <2>3. CASE keyring = None
    <3>1. conf \in Inodes /\ conf # 0 /\ data[conf] # Torn /\ data[conf].plain # None
      BY <2>3, ConstantTypes DEF HasPassword, Content, TypeOK
    <3>2. \A q \in Procs : proc[q].fd # conf
      BY <3>1 DEF PasswordPlaces, PlainInConf
    <3>3. conf' = conf /\ data'[conf] = data[conf]
      <4>1. CASE CreateTmp(p)
        BY <3>1, <4>1, CreateTmpStep DEF TypeOK
      <4>2. CASE WriteTmp(p)
        BY <3>1, <3>2, <4>2, WriteTmpStep DEF TypeOK
      <4>3. CASE Rename(p)
        <5>1. tmp = 0
          BY <2>3, <4>3 DEF Rename, PasswordPlaces, Covered
        <5>2. QED
          BY <4>3, <5>1 DEF Rename, files
      <4>4. CASE Begin(p) \/ StoreSecret(p) \/ ReadFile(p) \/ Migrate(p) \/ Stop(p)
        BY <4>4 DEF Begin, StoreSecret, ReadFile, Migrate, Stop, files
      <4>5. QED
        BY <4>1, <4>2, <4>3, <4>4
    <3>4. QED
      BY <3>1, <3>3 DEF HasPassword, Content
  <2>4. QED
    BY <2>2, <2>3
<1>2. QED
  BY <1>1, PasswordInvariant, PTL DEF Spec, MoveKeepsPassword


-----------------------------------------------------------------------------

\* While operations do not overlap the file parses and says what was put there last.
KeptNow == ~overlap => Content # Torn /\ Settings(Content) = saved

LEMMA KeptMeansKept == TypeOK /\ KeptNow => SettingsKept
BY DEF TypeOK, KeptNow, SettingsKept, Settings

\* A step of p after which p does not replace the file, and which leaves it alone.
LEMMA OutOfTheWay ==
    ASSUME TypeOK, OneReplaces, KeptNow, NEW p \in Procs, NEW new, Became(p, new),
           new.pc \notin {"migrate", "create", "write", "rename"},
           UNCHANGED <<files, saved>>, overlap => overlap'
    PROVE  OneReplaces' /\ KeptNow'
<1>1. proc'[p] = new /\ \A q \in Procs : q # p => proc'[q] = proc[q]
  BY BecameStep
<1>2. ~overlap' => ~overlap
  OBVIOUS
<1>3. KeptNow'
  BY <1>2 DEF KeptNow, Content, Settings, files
<1>4. OneReplaces'
  <2> SUFFICES ASSUME ~overlap', NEW q \in Procs, Replacing(q)'
               PROVE  Staged(q)' /\ \A r \in Procs : Replacing(r)' => q = r
    BY DEF OneReplaces
  <2>1. q # p /\ proc'[q] = proc[q] /\ Replacing(q)
    BY <1>1 DEF Replacing
  <2>2. \A r \in Procs : Replacing(r)' => Replacing(r)
    BY <1>1 DEF Replacing
  <2>3. QED
    BY <1>2, <2>1, <2>2 DEF OneReplaces, Staged, Settings, Intended, files
<1>5. QED
  BY <1>3, <1>4


\* A step of p after which p, and nobody else, replaces the file.
LEMMA InCharge ==
    ASSUME TypeOK, NEW p \in Procs, NEW new, Became(p, new),
           \A q \in Procs \ {p} : ~Replacing(q), ~overlap' => Staged(p)'
    PROVE  OneReplaces'
<1>1. proc'[p] = new /\ \A q \in Procs : q # p => proc'[q] = proc[q]
  BY BecameStep
<1>2. \A q \in Procs : Replacing(q)' => q = p
  BY <1>1 DEF Replacing
<1>3. QED
  BY <1>2 DEF OneReplaces

\* Every step keeps both.
LEMMA KeptStep ==
    ASSUME TypeOK, OpenFiles, OneReplaces, KeptNow, NEW p \in Procs,
           Begin(p) \/ StoreSecret(p) \/ ReadFile(p) \/ Migrate(p)
             \/ CreateTmp(p) \/ WriteTmp(p) \/ Rename(p) \/ Stop(p)
    PROVE  OneReplaces' /\ KeptNow'
<1>0. /\ proc[p] \in Proc /\ data \in [Inodes -> File \cup {Torn}] /\ 0 \notin Inodes
      /\ Content \in File \cup {Torn}
  BY StoreAssumption, FS_CardinalityType, ConstantTypes DEF TypeOK, Inodes, Content
<1>1. ASSUME overlap' PROVE OneReplaces' /\ KeptNow'
  BY <1>1 DEF OneReplaces, KeptNow
<1>2. SUFFICES ASSUME ~overlap' PROVE OneReplaces' /\ KeptNow'
  BY <1>1
<1>3. ~overlap
  BY <1>2 DEF Begin, StoreSecret, ReadFile, Migrate, CreateTmp, WriteTmp, Rename, Stop
<1>4. Content \in File /\ Settings(Content) = saved
  BY <1>0, <1>3 DEF KeptNow
<1>5. Idle.pc = "idle" /\ [Idle EXCEPT !.pc = "read"].pc = "read"
  BY DEF Idle
<1>6. Replacing(p) => Staged(p) /\ \A q \in Procs \ {p} : ~Replacing(q)
  BY <1>3 DEF OneReplaces
<1>7. ASSUME Content' = Content, saved' = saved PROVE KeptNow'
  BY <1>4, <1>7, StoreAssumption DEF KeptNow, Settings
<1>8. ASSUME Became(p, Idle), UNCHANGED <<files, saved, overlap>> PROVE OneReplaces' /\ KeptNow'
  BY <1>5, <1>8, OutOfTheWay
<1>9. CASE Begin(p)
  <2>1. PICK op \in Ops, pc \in {"secret", "read"} :
           Became(p, [pc |-> pc, op |-> op, fd |-> 0, staged |-> Blank])
    BY <1>9, ProcessSteps
  <2>2. [pc |-> pc, op |-> op, fd |-> 0, staged |-> Blank].pc \notin {"migrate", "create", "write", "rename"}
    OBVIOUS
  <2>3. UNCHANGED <<files, saved, overlap>>
    BY <1>9 DEF Begin
  <2>4. QED
    BY <2>1, <2>2, <2>3, OutOfTheWay
<1>10. CASE StoreSecret(p)
  <2>1. UNCHANGED <<files, saved, overlap>>
    BY <1>10 DEF StoreSecret
  <2>2. CASE Became(p, Idle)
    BY <1>8, <2>1, <2>2
  <2>3. CASE Became(p, On(p, "read", proc[p].staged))
    <3>1. On(p, "read", proc[p].staged).pc = "read"
      BY DEF On
    <3>2. QED
      BY <2>1, <2>3, <3>1, OutOfTheWay
  <2>4. QED
    BY <1>10, <2>2, <2>3, ProcessSteps
<1>11. CASE ReadFile(p)
  <2>1. UNCHANGED <<files, saved>> /\ overlap' = overlap /\ \A q \in Procs \ {p} : ~Replacing(q)
    BY <1>2, <1>3, <1>11 DEF ReadFile, TypeOK
  <2>2. CASE Became(p, Idle)
    BY <1>8, <2>1, <2>2
  <2>3. CASE ~Became(p, Idle)
    <3>1. PICK pc \in {"migrate", "create"} : Became(p, On(p, pc, Edited(proc[p].op, Content)))
      BY <1>11, <2>3, ProcessSteps
    <3> DEFINE new == On(p, pc, Edited(proc[p].op, Content))
    <3>2. new.pc = pc /\ new.op = proc[p].op /\ new.staged = Edited(proc[p].op, Content)
      BY DEF On
    <3>3. Settings(Edited(proc[p].op, Content)) = Intended(proc[p].op)
      BY <1>0, <1>4, EditedFile DEF Proc
    <3> HIDE DEF new
    <3>4. proc'[p] = new /\ Became(p, new)
      BY <3>1, BecameStep DEF new
    <3>5. Staged(p)'
      BY <2>1, <3>2, <3>3, <3>4 DEF Staged, Settings, Intended
    <3>6. OneReplaces'
      BY <2>1, <3>4, <3>5, InCharge
    <3>7. QED
      BY <1>7, <2>1, <3>6 DEF Content, files
  <2>4. QED
    BY <2>2, <2>3
<1>12. CASE Migrate(p)
  <2> DEFINE file == [proc[p].staged EXCEPT !.plain = None]
             new == On(p, "create", file)
  <2>1. Settings(file) = Settings(proc[p].staged)
    BY <1>0 DEF Proc, File, Settings
  <2>2. new.pc = "create" /\ new.op = proc[p].op /\ new.staged = file
    BY DEF On
  <2>3. Became(p, new) /\ UNCHANGED <<files, saved, overlap>>
    BY <1>12, ProcessSteps DEF Migrate
  <2>4. Replacing(p)
    BY <1>12 DEF Replacing, Migrate
  <2> HIDE DEF file, new
  <2>5. proc'[p] = new
    BY <2>3, BecameStep
  <2>6. Staged(p)'
    BY <1>6, <2>1, <2>2, <2>3, <2>4, <2>5 DEF Staged, Settings, Intended
  <2>7. QED
    BY <1>6, <1>7, <2>3, <2>4, <2>6, InCharge DEF Content, files
<1>13. CASE CreateTmp(p)
  <2> DEFINE new == [proc[p] EXCEPT !.fd = tmp', !.pc = "write"]
  <2>1. new.pc = "write" /\ new.op = proc[p].op /\ new.staged = proc[p].staged /\ new.fd = tmp'
    BY <1>0 DEF Proc
  <2>2. Became(p, new) /\ UNCHANGED <<conf, saved, overlap>>
    BY <1>13, CreateTmpStep DEF Became
  <2>3. data'[tmp'] = Blank /\ (conf # 0 => data'[conf] = data[conf])
    BY <1>0, <1>13, CreateTmpStep DEF TypeOK
  <2>4. Replacing(p)
    BY <1>13 DEF Replacing, CreateTmp
  <2> HIDE DEF new
  <2>5. proc'[p] = new
    BY <2>2, BecameStep
  <2>6. Staged(p)'
    BY <1>6, <2>1, <2>2, <2>3, <2>4, <2>5 DEF Staged, Settings, Intended
  <2>7. Content' = Content
    BY <2>2, <2>3 DEF Content
  <2>8. QED
    BY <1>6, <1>7, <2>2, <2>4, <2>6, <2>7, InCharge
<1>14. CASE WriteTmp(p)
  <2> DEFINE new == [proc[p] EXCEPT !.pc = "rename"]
  <2>1. new.pc = "rename" /\ new.op = proc[p].op /\ new.staged = proc[p].staged /\ new.fd = proc[p].fd
    BY <1>0 DEF Proc
  <2>2. Became(p, new) /\ UNCHANGED <<conf, tmp, saved, overlap>>
    BY <1>14, WriteTmpStep DEF Became
  <2>3. Replacing(p) /\ Staged(p) /\ proc[p].fd = tmp /\ data[tmp] = Blank
    BY <1>6, <1>14 DEF Replacing, WriteTmp, Staged
  <2>4. tmp \in Inodes /\ data' = [data EXCEPT ![tmp] = proc[p].staged]
    BY <1>14, <2>3, WriteTmpStep
  <2>5. data'[tmp] = proc[p].staged /\ (conf # 0 => data'[conf] = data[conf])
    BY <1>0, <2>4 DEF TypeOK
  <2> HIDE DEF new
  <2>6. proc'[p] = new
    BY <2>2, BecameStep
  <2>7. Staged(p)'
    BY <2>1, <2>2, <2>3, <2>5, <2>6 DEF Staged, Settings, Intended
  <2>8. Content' = Content
    BY <2>2, <2>5 DEF Content
  <2>9. QED
    BY <1>6, <1>7, <2>2, <2>3, <2>7, <2>8, InCharge
<1>15. CASE Rename(p)
  <2>1. Replacing(p) /\ Staged(p) /\ proc[p].fd = tmp /\ data[tmp] = proc[p].staged
    BY <1>6, <1>15 DEF Replacing, Rename, Staged
  <2>2. tmp # 0
    BY <1>15, <2>1 DEF OpenFiles, Rename
  <2>3. /\ tmp \in Inodes /\ conf' = tmp /\ saved' = Intended(proc[p].op)
        /\ data'[tmp] = data[tmp]
    BY <1>15, <2>2, RenameStep
  <2>4. proc[p].staged \in File
    BY <1>0 DEF Proc
  <2>5. Content' = proc[p].staged
    BY <1>0, <2>1, <2>3 DEF Content
  <2>6. KeptNow'
    BY <2>1, <2>3, <2>4, <2>5, StoreAssumption DEF KeptNow, Staged, Settings
  <2>7. \E idle \in {Idle, [Idle EXCEPT !.pc = "read"]} : Became(p, idle)
    BY <1>15, <2>2, RenameStep DEF Became
  <2>8. \A q \in Procs : ~Replacing(q)'
    <3>1. PICK idle : Became(p, idle) /\ idle.pc \in {"idle", "read"}
      BY <1>5, <2>7
    <3>2. proc'[p] = idle /\ \A q \in Procs : q # p => proc'[q] = proc[q]
      BY <3>1, BecameStep
    <3>3. QED
      BY <1>6, <2>1, <3>1, <3>2 DEF Replacing
  <2>9. QED
    BY <2>6, <2>8 DEF OneReplaces
<1>16. CASE Stop(p)
  BY <1>8, <1>16 DEF Stop, End, Became
<1>17. QED
  BY <1>9, <1>10, <1>11, <1>12, <1>13, <1>14, <1>15, <1>16

\* As long as no operation reads while another replaces the file, a crash or an error
\* at any step leaves every setting as the last operation about it put it in place, for
\* any number of processes and operations.
THEOREM SettingsSurvive == Spec => []SettingsKept
<1>1. Init /\ TypeOK => OneReplaces /\ KeptNow
  <2> SUFFICES ASSUME Init, TypeOK PROVE OneReplaces /\ KeptNow
    OBVIOUS
  <2>1. PICK file \in File :
          /\ data = [i \in Inodes |-> IF i = 1 THEN file ELSE Blank]
          /\ conf \in IF file = Blank THEN {0, 1} ELSE {1}
          /\ saved = [server |-> file.server, hook |-> file.hook]
    BY DEF Init
  <2>2. 1 \in Inodes
    BY StoreAssumption, FS_CardinalityType DEF Inodes
  <2>3. Content = file
    BY <2>1, <2>2 DEF Content
  <2>4. KeptNow
    BY <2>1, <2>3, StoreAssumption DEF KeptNow, Settings
  <2>5. \A p \in Procs : ~Replacing(p)
    BY DEF Init, Replacing, Idle
  <2>6. QED
    BY <2>4, <2>5 DEF OneReplaces
<1>2. TypeOK /\ OpenFiles /\ OneReplaces /\ KeptNow /\ [Next]_vars => OneReplaces' /\ KeptNow'
  <2> SUFFICES ASSUME TypeOK, OpenFiles, OneReplaces, KeptNow, [Next]_vars
               PROVE  OneReplaces' /\ KeptNow'
    OBVIOUS
  <2>1. CASE Next
    BY <2>1, KeptStep DEF Next
  <2>2. CASE UNCHANGED vars
    BY <2>2 DEF vars, files, OneReplaces, Replacing, Staged, Settings, Intended, KeptNow, Content
  <2>3. QED
    BY <2>1, <2>2
<1>3. QED
  BY <1>1, <1>2, StoreTypeInvariant, KeptMeansKept, PTL DEF Spec

=============================================================================
