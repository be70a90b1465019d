-------------------------------- MODULE Backup --------------------------------
(***************************************************************************)
(* ump-ops backup, verify-backup and restore (ump.data_ops).  Operators    *)
(* and timers run them on one robot, possibly at once and with the same    *)
(* output, while the services go on writing.  Every copy of a database is  *)
(* one consistent version (SQLite's backup); a step of an operator is one  *)
(* operation on the file system.  Any of them may fail, and a process may  *)
(* die between any two.                                                    *)
(***************************************************************************)
EXTENDS Naturals, Sequences, FiniteSets

CONSTANTS
    Operators,  \* processes of ump-ops
    Roles,      \* the databases, copied in the order of this sequence
    MaxWrites,  \* bound on the writes of the services
    MaxFaults,  \* bound on failures, interrupts and crashes
    MaxDamage,  \* bound on damaged files
    Absent,     \* no file
    Damaged     \* the contents of a file the medium has damaged

ASSUME BackupAssumption ==
    /\ Roles \in Seq({Roles[i] : i \in DOMAIN Roles}) /\ Roles # <<>>
    /\ {MaxWrites, MaxFaults, MaxDamage} \subseteq Nat
    /\ Absent \notin Nat /\ Damaged \notin Nat \cup {Absent}

RoleSet == {Roles[i] : i \in 1..Len(Roles)}
NoFiles == [r \in RoleSet |-> Absent]

VARIABLES
    stored,   \* the version of each database
    op,       \* each operator: its step, the next role, the sums it knows
    out,      \* the backup directory: exists, files, manifest.json and its sums
    target,   \* the restore directory: exists, the files
    spent     \* history: writes, faults and damage, for the bounds

backupVars == <<stored, op, out, target, spent>>

NoDirectory == [exists |-> FALSE, files |-> NoFiles, manifest |-> "absent", sums |-> NoFiles]

Idle == [at |-> "idle", next |-> 1, sums |-> NoFiles]

BackupInit ==
    /\ stored = [r \in RoleSet |-> 0]
    /\ op = [p \in Operators |-> Idle]
    /\ out = NoDirectory
    /\ target = [exists |-> FALSE, files |-> NoFiles]
    /\ spent = [writes |-> 0, faults |-> 0, damage |-> 0]

At(p, step) == op[p].at = step
Goto(p, step) == op' = [op EXCEPT ![p].at = step]

(* A service commits to its database.                                      *)
Write(r) ==
    /\ spent.writes < MaxWrites
    /\ spent' = [spent EXCEPT !.writes = @ + 1]
    /\ stored' = [stored EXCEPT ![r] = @ + 1]
    /\ UNCHANGED <<op, out, target>>

-----------------------------------------------------------------------------
(* create_backup.                                                          *)

(* The output must not exist.  Another operator may create it after that.  *)
BackupChecks(p) ==
    /\ At(p, "idle")
    /\ ~out.exists
    /\ Goto(p, "mkdir")
    /\ UNCHANGED <<stored, out, target, spent>>

(* Mutant: mkdir is inside the try statement that removes the directory.   *)
MkdirRefusedCleans(p) == Goto(p, "removing")

(* mkdir raises for a directory that exists now, before the try statement. *)
MkdirRefused(p) == op' = [op EXCEPT ![p] = Idle]

BackupMkdir(p) ==
    /\ At(p, "mkdir")
    /\ IF out.exists
       THEN MkdirRefused(p) /\ UNCHANGED out
       ELSE Goto(p, "copying") /\ out' = [NoDirectory EXCEPT !.exists = TRUE]
    /\ UNCHANGED <<stored, target, spent>>

(* One database: copied, checked, hashed.                                  *)
BackupCopies(p) ==
    /\ At(p, "copying")
    /\ op[p].next <= Len(Roles)
    /\ LET r == Roles[op[p].next]
       IN  /\ out' = [out EXCEPT !.files[r] = stored[r]]
           /\ op' = [op EXCEPT ![p].next = @ + 1, ![p].sums[r] = stored[r]]
    /\ UNCHANGED <<stored, target, spent>>

CopiesDone(p) == op[p].next > Len(Roles)

BackupOpensManifest(p) ==
    /\ At(p, "copying")
    /\ CopiesDone(p)
    /\ out' = [out EXCEPT !.manifest = "partial"]
    /\ Goto(p, "writing")
    /\ UNCHANGED <<stored, target, spent>>

BackupWritesManifest(p) ==
    /\ At(p, "writing")
    /\ out' = [out EXCEPT !.manifest = "whole", !.sums = op[p].sums]
    /\ Goto(p, "written")
    /\ UNCHANGED <<stored, target, spent>>

BackupReturns(p) ==
    /\ At(p, "written")
    /\ op' = [op EXCEPT ![p] = Idle]
    /\ UNCHANGED <<stored, out, target, spent>>

(* A copy, its check or the manifest fails, or the operator interrupts.    *)
BackupFails(p) ==
    /\ op[p].at \in {"copying", "writing", "written"}
    /\ spent.faults < MaxFaults
    /\ spent' = [spent EXCEPT !.faults = @ + 1]
    /\ Goto(p, "removing")
    /\ UNCHANGED <<stored, out, target>>

(* rmtree with ignore_errors: the directory is gone, or some of its files  *)
(* could not be removed and stay.                                          *)
Removed(directory, gone) ==
    {gone} \cup
    {[directory EXCEPT !.files = [r \in RoleSet |-> IF r \in kept THEN @[r] ELSE Absent]] :
        kept \in SUBSET RoleSet}

BackupRemoves(p) ==
    /\ At(p, "removing")
    /\ \E left \in {out, [out EXCEPT !.manifest = "absent", !.sums = NoFiles]} :
          out' \in Removed(left, NoDirectory)
    /\ op' = [op EXCEPT ![p] = Idle]
    /\ UNCHANGED <<stored, target, spent>>

-----------------------------------------------------------------------------
(* What verify_backup says of a directory that nobody changes meanwhile:   *)
(* the manifest can be read and every file it names is there with its sum. *)
Verifies ==
    /\ out.manifest = "whole"
    /\ \A r \in RoleSet : out.sums[r] # Absent => out.files[r] = out.sums[r]

(* restore_backup begins with verify_backup, which reads the manifest ...  *)
RestoreBegins(p) ==
    /\ At(p, "idle")
    /\ out.manifest = "whole"
    /\ op' = [op EXCEPT ![p].at = "verifying", ![p].sums = out.sums]
    /\ UNCHANGED <<stored, out, target, spent>>

(* ... and then file after file, each as it is by then.                    *)
RestoreVerifies(p) ==
    /\ At(p, "verifying")
    /\ op[p].next <= Len(Roles)
    /\ LET r == Roles[op[p].next]
       IN  op' = [op EXCEPT ![p] = IF out.files[r] = @.sums[r]
                                   THEN [@ EXCEPT !.next = op[p].next + 1] ELSE Idle]
    /\ UNCHANGED <<stored, out, target, spent>>

(* All files are as the manifest said; the target must not exist.          *)
RestoreChecks(p) ==
    /\ At(p, "verifying")
    /\ CopiesDone(p)
    /\ op' = [op EXCEPT ![p] = IF target.exists THEN Idle
                               ELSE [@ EXCEPT !.at = "mkdir_target", !.next = 1]]
    /\ UNCHANGED <<stored, out, target, spent>>

RestoreMkdir(p) ==
    /\ At(p, "mkdir_target")
    /\ IF target.exists
       THEN op' = [op EXCEPT ![p] = Idle] /\ UNCHANGED target
       ELSE Goto(p, "reading") /\ target' = [target EXCEPT !.exists = TRUE]
    /\ UNCHANGED <<stored, out, spent>>

(* The manifest is read again, before the try statement: one that is gone  *)
(* or being written by now ends the restore and leaves the empty target.   *)
RestoreReads(p) ==
    /\ At(p, "reading")
    /\ IF out.manifest = "whole" THEN Goto(p, "restoring")
                                 ELSE op' = [op EXCEPT ![p] = Idle]
    /\ UNCHANGED <<stored, out, target, spent>>

RestoreCopies(p) ==
    /\ At(p, "restoring")
    /\ op[p].next <= Len(Roles)
    /\ LET r == Roles[op[p].next]
       IN  /\ out.files[r] # Absent
           /\ target' = [target EXCEPT !.files[r] = out.files[r]]
    /\ op' = [op EXCEPT ![p].next = @ + 1]
    /\ UNCHANGED <<stored, out, spent>>

RestoreReturns(p) ==
    /\ At(p, "restoring")
    /\ CopiesDone(p)
    /\ Goto(p, "restored")
    /\ UNCHANGED <<stored, out, target, spent>>

(* A file is gone or a copy fails: the target is removed, as far as it can *)
(* be.                                                                     *)
RestoreFails(p) ==
    /\ At(p, "restoring")
    /\ \/ /\ op[p].next <= Len(Roles)
          /\ out.files[Roles[op[p].next]] = Absent
          /\ UNCHANGED spent
       \/ /\ spent.faults < MaxFaults
          /\ spent' = [spent EXCEPT !.faults = @ + 1]
    /\ target' \in Removed(target, [exists |-> FALSE, files |-> NoFiles])
    /\ op' = [op EXCEPT ![p] = Idle]
    /\ UNCHANGED <<stored, out>>

-----------------------------------------------------------------------------
(* The process is killed and leaves what it has written.                   *)
Killed(p) ==
    /\ op[p].at \notin {"idle", "restored"}
    /\ spent.faults < MaxFaults
    /\ spent' = [spent EXCEPT !.faults = @ + 1]
    /\ op' = [op EXCEPT ![p] = Idle]
    /\ UNCHANGED <<stored, out, target>>

(* The medium damages a file of the backup.                                *)
Damage(r) ==
    /\ out.files[r] # Absent
    /\ spent.damage < MaxDamage
    /\ spent' = [spent EXCEPT !.damage = @ + 1]
    /\ out' = [out EXCEPT !.files[r] = Damaged]
    /\ UNCHANGED <<stored, op, target>>

BackupProcess(p) ==
    \/ BackupChecks(p) \/ BackupMkdir(p) \/ BackupCopies(p) \/ BackupOpensManifest(p)
    \/ BackupWritesManifest(p) \/ BackupReturns(p) \/ BackupFails(p) \/ BackupRemoves(p)

RestoreProcess(p) ==
    \/ RestoreBegins(p) \/ RestoreVerifies(p) \/ RestoreChecks(p) \/ RestoreMkdir(p)
    \/ RestoreReads(p) \/ RestoreCopies(p) \/ RestoreReturns(p) \/ RestoreFails(p)

BackupNext ==
    \/ \E p \in Operators : BackupProcess(p) \/ RestoreProcess(p) \/ Killed(p)
    \/ \E r \in RoleSet : Write(r) \/ Damage(r)

BackupSpec == BackupInit /\ [][BackupNext]_backupVars

-----------------------------------------------------------------------------
BackupTypeOK ==
    /\ stored \in [RoleSet -> Nat]
    /\ \A p \in Operators :
          /\ op[p].at \in {"idle", "mkdir", "copying", "writing", "written", "removing",
                          "verifying", "mkdir_target", "reading", "restoring", "restored"}
          /\ op[p].next \in 1..(Len(Roles) + 1)
          /\ op[p].sums \in [RoleSet -> Nat \cup {Absent}]
    /\ out.exists \in BOOLEAN /\ target.exists \in BOOLEAN
    /\ out.files \in [RoleSet -> Nat \cup {Absent, Damaged}]
    /\ target.files \in [RoleSet -> Nat \cup {Absent, Damaged}]

(* A backup that verifies has every database as it was at some time; one   *)
(* that is about to be reported as made does verify, although backups of   *)
(* the same output fail, are killed or are refused meanwhile; and what a   *)
(* restore reports as restored is the backup it has verified, unless the   *)
(* medium or an interrupted backup has changed that one.                   *)
BackupsAreWhole ==
    /\ Verifies => \A r \in RoleSet : out.files[r] \in 0..stored[r]
    /\ \A p \in Operators : spent.damage = 0 =>
          /\ At(p, "written") => Verifies
          /\ At(p, "restored") /\ out.sums = op[p].sums => target.files = op[p].sums
=============================================================================
