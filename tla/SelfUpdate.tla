------------------------------ MODULE SelfUpdate ------------------------------
(***************************************************************************)
(* `soroq update` (selfupdate.go): the running CLI replaces the two        *)
(* binaries it is made of, soroq and soroqctl, in its own directory.       *)
(*                                                                         *)
(* Every step is one file operation of the code, because the process can   *)
(* be killed between any two of them, and because nothing stops a second   *)
(* `soroq update` from running at the same time.  The next run starts by   *)
(* repairing what a killed one left.  install.sh puts both binaries in     *)
(* place, one after the other, without looking at backups.                 *)
(*                                                                         *)
(* Abstracted: `--check`, which changes no file; download, checksum and    *)
(* extraction, which happen outside the directory and end the command with *)
(* "nothing changed" when they fail; file contents, which are versions.    *)
(***************************************************************************)
EXTENDS Integers, FiniteSets

CONSTANTS
    Updaters,     \* processes that may run `soroq update`
    MaxVersion,   \* releases are numbered 0 .. MaxVersion
    Absent,       \* no such file
    Partial,      \* a copy that was cut short
    MaxFaults,    \* bound on file operations and version checks that fail
    MaxUpdateKills \* bound on processes killed

Binaries == {"soroq", "soroqctl"}
Versions == 0 .. MaxVersion

(* Files that are not there, or not whole, are of no version.              *)
ASSUME SelfUpdateAssumption ==
    /\ Absent \notin Versions /\ Partial \notin Versions /\ Absent # Partial
    /\ MaxVersion \in Nat /\ MaxFaults \in Nat /\ MaxUpdateKills \in Nat

VARIABLES
    target,     \* <dir>/soroq and <dir>/soroqctl
    backup,     \* <dir>/.soroq.bak and <dir>/.soroqctl.bak
    staged,     \* <dir>/.soroq.new and <dir>/.soroqctl.new
    stable,     \* the versions that are published as stable releases now
    proc,       \* the state of each `soroq update`
    script,     \* the version install.sh is half done with, or Absent
    verified,   \* the newest version that was in place and checked (history)
    faults, updateKills

files == <<target, backup, staged>>
updateVars == <<target, backup, staged, stable, proc, script, verified, faults, updateKills>>

Phases == {"repair", "sweep", "resolve", "stage", "backup", "unback", "install",
           "verify", "remove", "restore", "discard", "clean"}

(* A process does the operation of its phase on one binary; current is the *)
(* version it was started from, expect the one it installs, have says      *)
(* which binaries it found in place before backing them up.                *)
Process == [phase : Phases \cup {"idle"}, bin : Binaries, current : Versions,
            expect : Versions, have : [Binaries -> BOOLEAN]]

Idle == [phase |-> "idle", bin |-> "soroq", current |-> 0, expect |-> 0,
         have |-> [b \in Binaries |-> TRUE]]

UpdateTypeOK ==
    /\ target \in [Binaries -> Versions \cup {Absent, Partial}]
    /\ backup \in [Binaries -> Versions \cup {Absent, Partial}]
    /\ staged \in [Binaries -> Versions \cup {Absent, Partial}]
    /\ stable \subseteq Versions
    /\ proc \in [Updaters -> Process]
    /\ script \in Versions \cup {Absent}
    /\ verified \in Versions
    /\ faults \in 0 .. MaxFaults /\ updateKills \in 0 .. MaxUpdateKills

-----------------------------------------------------------------------------
(* File operations *)

Exists(file, b) == file[b] # Absent
Remove(file, b) == [file EXCEPT ![b] = Absent]
Put(file, b, content) == [file EXCEPT ![b] = content]

(* os.Rename fails when the source is gone, and may fail otherwise. *)
RenameOutcomes(src, b) ==
    IF ~Exists(src, b) THEN {FALSE}
    ELSE IF faults < MaxFaults THEN {TRUE, FALSE} ELSE {TRUE}

(* The rename that failed although its source was there is a fault. *)
Charge(src, b, ok) == faults' = IF Exists(src, b) /\ ~ok THEN faults + 1 ELSE faults

versionAtLeast(current, latest) == current >= latest

UpdateAt(u, phase) == proc[u].phase = phase
UpdateGoto(u, phase, b) == proc' = [proc EXCEPT ![u].phase = phase, ![u].bin = b]
Finish(u) == proc' = [proc EXCEPT ![u] = Idle]

(* soroq first, then soroqctl, then the next phase. *)
Advance(u, phase, after) ==
    IF proc[u].bin = "soroq" THEN UpdateGoto(u, phase, "soroqctl") ELSE UpdateGoto(u, after, "soroq")

-----------------------------------------------------------------------------
UpdateInit ==
    /\ target = [b \in Binaries |-> 0]
    /\ backup = [b \in Binaries |-> Absent]
    /\ staged = [b \in Binaries |-> Absent]
    /\ stable = {0}
    /\ proc = [u \in Updaters |-> Idle]
    /\ script = Absent
    /\ verified = 0
    /\ faults = 0 /\ updateKills = 0

(* The command runs from the binary in place: without one there is nothing *)
(* to run.  The version it takes itself for is compiled into it.           *)
UpdateStart(u) ==
    /\ UpdateAt(u, "idle")
    /\ target["soroq"] \in Versions
    /\ proc' = [proc EXCEPT ![u] = [Idle EXCEPT !.phase = "repair",
                                                !.current = target["soroq"]]]
    /\ UNCHANGED <<files, stable, script, verified, faults, updateKills>>

(* Mutant: restore over a binary in place. *)
RestoresBlindly(b) == Exists(backup, b)

(* The one rule of repairInterruptedUpdate: a binary in place is never     *)
(* overwritten from a backup.                                              *)
RestoresBackup(b) == Exists(backup, b) /\ ~Exists(target, b)

(* repairInterruptedUpdate, one binary: a missing binary comes back from   *)
(* its backup, a present one costs the backup.  A restore that fails keeps *)
(* the staged file as well.                                                *)
Repair(u) ==
    LET b == proc[u].bin
    IN  /\ UpdateAt(u, "repair")
        /\ \/ /\ RestoresBackup(b)
              /\ \E ok \in RenameOutcomes(backup, b) :
                    /\ Charge(backup, b, ok)
                    /\ IF ok
                       THEN /\ target' = Put(target, b, backup[b])
                            /\ backup' = Remove(backup, b)
                            /\ UpdateGoto(u, "sweep", b)
                       ELSE UNCHANGED <<target, backup>> /\ Advance(u, "repair", "resolve")
           \/ /\ Exists(backup, b) /\ ~RestoresBackup(b)
              /\ backup' = Remove(backup, b)
              /\ UpdateGoto(u, "sweep", b)
              /\ UNCHANGED <<target, faults>>
           \/ /\ ~Exists(backup, b)
              /\ UpdateGoto(u, "sweep", b)
              /\ UNCHANGED <<target, backup, faults>>
        /\ UNCHANGED <<staged, stable, script, verified, updateKills>>

(* ... and a leftover staged file is removed. *)
Sweep(u) ==
    /\ UpdateAt(u, "sweep")
    /\ staged' = Remove(staged, proc[u].bin)
    /\ Advance(u, "repair", "resolve")
    /\ UNCHANGED <<target, backup, stable, script, verified, faults, updateKills>>

(* resolveLatestStable: the highest stable release; none, or one that is   *)
(* not newer than the running binary, ends the command.                    *)
Newest == CHOOSE v \in stable : \A w \in stable : w <= v

Resolve(u) ==
    /\ UpdateAt(u, "resolve")
    /\ \/ /\ stable # {} /\ ~versionAtLeast(proc[u].current, Newest)
          /\ proc' = [proc EXCEPT ![u].phase = "stage", ![u].bin = "soroq",
                                  ![u].expect = Newest]
       \/ Finish(u)      \* up to date, or the list, download or check failed
    /\ UNCHANGED <<files, stable, script, verified, faults, updateKills>>

(* Both new binaries are copied into the directory.  A failed copy removes *)
(* what has been staged.  After the second, the binaries in place are      *)
(* looked up.                                                              *)
Stage(u) ==
    LET b == proc[u].bin
    IN  /\ UpdateAt(u, "stage")
        /\ \/ /\ staged' = Put(staged, b, proc[u].expect)
              /\ IF b = "soroq" THEN UpdateGoto(u, "stage", "soroqctl")
                 ELSE proc' = [proc EXCEPT
                         ![u].phase = "backup", ![u].bin = "soroq",
                         ![u].have = [x \in Binaries |-> Exists(target, x)]]
              /\ UNCHANGED faults
           \/ /\ faults < MaxFaults
              /\ staged' = Put(staged, b, Partial)
              /\ UpdateGoto(u, "discard", "soroq")
              /\ faults' = faults + 1
        /\ UNCHANGED <<target, backup, stable, script, verified, updateKills>>

Backup(u) ==
    LET b == proc[u].bin
    IN  /\ UpdateAt(u, "backup")
        /\ \/ /\ ~proc[u].have[b]
              /\ Advance(u, "backup", "install")
              /\ UNCHANGED <<target, backup, faults>>
           \/ /\ proc[u].have[b]
              /\ \E ok \in RenameOutcomes(target, b) :
                    /\ Charge(target, b, ok)
                    /\ IF ok
                       THEN /\ backup' = Put(backup, b, target[b])
                            /\ target' = Remove(target, b)
                            /\ Advance(u, "backup", "install")
                       ELSE /\ UNCHANGED <<target, backup>>
                            /\ IF b = "soroqctl" /\ proc[u].have["soroq"]
                               THEN UpdateGoto(u, "unback", "soroq")
                               ELSE UpdateGoto(u, "discard", "soroq")
        /\ UNCHANGED <<staged, stable, script, verified, updateKills>>

(* Mutant: only the first binary is put back. *)
PutBackFirst(b) ==
    IF b = "soroq"
    THEN target' = Put(target, b, backup[b]) /\ backup' = Remove(backup, b) /\ UNCHANGED faults
    ELSE UNCHANGED <<target, backup, faults>>

(* A rename whose result the code ignores, from the backup to its place. *)
PutBack(b) ==
    \E ok \in RenameOutcomes(backup, b) :
        /\ Charge(backup, b, ok)
        /\ IF ok
           THEN target' = Put(target, b, backup[b]) /\ backup' = Remove(backup, b)
           ELSE UNCHANGED <<target, backup>>

(* soroqctl could not be backed up: soroq goes back. *)
Unback(u) ==
    /\ UpdateAt(u, "unback")
    /\ PutBack("soroq")
    /\ UpdateGoto(u, "discard", "soroq")
    /\ UNCHANGED <<staged, stable, script, verified, updateKills>>

Install(u) ==
    LET b == proc[u].bin
    IN  /\ UpdateAt(u, "install")
        /\ \E ok \in RenameOutcomes(staged, b) :
              /\ Charge(staged, b, ok)
              /\ IF ok
                 THEN /\ target' = Put(target, b, staged[b])
                      /\ staged' = Remove(staged, b)
                      /\ Advance(u, "install", "verify")
                 ELSE UNCHANGED <<target, staged>> /\ UpdateGoto(u, "remove", "soroq")
        /\ UNCHANGED <<backup, stable, script, verified, updateKills>>

(* The new soroq is run and must name the expected version. *)
Verify(u) ==
    /\ UpdateAt(u, "verify")
    /\ \/ /\ target["soroq"] = proc[u].expect
          /\ verified' = proc[u].expect
          /\ UpdateGoto(u, "clean", "soroq")
          /\ UNCHANGED faults
       \/ /\ target["soroq"] # proc[u].expect
          /\ UpdateGoto(u, "remove", "soroq")
          /\ UNCHANGED <<verified, faults>>
       \/ /\ faults < MaxFaults
          /\ faults' = faults + 1
          /\ UpdateGoto(u, "remove", "soroq")
          /\ UNCHANGED verified
    /\ UNCHANGED <<files, stable, script, updateKills>>

Clean(u) ==
    /\ UpdateAt(u, "clean")
    /\ backup' = Remove(backup, proc[u].bin)
    /\ IF proc[u].bin = "soroq" THEN UpdateGoto(u, "clean", "soroqctl") ELSE Finish(u)
    /\ UNCHANGED <<target, staged, stable, script, verified, faults, updateKills>>

(* rollback: remove both, put both back, remove what is still staged. *)
RollbackRemove(u) ==
    /\ UpdateAt(u, "remove")
    /\ target' = Remove(target, proc[u].bin)
    /\ Advance(u, "remove", "restore")
    /\ UNCHANGED <<backup, staged, stable, script, verified, faults, updateKills>>

RollbackRestore(u) ==
    LET b == proc[u].bin
    IN  /\ UpdateAt(u, "restore")
        /\ IF proc[u].have[b] THEN PutBack(b) ELSE UNCHANGED <<target, backup, faults>>
        /\ Advance(u, "restore", "discard")
        /\ UNCHANGED <<staged, stable, script, verified, updateKills>>

Discard(u) ==
    /\ UpdateAt(u, "discard")
    /\ staged' = Remove(staged, proc[u].bin)
    /\ IF proc[u].bin = "soroq" THEN UpdateGoto(u, "discard", "soroqctl") ELSE Finish(u)
    /\ UNCHANGED <<target, backup, stable, script, verified, faults, updateKills>>

(* The process is killed; in the middle of a copy it leaves part of it. *)
UpdateKill(u) ==
    /\ ~UpdateAt(u, "idle") /\ updateKills < MaxUpdateKills
    /\ updateKills' = updateKills + 1
    /\ Finish(u)
    /\ \/ UNCHANGED staged
       \/ UpdateAt(u, "stage") /\ staged' = Put(staged, proc[u].bin, Partial)
    /\ UNCHANGED <<target, backup, stable, script, verified, faults>>

(* A release is published, or withdrawn. *)
Release(v) ==
    /\ v \notin stable
    /\ stable' = stable \cup {v}
    /\ UNCHANGED <<files, proc, script, verified, faults, updateKills>>

Withdraw(v) ==
    /\ v \in stable
    /\ stable' = stable \ {v}
    /\ UNCHANGED <<files, proc, script, verified, faults, updateKills>>

(* install.sh, run while no update is, and to its end: soroq, then         *)
(* soroqctl, over whatever backups there are.                              *)
ScriptFirst(v) ==
    /\ script = Absent /\ v \in stable
    /\ \A u \in Updaters : UpdateAt(u, "idle")
    /\ target' = Put(target, "soroq", v)
    /\ script' = v
    /\ verified' = v
    /\ UNCHANGED <<backup, staged, stable, proc, faults, updateKills>>

ScriptSecond ==
    /\ script # Absent
    /\ target' = Put(target, "soroqctl", script)
    /\ script' = Absent
    /\ UNCHANGED <<backup, staged, stable, proc, verified, faults, updateKills>>

-----------------------------------------------------------------------------
Update(u) ==
    \/ Repair(u) \/ Sweep(u) \/ Resolve(u) \/ Stage(u) \/ Backup(u) \/ Unback(u)
    \/ Install(u) \/ Verify(u) \/ Clean(u)
    \/ RollbackRemove(u) \/ RollbackRestore(u) \/ Discard(u)

UpdateNext ==
    \/ script = Absent /\ \E u \in Updaters : UpdateStart(u) \/ Update(u) \/ UpdateKill(u)
    \/ \E v \in Versions : Release(v) \/ Withdraw(v) \/ ScriptFirst(v)
    \/ ScriptSecond

UpdateSpec == UpdateInit /\ [][UpdateNext]_updateVars

-----------------------------------------------------------------------------
(* Properties *)

AtRest == script = Absent /\ \A u \in Updaters : UpdateAt(u, "idle")

(***************************************************************************)
(* Neither binary is ever without a copy: at every file operation, killed  *)
(* there or not, repaired or not, each is in place or in its backup, and   *)
(* that copy is whole.                                                     *)
(***************************************************************************)
NeverLost ==
    \A b \in Binaries : target[b] \in Versions \/ backup[b] \in Versions

(***************************************************************************)
(* "the exact silent downgrade this product must not perform": a binary in *)
(* place is never older than a version that was installed and verified,    *)
(* whatever was killed, repaired, rolled back or withdrawn since.          *)
(***************************************************************************)
NoSilentDowngrade ==
    script = Absent => \A b \in Binaries : target[b] \in Versions => target[b] >= verified

(***************************************************************************)
(* "both-or-neither": a file operation or a version check that fails, at   *)
(* whatever step, leaves two whole binaries of one version once no update  *)
(* is at work; only a kill, or a rollback that itself fails, can leave     *)
(* anything else.                                                          *)
(***************************************************************************)
BothOrNeither ==
    AtRest /\ updateKills = 0 /\ faults <= 1 =>
        target["soroq"] \in Versions /\ target["soroqctl"] = target["soroq"]

(***************************************************************************)
(* A run that comes to its own end, and in which no file operation failed, *)
(* leaves neither backups nor staged files, whatever earlier runs left.    *)
(***************************************************************************)
EndsClean ==
    \A u \in Updaters :
        ~UpdateAt(u, "idle") /\ UpdateAt(u, "idle")' /\ updateKills' = updateKills /\ faults = 0 =>
            \A b \in Binaries : backup'[b] = Absent /\ staged'[b] = Absent

(***************************************************************************)
(* Whatever is killed, withdrawn or repaired (repairInterruptedUpdate),    *)
(* each binary is there or in its backup, and none is silently older than  *)
(* one that was verified; a failure leaves both new or both old.           *)
(***************************************************************************)
BinariesKept == UpdateTypeOK /\ NeverLost /\ NoSilentDowngrade /\ BothOrNeither
=============================================================================
