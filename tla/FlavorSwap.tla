----------------------------- MODULE FlavorSwap -----------------------------
(***************************************************************************)
(* The effective soroq.yaml of a flavored build (flavor_channel.go).  A    *)
(* build of a flavor that declares a channel of its own runs with the      *)
(* top-level channel of soroq.yaml replaced by it.  The original and the   *)
(* preview asset the build regenerates are first copied below              *)
(* .soroq/flavor-channel-swap, whose exclusive creation is the lock, and   *)
(* swap.json, written last, says whose swap it is and which files there    *)
(* were.  Every soroq command first repairs what a killed build left.      *)
(*                                                                         *)
(* Abstracted: soroq.yaml is the number of the developer's last edit and   *)
(* the top-level channel; the preview asset is the channel it was          *)
(* generated for.  Left out: process ids that are used again, the fixed    *)
(* temporary name that writeFileAtomic goes through, I/O errors.           *)
(***************************************************************************)
EXTENDS Naturals, FiniteSets

CONSTANTS
    Procs,     \* processes that may run a soroq command in the project
    Top,       \* the channel the developer's soroq.yaml is on
    Declared,  \* the channels that flavors declare
    NoFile,       \* no file, no record
    MaxRuns,   \* bound on the commands started
    MaxEdits,  \* bound on the developer's edits
    MaxKills   \* bound on the commands killed

VARIABLES
    file,      \* file.yaml and file.asset in the project
    swap,      \* the swap directory: whether it exists and what it holds
    cmd,       \* the state of each process
    text,      \* the developer's last edit
    overtaken, \* has a repair run while another process owned the swap? (history)
    leaked,    \* has a command read another's effective soroq.yaml? (history)
    runs, kills

vars == <<file, swap, cmd, text, overtaken, leaked, runs, kills>>

Files == {"yaml", "asset"}
Channels == Declared \cup {Top}
Yaml == [text : 0..MaxEdits, channel : Channels]
Pids == 1..MaxRuns

(* swap.json: the process and the files that existed.                      *)
SwapRecord == [pid : Pids, existed : SUBSET Files]

ASSUME FlavorAssumption ==
    /\ Top \notin Declared /\ NoFile \notin Declared \cup {Top} \cup Yaml \cup SwapRecord
    /\ MaxRuns \in Nat /\ MaxEdits \in Nat /\ MaxKills \in Nat

NoSwap == [exists |-> FALSE, yaml |-> NoFile, asset |-> NoFile, record |-> NoFile]
EmptySwap == [NoSwap EXCEPT !.exists = TRUE]

Steps == {"idle", "recover", "restore", "remove", "read", "mkdir", "backupYaml",
          "backupAsset", "record", "swap", "build", "end"}

(* A command that only looks at the project, a build, and a build whose    *)
(* frontend resolves flavors.<name>.channel itself (the capability file    *)
(* bin/cache/soroq/flavor_channels_v1.json).                               *)
Kinds == {"inspect", "build", "native"}

(* then: where a removal of the swap directory leads; st: the record that  *)
(* a restore goes by; todo: the files it has yet to restore; swapped:      *)
(* whether this build swapped; seen: the channel its bundler read.         *)
Command == [at : Steps, pid : Pids \cup {0}, channel : Channels, kind : Kinds,
            original : Yaml, st : SwapRecord \cup {NoFile}, todo : SUBSET Files,
            then : {"idle", "read"}, swapped : BOOLEAN, seen : Channels \cup {NoFile}]

Idle == [at |-> "idle", pid |-> 0, channel |-> Top, kind |-> "inspect",
         original |-> [text |-> 0, channel |-> Top], st |-> NoFile, todo |-> {},
         then |-> "idle", swapped |-> FALSE, seen |-> NoFile]

Init ==
    /\ \E asset \in {NoFile, Top} :
          file = [yaml |-> [text |-> 0, channel |-> Top], asset |-> asset]
    /\ swap = NoSwap
    /\ cmd = [p \in Procs |-> Idle]
    /\ text = 0 /\ overtaken = FALSE /\ leaked = FALSE /\ runs = 0 /\ kills = 0

(* processAlive *)
Alive(pid) == \E p \in Procs : cmd[p].at # "idle" /\ cmd[p].pid = pid

(* From the creation of the directory to its removal a build owns the swap.*)
Owning(p) ==
    \/ cmd[p].at \in {"backupYaml", "backupAsset", "record", "swap"}
    \/ cmd[p].swapped

Goto(p, step) == cmd' = [cmd EXCEPT ![p].at = step]
Return(p) == cmd' = [cmd EXCEPT ![p] = Idle]

(* Between its decision and the removal of the directory a repair goes by  *)
(* what it saw: it overtakes a build that owns the swap meanwhile.         *)
Repairing(p) == cmd[p].at \in {"restore", "remove"} /\ ~cmd[p].swapped
Overtakes(p) == overtaken' = (overtaken \/ \E q \in Procs \ {p} : Owning(q))
IsOvertaken(p) == overtaken' = (overtaken \/ \E q \in Procs \ {p} : Repairing(q))

(* What p reads of soroq.yaml is another command's effective file.         *)
Reads(p) == leaked' = (leaked \/ (file.yaml.channel # Top /\ ~cmd[p].swapped))

Start(p) ==
    /\ cmd[p].at = "idle" /\ runs < MaxRuns
    /\ runs' = runs + 1
    /\ \E kind \in Kinds, channel \in Channels :
          /\ kind = "inspect" => channel = Top
          /\ kind = "native" => channel # Top
          /\ cmd' = [cmd EXCEPT ![p] = [Idle EXCEPT !.at = "recover", !.pid = runs + 1,
                                                    !.channel = channel, !.kind = kind]]
    /\ UNCHANGED <<file, swap, text, overtaken, leaked, kills>>

AfterRecovery(p) == IF cmd[p].kind = "inspect" THEN "idle" ELSE "read"
Recovered(p) == IF cmd[p].kind = "inspect" THEN Return(p) ELSE Goto(p, "read")

(* Mutant: the record of a dead process is discarded like no record.       *)
RecoverDiscards(p) ==
    /\ cmd[p].at = "recover"
    /\ IF ~swap.exists THEN Recovered(p) /\ UNCHANGED overtaken
       ELSE IF swap.record # NoFile /\ Alive(swap.record.pid) THEN Return(p) /\ UNCHANGED overtaken
       ELSE /\ cmd' = [cmd EXCEPT ![p].at = "remove", ![p].then = AfterRecovery(p)]
            /\ Overtakes(p)
    /\ UNCHANGED <<file, swap, text, leaked, runs, kills>>

(* recoverInterruptedFlavorChannelSwap, up to its decision.                *)
Recover(p) ==
    /\ cmd[p].at = "recover"
    /\ \/ /\ ~swap.exists
          /\ Recovered(p) /\ UNCHANGED overtaken
       \/ /\ swap.exists /\ swap.record = NoFile
          /\ cmd' = [cmd EXCEPT ![p].at = "remove", ![p].then = AfterRecovery(p)]
          /\ Overtakes(p)
       \/ /\ swap.exists /\ swap.record # NoFile /\ Alive(swap.record.pid)
          /\ Return(p) /\ UNCHANGED overtaken
       \/ /\ swap.exists /\ swap.record # NoFile /\ ~Alive(swap.record.pid)
          /\ cmd' = [cmd EXCEPT ![p].at = "restore", ![p].st = swap.record,
                                ![p].todo = Files, ![p].then = AfterRecovery(p)]
          /\ Overtakes(p)
    /\ UNCHANGED <<file, swap, text, leaked, runs, kills>>

NextFile(p) == IF "yaml" \in cmd[p].todo THEN "yaml" ELSE "asset"

(* restoreFlavorChannelSwap, one file: put back what was saved, remove     *)
(* what did not exist; a backup that is gone ends the command.             *)
RestoreFile(p) ==
    /\ cmd[p].at = "restore" /\ cmd[p].todo # {}
    /\ LET f == NextFile(p) IN
         \/ /\ f \in cmd[p].st.existed /\ swap[f] = NoFile
            /\ Return(p) /\ UNCHANGED file
         \/ /\ f \notin cmd[p].st.existed \/ swap[f] # NoFile
            /\ file' = [file EXCEPT ![f] = IF f \in cmd[p].st.existed THEN swap[f] ELSE NoFile]
            /\ cmd' = [cmd EXCEPT ![p].todo = @ \ {f}]
    /\ UNCHANGED <<swap, text, overtaken, leaked, runs, kills>>

RestoreDone(p) ==
    /\ cmd[p].at = "restore" /\ cmd[p].todo = {}
    /\ Goto(p, "remove")
    /\ UNCHANGED <<file, swap, text, overtaken, leaked, runs, kills>>

(* os.RemoveAll of the swap directory: entry by entry, in the order the    *)
(* file system lists them, then the directory.                             *)
RemoveEntry(p) ==
    /\ cmd[p].at = "remove"
    /\ \E entry \in {"yaml", "asset", "record"} :
          /\ swap[entry] # NoFile
          /\ swap' = [swap EXCEPT ![entry] = NoFile]
    /\ UNCHANGED <<file, cmd, text, overtaken, leaked, runs, kills>>

RemoveDirectory(p) ==
    /\ cmd[p].at = "remove"
    /\ swap \in {EmptySwap, NoSwap}
    /\ swap' = NoSwap
    /\ IF cmd[p].then = "idle" THEN Return(p) ELSE Goto(p, "read")
    /\ UNCHANGED <<file, text, overtaken, leaked, runs, kills>>

(* withFlavorChannel up to the exclusive Mkdir.  A build without a         *)
(* declared channel, or of the channel the file is on, swaps nothing; nor  *)
(* does one whose frontend resolves the channel.                           *)
Read(p) ==
    /\ cmd[p].at = "read"
    /\ \/ /\ cmd[p].channel \in {Top, file.yaml.channel} \/ cmd[p].kind = "native"
          /\ Goto(p, "build")
       \/ /\ cmd[p].channel \notin {Top, file.yaml.channel} /\ cmd[p].kind # "native"
          /\ cmd' = [cmd EXCEPT ![p].at = "mkdir", ![p].original = file.yaml]
    /\ Reads(p)
    /\ UNCHANGED <<file, swap, text, overtaken, runs, kills>>

Mkdir(p) ==
    /\ cmd[p].at = "mkdir"
    /\ \/ swap.exists /\ Return(p) /\ UNCHANGED <<swap, overtaken>>
       \/ ~swap.exists /\ swap' = EmptySwap /\ Goto(p, "backupYaml") /\ IsOvertaken(p)
    /\ UNCHANGED <<file, text, leaked, runs, kills>>

(* A write into a directory that is gone fails: RemoveAll and return.      *)
GiveUp(p) == cmd' = [cmd EXCEPT ![p].at = "remove", ![p].then = "idle"]

Backup(p, f, step, next) ==
    /\ cmd[p].at = step
    /\ \/ /\ file[f] # NoFile /\ ~swap.exists
          /\ GiveUp(p) /\ UNCHANGED swap
       \/ /\ file[f] # NoFile /\ swap.exists
          /\ swap' = [swap EXCEPT ![f] = file[f]]
          /\ cmd' = [cmd EXCEPT ![p].at = next, ![p].todo = @ \cup {f}]
       \/ /\ file[f] = NoFile
          /\ Goto(p, next) /\ UNCHANGED swap
    /\ UNCHANGED <<file, text, overtaken, leaked, runs, kills>>

BackupYaml(p) == Backup(p, "yaml", "backupYaml", "backupAsset")
BackupAsset(p) == Backup(p, "asset", "backupAsset", "record")

(* Mutant: the project is changed before the record is written.            *)
RecordForgotten(p) ==
    /\ cmd[p].at = "record"
    /\ swap.exists
    /\ cmd' = [cmd EXCEPT ![p].at = "swap", ![p].todo = {},
                          ![p].st = [pid |-> cmd[p].pid, existed |-> cmd[p].todo]]
    /\ UNCHANGED <<file, swap, text, overtaken, leaked, runs, kills>>

(* swap.json, written when every backup is.                                *)
WriteRecord(p) ==
    /\ cmd[p].at = "record"
    /\ LET st == [pid |-> cmd[p].pid, existed |-> cmd[p].todo] IN
         \/ ~swap.exists /\ GiveUp(p) /\ UNCHANGED swap
         \/ /\ swap.exists
            /\ swap' = [swap EXCEPT !.record = st]
            /\ cmd' = [cmd EXCEPT ![p].at = "swap", ![p].st = st, ![p].todo = {}]
    /\ UNCHANGED <<file, text, overtaken, leaked, runs, kills>>

(* Mutant: the build is started without the effective file.                *)
SwapNothing(p) ==
    /\ cmd[p].at = "swap"
    /\ cmd' = [cmd EXCEPT ![p].at = "build", ![p].swapped = TRUE]
    /\ UNCHANGED <<file, swap, text, overtaken, leaked, runs, kills>>

(* effectiveSoroqYAML: the original that was read, with one line changed.  *)
SwapYaml(p) ==
    /\ cmd[p].at = "swap"
    /\ file' = [file EXCEPT !.yaml = [cmd[p].original EXCEPT !.channel = cmd[p].channel]]
    /\ cmd' = [cmd EXCEPT ![p].at = "build", ![p].swapped = TRUE, ![p].original = Idle.original]
    /\ UNCHANGED <<swap, text, overtaken, leaked, runs, kills>>

(* The build: the command regenerates the preview asset from the file, and *)
(* the frontend's bundler reads the channel there or resolves it itself.   *)
BuildFlavor(p) ==
    /\ cmd[p].at = "build"
    /\ file' = [file EXCEPT !.asset = file.yaml.channel]
    /\ cmd' = [cmd EXCEPT ![p].at = "end",
                          ![p].seen = IF cmd[p].kind = "native"
                                      THEN cmd[p].channel ELSE file.yaml.channel]
    /\ Reads(p)
    /\ UNCHANGED <<swap, text, overtaken, runs, kills>>

(* The build ends, well or badly; a build that swapped restores.           *)
EndBuild(p) ==
    /\ cmd[p].at = "end"
    /\ \/ ~cmd[p].swapped /\ Return(p)
       \/ /\ cmd[p].swapped
          /\ cmd' = [cmd EXCEPT ![p].at = "restore", ![p].todo = Files, ![p].then = "idle"]
    /\ UNCHANGED <<file, swap, text, overtaken, leaked, runs, kills>>

Kill(p) ==
    /\ cmd[p].at # "idle" /\ kills < MaxKills
    /\ kills' = kills + 1
    /\ Return(p)
    /\ UNCHANGED <<file, swap, text, overtaken, leaked, runs>>

(* The developer edits soroq.yaml, but not while a swap is in place.       *)
Edit ==
    /\ text < MaxEdits /\ ~swap.exists /\ file.yaml.channel = Top
    /\ text' = text + 1
    /\ file' = [file EXCEPT !.yaml.text = text + 1]
    /\ UNCHANGED <<swap, cmd, overtaken, leaked, runs, kills>>

Step(p) ==
    \/ Start(p) \/ Recover(p)
    \/ RestoreFile(p) \/ RestoreDone(p) \/ RemoveEntry(p) \/ RemoveDirectory(p)
    \/ Read(p) \/ Mkdir(p) \/ BackupYaml(p) \/ BackupAsset(p) \/ WriteRecord(p)
    \/ SwapYaml(p) \/ BuildFlavor(p) \/ EndBuild(p) \/ Kill(p)

Next == Edit \/ \E p \in Procs : Step(p)

Spec == Init /\ [][Next]_vars

-----------------------------------------------------------------------------
(* The type invariant of the project files, the swap and the processes.    *)
TypeOK ==
    /\ file \in [yaml : Yaml, asset : Channels \cup {NoFile}]
    /\ swap \in [exists : BOOLEAN, yaml : Yaml \cup {NoFile}, asset : Channels \cup {NoFile},
                 record : SwapRecord \cup {NoFile}]
    /\ cmd \in [Procs -> Command]
    /\ text \in 0..MaxEdits /\ overtaken \in BOOLEAN /\ leaked \in BOOLEAN
    /\ runs \in 0..MaxRuns /\ kills \in 0..MaxKills

Developers == [text |-> text, channel |-> Top]

(* The developer's soroq.yaml is in the project, or it is in the backup    *)
(* and the record that makes the next command restore it is there.         *)
OriginalKept ==
    \/ file.yaml = Developers
    \/ swap.yaml = Developers /\ swap.record # NoFile

(* "It is swapped in for the build only and restored byte-for-byte         *)
(* afterwards (also on failure)" (flavor_channel.go:45), however builds    *)
(* and commands interleave and wherever one is killed: as long as no       *)
(* repair ran into a live build's swap, the original is never lost.        *)
OriginalRecoverable == ~overtaken => OriginalKept

(* "A second, concurrent swap is refused rather than stacked": unless a    *)
(* repair removed a live lock, one process at a time owns the swap.        *)
SwapExclusive ==
    ~overtaken => \A p, q \in Procs : Owning(p) /\ Owning(q) => p = q

(* A build that swapped is bundled with its flavor's channel, whatever     *)
(* other commands start and end meanwhile.                                 *)
BundledWithItsChannel ==
    ~overtaken => \A p \in Procs :
        cmd[p].at = "end" /\ cmd[p].swapped => cmd[p].seen = cmd[p].channel

(* When no build runs and no swap is left, the project holds the           *)
(* developer's soroq.yaml again, and no preview asset of a flavor.         *)
NothingLeftBehind ==
    ~overtaken /\ ~leaked /\ ~swap.exists /\ (\A p \in Procs : cmd[p].at = "idle")
        => file.yaml = Developers /\ file.asset \in {NoFile, Top}

(* A command goes past its repair only when soroq.yaml is the developer's, *)
(* or another command that is alive has the swap.                          *)
RepairedBeforeUse ==
    [][\A p \in Procs :
          cmd[p].at \in {"recover", "remove"} /\ cmd'[p].at = "read" /\ ~overtaken'
              => \/ file'.yaml = Developers'
                 \/ \E q \in Procs : Owning(q)']_vars

(* The developer's soroq.yaml is recoverable at every step, and one swap   *)
(* is under way at a time (swapEffectiveFlavorConfig, recoverFlavorSwap).  *)
OriginalSafe == TypeOK /\ OriginalRecoverable /\ SwapExclusive

(* What is built is of its flavor, and nothing of a flavor outlasts it.    *)
BuildsAsFlavored == BundledWithItsChannel /\ NothingLeftBehind
=============================================================================
