------------------------------ MODULE ToolStore ------------------------------
(***************************************************************************)
(* The tools under ~/.soroq that `soroq setup`, `soroq frontend install`,  *)
(* `soroq toolchain install` and `soroq cache clean` keep: a directory for *)
(* every version of the frontend and of every platform's toolchain, and    *)
(* the two pointer files frontends/active.json and toolchains/active.json. *)
(*                                                                         *)
(* Nothing serialises these commands, and each can be killed anywhere.  A  *)
(* directory is removed file by file and then replaced by a rename; a      *)
(* pointer file is written under one fixed temporary name and renamed.     *)
(*                                                                         *)
(* Abstracted: catalogs and signatures (a generation of the catalog is a   *)
(* version: it pairs one frontend with one toolchain for every platform);  *)
(* download, extraction and verification, which work in a directory of     *)
(* their own and end the command when they fail; the engine layout that an *)
(* Android toolchain gets after it is in place; soroq.lock pins, which are *)
(* a constant; the frontend candidates of `soroq frontend use-candidate`.  *)
(***************************************************************************)
EXTENDS Naturals, FiniteSets

CONSTANTS
    Commands,   \* processes that may run one of the commands
    Platforms,  \* the platforms with a toolchain
    Versions,   \* the generations of the catalog
    Pinned,     \* what the soroq.lock of the project refers to
    None,       \* no version
    NoFile,     \* no such file
    Empty,      \* a file that was truncated
    Garbled,    \* a file that holds parts of two writes, or of one
    MaxRuns,    \* bound on the commands started
    RacingRuns, \* only so many of the first commands may run at the same time
    MaxKills    \* bound on the commands killed

Tools == {"frontend"} \cup Platforms
Pointers == {"frontends", "toolchains"}
Directories == Tools \X Versions

(* What a pointer file says.  An entry of toolchains/active.json also      *)
(* names the frontend of its generation.                                   *)
Records == [Tools -> Versions \cup {None}]
NoRecord == [t \in Tools |-> None]

ASSUME StoreAssumption ==
    /\ "frontend" \notin Platforms /\ None \notin Versions
    /\ {NoFile, Empty, Garbled} \cap Records = {}
    /\ Pinned \subseteq Directories
    /\ MaxRuns \in Nat /\ RacingRuns \in Nat /\ MaxKills \in Nat

VARIABLES
    dir,      \* for each version of each tool: "absent", "whole" or "torn"
    active,   \* the contents of the pointer files
    temp,     \* the contents of active.json.tmp beside them
    cmd,      \* the state of each command
    ready,    \* the version each platform was last recorded with (history)
    cut,      \* directories a killed command was removing (history)
    overlap,  \* whether installs, or a clean and another command, ever ran
              \* at the same time: "none", "installs" or "clean" (history)
    runs, kills

history == <<ready, cut, overlap>>
vars == <<dir, active, temp, cmd, ready, cut, overlap, runs, kills>>

(* A file that json.Unmarshal takes. *)
Readable(content) == content \notin {Empty, Garbled, NoFile}

PointerOf(tool) == IF tool = "frontend" THEN "frontends" ELSE "toolchains"

Steps == {"idle", "check", "fetch", "remove", "removing", "swap", "load", "open", "write",
          "publish", "clean", "pointers", "list", "delete", "deleting"}

(* todo: the platforms a setup has yet to record; tool and version: what   *)
(* is being installed or deleted; data: what goes into the pointer; file:  *)
(* what its open descriptor refers to; set: what a clean keeps, and then   *)
(* what it deletes.                                                        *)
Command == [at : Steps, what : {"setup", "install", "clean"}, todo : SUBSET Platforms,
            platform : Platforms \cup {None}, tool : Tools,
            version : Versions \cup {None}, force : BOOLEAN, data : Records,
            file : {"temp", "active", "gone"}, set : SUBSET Directories]

Idle == [at |-> "idle", what |-> "setup", todo |-> {}, platform |-> None,
         tool |-> "frontend", version |-> None, force |-> FALSE, data |-> NoRecord,
         file |-> "gone", set |-> {}]

TypeOK ==
    /\ dir \in [Directories -> {"absent", "torn", "whole"}]
    /\ active \in [Pointers -> Records \cup {Empty, Garbled}]
    /\ temp \in [Pointers -> Records \cup {Empty, Garbled, NoFile}]
    /\ cmd \in [Commands -> Command]
    /\ ready \in [Platforms -> Versions \cup {None}]
    /\ cut \subseteq Directories /\ overlap \in {"none", "installs", "clean"}
    /\ runs \in 0 .. MaxRuns /\ kills \in 0 .. MaxKills

-----------------------------------------------------------------------------
Init ==
    /\ dir = [d \in Directories |-> "absent"]
    /\ active = [k \in Pointers |-> NoRecord]   \* a missing file reads as this
    /\ temp = [k \in Pointers |-> NoFile]
    /\ cmd = [c \in Commands |-> Idle]
    /\ ready = [p \in Platforms |-> None]
    /\ cut = {} /\ overlap = "none"
    /\ runs = 0 /\ kills = 0

At(c, step) == cmd[c].at = step
Goto(c, step) == cmd' = [cmd EXCEPT ![c].at = step]
End(c) == cmd' = [cmd EXCEPT ![c] = Idle]

Target(c) == <<cmd[c].tool, cmd[c].version>>
Place(d, state) == dir' = [dir EXCEPT ![d] = state]

Others(c) == {other \in Commands \ {c} : ~At(other, "idle")}

Begin(c, state) ==
    /\ At(c, "idle") /\ runs < MaxRuns
    /\ Others(c) # {} => runs < RacingRuns
    /\ runs' = runs + 1
    /\ cmd' = [cmd EXCEPT ![c] = state]
    /\ overlap' = IF Others(c) = {} THEN overlap
                  ELSE IF "clean" \in {state.what} \cup {cmd[other].what : other \in Others(c)}
                  THEN "clean"
                  ELSE IF overlap = "none" THEN "installs" ELSE overlap
    /\ UNCHANGED <<dir, active, temp, ready, cut, kills>>

(* `soroq setup`: every platform in turn, its frontend and then its        *)
(* toolchain.                                                              *)
Setup(c, platforms, version, force) ==
    \E p \in platforms :
        Begin(c, [Idle EXCEPT !.at = "check", !.todo = platforms, !.platform = p,
                              !.version = version, !.force = force])

(* `soroq frontend install` and `soroq toolchain install` *)
Install(c, tool, version, force) ==
    Begin(c, [Idle EXCEPT !.at = "check", !.what = "install", !.tool = tool,
                          !.version = version, !.force = force])

CacheClean(c) == Begin(c, [Idle EXCEPT !.at = "clean", !.what = "clean"])

(* The tool is in place.  A frontend is recorded by its own installer, a   *)
(* toolchain by the setup it is part of, if there is one.                  *)
InPlace(c) ==
    IF cmd[c].tool = "frontend"
    THEN cmd' = [cmd EXCEPT ![c].at = "open",
                            ![c].data = [NoRecord EXCEPT !["frontend"] = cmd[c].version]]
    ELSE IF cmd[c].what = "setup" THEN Goto(c, "load") ELSE End(c)

(* What an offline check of a directory may come to.  Of a torn one the    *)
(* manifest may be gone, or a missing file may be noticed; and a frontend, *)
(* of which a few markers are compared, may pass.                          *)
ReverifyInstalledFrontend(state) ==
    CASE state = "absent" -> {"miss"}
      [] state = "torn" -> {"miss", "error", "hit"}
      [] state = "whole" -> {"hit"}

ReverifyCachedToolchain(state) ==
    CASE state = "absent" -> {"miss"}
      [] state = "torn" -> {"miss", "error"}
      [] state = "whole" -> {"hit"}

Reverify(c) ==
    IF cmd[c].tool = "frontend" THEN ReverifyInstalledFrontend(dir[Target(c)])
    ELSE ReverifyCachedToolchain(dir[Target(c)])

(* A toolchain's layout is completed on a hit as well, and may fail. *)
Check(c) ==
    /\ At(c, "check")
    /\ \/ ~cmd[c].force /\ "hit" \in Reverify(c) /\ InPlace(c)
       \/ ~cmd[c].force /\ "error" \in Reverify(c) /\ End(c)
       \/ ~cmd[c].force /\ "hit" \in Reverify(c) /\ cmd[c].tool \in Platforms /\ End(c)
       \/ (cmd[c].force \/ "miss" \in Reverify(c)) /\ Goto(c, "fetch")
    /\ UNCHANGED <<dir, active, temp, history, runs, kills>>

(* Mutant: the version directory is removed before the new one is          *)
(* verified.                                                               *)
FetchAfterRemoving(c) ==
    /\ At(c, "fetch")
    /\ Place(Target(c), "absent")
    /\ Goto(c, "remove") \/ End(c)
    /\ UNCHANGED <<active, temp, history, runs, kills>>

(* Download, verify and extract beside the version directory. *)
Fetch(c) ==
    /\ At(c, "fetch")
    /\ Goto(c, "remove") \/ End(c)
    /\ UNCHANGED <<dir, active, temp, history, runs, kills>>

(* os.RemoveAll(versionDir), file by file.  A directory that was put there *)
(* meanwhile makes it fail.                                                *)
Remove(c) ==
    /\ At(c, "remove")
    /\ IF dir[Target(c)] = "absent"
       THEN Goto(c, "swap") /\ UNCHANGED dir
       ELSE Goto(c, "removing") /\ Place(Target(c), "torn")
    /\ UNCHANGED <<active, temp, history, runs, kills>>

Removed(c) ==
    /\ At(c, "removing")
    /\ IF dir[Target(c)] = "whole"
       THEN End(c) /\ UNCHANGED dir
       ELSE Goto(c, "swap") /\ Place(Target(c), "absent")
    /\ UNCHANGED <<active, temp, history, runs, kills>>

(* os.Rename(tmpDir, versionDir) fails on a directory that has files.  An  *)
(* Android toolchain that is in place may still not get its layout.        *)
Swap(c) ==
    /\ At(c, "swap")
    /\ IF dir[Target(c)] = "absent"
       THEN /\ Place(Target(c), "whole")
            /\ cut' = cut \ {Target(c)}
            /\ InPlace(c) \/ (cmd[c].tool \in Platforms /\ End(c))
       ELSE End(c) /\ UNCHANGED <<dir, cut>>
    /\ UNCHANGED <<active, temp, ready, overlap, runs, kills>>

-----------------------------------------------------------------------------
(* Recording: recordActiveFrontend, recordActiveToolchain *)

(* Mutant: the platforms recorded so far are not merged. *)
RecordAlone(c) ==
    /\ At(c, "load")
    /\ cmd' = [cmd EXCEPT ![c].at = "open",
                          ![c].data = [NoRecord EXCEPT ![cmd[c].tool] = cmd[c].version]]
    /\ UNCHANGED <<dir, active, temp, history, runs, kills>>

(* loadActiveToolchains: a file that cannot be parsed ends the command. *)
Load(c) ==
    LET current == active["toolchains"]
    IN  /\ At(c, "load")
        /\ \/ /\ Readable(current)
              /\ cmd' = [cmd EXCEPT ![c].at = "open",
                            ![c].data = [current EXCEPT ![cmd[c].tool] = cmd[c].version]]
           \/ ~Readable(current) /\ End(c)
        /\ UNCHANGED <<dir, active, temp, history, runs, kills>>

(* os.WriteFile opens active.json.tmp and truncates it ... *)
Open(c) ==
    /\ At(c, "open")
    /\ temp' = [temp EXCEPT ![PointerOf(cmd[c].tool)] = Empty]
    /\ cmd' = [cmd EXCEPT ![c].at = "write", ![c].file = "temp"]
    /\ UNCHANGED <<dir, active, history, runs, kills>>

(* What the open descriptor refers to, and a write through it. *)
Held(c) ==
    LET k == PointerOf(cmd[c].tool)
    IN  CASE cmd[c].file = "temp" -> temp[k]
          [] cmd[c].file = "active" -> active[k]
          [] cmd[c].file = "gone" -> Empty

WriteThrough(c, content) ==
    LET k == PointerOf(cmd[c].tool)
    IN  /\ temp' = IF cmd[c].file = "temp" THEN [temp EXCEPT ![k] = content] ELSE temp
        /\ active' = IF cmd[c].file = "active" THEN [active EXCEPT ![k] = content] ELSE active

(* Writing from the start over what somebody else wrote leaves the end of  *)
(* that, if it was longer.                                                 *)
Written(c) == IF Held(c) = Empty THEN {cmd[c].data} ELSE {cmd[c].data, Garbled}

(* ... writes, through a descriptor that follows the file, and closes.  A  *)
(* write that is cut short leaves part of it.                              *)
Write(c) ==
    /\ At(c, "write")
    /\ \/ \E content \in Written(c) : WriteThrough(c, content) /\ Goto(c, "publish")
       \/ \E content \in {Held(c), Garbled} : WriteThrough(c, content) /\ End(c)
    /\ UNCHANGED <<dir, history, runs, kills>>

(* The descriptors of the other commands after this one's rename: the      *)
(* temporary file has become the pointer, the old pointer has no name.     *)
Follow(c, k) ==
    [other \in Commands |->
        IF other = c \/ ~At(other, "write") \/ PointerOf(cmd[other].tool) # k THEN cmd[other]
        ELSE [cmd[other] EXCEPT !.file = IF @ = "temp" THEN "active" ELSE "gone"]]

(* After the frontend comes the toolchain, after the toolchain the next    *)
(* platform.                                                               *)
Onward(c, commands) ==
    LET state == cmd[c]
        rest == state.todo \ {state.tool}
    IN  CASE state.what = "install" -> cmd' = [commands EXCEPT ![c] = Idle]
          [] state.what = "setup" /\ state.tool = "frontend" ->
                cmd' = [commands EXCEPT ![c].at = "check", ![c].tool = state.platform,
                                        ![c].data = NoRecord, ![c].file = "gone"]
          [] state.what = "setup" /\ state.tool # "frontend" /\ rest = {} ->
                cmd' = [commands EXCEPT ![c] = Idle]
          [] state.what = "setup" /\ state.tool # "frontend" /\ rest # {} ->
                \E p \in rest :
                    cmd' = [commands EXCEPT ![c] =
                              [Idle EXCEPT !.at = "check", !.todo = rest,
                                           !.platform = p, !.version = state.version,
                                           !.force = state.force]]

(* os.Rename(tmp, path); it fails when somebody else renamed the file. *)
Publish(c) ==
    LET k == PointerOf(cmd[c].tool)
    IN  /\ At(c, "publish")
        /\ \/ /\ temp[k] = NoFile
              /\ End(c)
              /\ UNCHANGED <<active, temp, ready>>
           \/ /\ temp[k] # NoFile
              /\ active' = [active EXCEPT ![k] = temp[k]]
              /\ temp' = [temp EXCEPT ![k] = NoFile]
              /\ ready' = IF k = "frontends" THEN ready
                          ELSE [ready EXCEPT ![cmd[c].tool] = cmd[c].version]
              /\ Onward(c, Follow(c, k))
        /\ UNCHANGED <<dir, cut, overlap, runs, kills>>

-----------------------------------------------------------------------------
(* `soroq cache clean --delete` *)

(* activeCacheSets: what a pointer refers to; one that cannot be read      *)
(* refers to nothing.                                                      *)
References(content) ==
    IF Readable(content)
    THEN LET named == {t \in Tools : content[t] # None}
         IN  {<<t, content[t]>> : t \in named} \cup {<<"frontend", content[t]>> : t \in named}
    ELSE {}

ReadFrontends(c) ==
    /\ At(c, "clean")
    /\ cmd' = [cmd EXCEPT ![c].at = "pointers", ![c].set = References(active["frontends"])]
    /\ UNCHANGED <<dir, active, temp, history, runs, kills>>

(* Mutant: soroq.lock is not looked at. *)
ReadToolchainsOnly(c) ==
    /\ At(c, "pointers")
    /\ cmd' = [cmd EXCEPT ![c].at = "list", ![c].set = @ \cup References(active["toolchains"])]
    /\ UNCHANGED <<dir, active, temp, history, runs, kills>>

ReadToolchains(c) ==
    /\ At(c, "pointers")
    /\ cmd' = [cmd EXCEPT ![c].at = "list",
                          ![c].set = @ \cup References(active["toolchains"]) \cup Pinned]
    /\ UNCHANGED <<dir, active, temp, history, runs, kills>>

(* enumerateCache, removable: every directory that is not kept. *)
Enumerate(c) ==
    /\ At(c, "list")
    /\ cmd' = [cmd EXCEPT ![c].at = "delete",
                          ![c].set = {d \in Directories : dir[d] # "absent"} \ @]
    /\ UNCHANGED <<dir, active, temp, history, runs, kills>>

(* One directory after the other, frontends first. *)
Delete(c) ==
    /\ At(c, "delete")
    /\ \/ cmd[c].set = {} /\ End(c) /\ UNCHANGED dir
       \/ \E d \in cmd[c].set :
             /\ d[1] = "frontend" \/ \A e \in cmd[c].set : e[1] # "frontend"
             /\ cmd' = [cmd EXCEPT ![c].at = "deleting", ![c].tool = d[1], ![c].version = d[2]]
             /\ Place(d, IF dir[d] = "absent" THEN "absent" ELSE "torn")
    /\ UNCHANGED <<active, temp, history, runs, kills>>

Deleted(c) ==
    /\ At(c, "deleting")
    /\ IF dir[Target(c)] = "whole"
       THEN End(c) /\ UNCHANGED <<dir, cut>>
       ELSE /\ Place(Target(c), "absent")
            /\ cut' = cut \ {Target(c)}
            /\ cmd' = [cmd EXCEPT ![c].at = "delete", ![c].set = @ \ {Target(c)}]
    /\ UNCHANGED <<active, temp, ready, overlap, runs, kills>>

(* The command is killed.  What it was writing stays as far as it got. *)
Kill(c) ==
    /\ ~At(c, "idle") /\ kills < MaxKills
    /\ kills' = kills + 1
    /\ End(c)
    /\ cut' = IF cmd[c].at \in {"removing", "swap", "deleting"} THEN cut \cup {Target(c)} ELSE cut
    /\ \/ UNCHANGED <<active, temp>>
       \/ At(c, "write") /\ WriteThrough(c, Garbled)
    /\ UNCHANGED <<dir, ready, overlap, runs>>

-----------------------------------------------------------------------------
Begins(c) ==
    \/ \E platforms \in SUBSET Platforms \ {{}}, v \in Versions, force \in BOOLEAN :
          Setup(c, platforms, v, force)
    \/ \E t \in Tools, v \in Versions, force \in BOOLEAN : Install(c, t, v, force)
    \/ CacheClean(c)

Installs(c) ==
    \/ Check(c) \/ Fetch(c) \/ Remove(c) \/ Removed(c) \/ Swap(c)
    \/ Load(c) \/ Open(c) \/ Write(c) \/ Publish(c)

Cleans(c) == ReadFrontends(c) \/ ReadToolchains(c) \/ Enumerate(c) \/ Delete(c) \/ Deleted(c)

Next == \E c \in Commands : Begins(c) \/ Installs(c) \/ Cleans(c) \/ Kill(c)

Spec == Init /\ [][Next]_vars

-----------------------------------------------------------------------------
(* Properties *)

Recorded == References(active["frontends"]) \cup References(active["toolchains"])

(* An install that has its verified replacement in hand. *)
BeingReplaced(d) ==
    \E c \in Commands : cmd[c].at \in {"removing", "swap"} /\ Target(c) = d

(***************************************************************************)
(* "a failed install can NEVER damage the last-working cached toolchain",  *)
(* and "the active frontend/toolchain(s) and any soroq.lock-pinned version *)
(* are always kept": what the pointers refer to is there, whole, whatever  *)
(* fails, is cleaned, is killed, or is installed at the same time.  Only a *)
(* kill while the files of that directory are going may leave it           *)
(* otherwise, and a clean while something is installed.                    *)
(***************************************************************************)
RecordedInstalled ==
    overlap # "clean" => \A d \in Recorded : dir[d] = "whole" \/ BeingReplaced(d) \/ d \in cut

(***************************************************************************)
(* A pointer file can always be parsed, whatever a killed command or a     *)
(* write that failed left in the temporary file.                           *)
(***************************************************************************)
PointersReadable == overlap = "none" => \A k \in Pointers : Readable(active[k])

(***************************************************************************)
(* "MERGING with any already-recorded platforms (so android + ios          *)
(* coexist)": a platform that was recorded stays recorded with that        *)
(* version until it is set up again, however the other platforms are set   *)
(* up, fail or are killed.                                                 *)
(***************************************************************************)
PlatformsCoexist ==
    overlap = "none" => \A p \in Platforms : active["toolchains"][p] = ready[p]

(***************************************************************************)
(* A directory that is whole stops being whole only for a forced install   *)
(* of it that has fetched and verified its replacement, or for a clean     *)
(* that found it referred to by nothing; no other command, however it      *)
(* fails, touches what another one installed.                              *)
(***************************************************************************)
DamagedOnPurpose ==
    [][\A d \in Directories :
          overlap = "none" /\ dir[d] = "whole" /\ dir'[d] # "whole" =>
              \/ \E c \in Commands : At(c, "remove") /\ cmd[c].force /\ Target(c) = d
              \/ d \notin Recorded \cup Pinned]_vars

(***************************************************************************)
(* Every record can be read and refers to an installation that is whole    *)
(* (setActiveFrontend, setActiveToolchain, runCacheClean).                 *)
(***************************************************************************)
RecordsHold == TypeOK /\ RecordedInstalled /\ PointersReadable
=============================================================================
