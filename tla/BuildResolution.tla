--------------------------- MODULE BuildResolution ---------------------------
(***************************************************************************)
(* prepareSoroqBuildResolution (soroq_package_config.go): what every Soroq *)
(* build of one project does to the developer's pubspec.lock and to the    *)
(* resolution under .dart_tool/, by several builds at a time.              *)
(*                                                                         *)
(* `flutter pub get` has to run in the project, and rewrites pubspec.lock. *)
(* The developer's lock is parked in a sidecar first, put back afterwards, *)
(* and put back by the next build if this one dies in between.  Then an    *)
(* isolated resolution is installed, file by file, all of it under the     *)
(* project's build lock.                                                   *)
(*                                                                         *)
(* Abstracted: what a lock or a resolution contains (a lock is a value, a  *)
(* resolution the number of the run that made it, 0 for one made in the    *)
(* project itself), the extraction of the embedded package, which writes   *)
(* the same bytes for every build of one CLI, and a pub that writes no     *)
(* lock or no graph.                                                       *)
(***************************************************************************)
EXTENDS Naturals, FiniteSets

CONSTANTS
    Builds,        \* processes building the project
    DevLocks,      \* the locks the developer writes
    Rewritten,     \* the lock the frontend's pub writes
    NoLock,        \* no such file
    Nobody,        \* the build lock is free
    MaxRuns,       \* bound on the builds started
    MaxKills,      \* bound on the builds killed
    EditsAfterKill, \* the developer may write the lock while a killed build's
                    \* sidecar is still there, and not only when nothing is
    LockKinds       \* how the build lock is held: "flock", which the kernel
                    \* drops with the process, or "sentinel", a file that a
                    \* killed build leaves (Windows)

ASSUME ResolutionAssumption ==
    /\ Rewritten \notin DevLocks /\ NoLock \notin DevLocks \cup {Rewritten}
    /\ Nobody \notin Builds
    /\ MaxRuns \in Nat /\ MaxKills \in Nat
    /\ EditsAfterKill \in BOOLEAN
    /\ LockKinds \subseteq {"flock", "sentinel"}

VARIABLES
    lock,      \* pubspec.lock
    guard,     \* .soroq/lockguard/pubspec.lock
    config,    \* .dart_tool/package_config.json
    graph,     \* .dart_tool/package_graph.json
    pinned,    \* .soroq/build/pinned-pubspec.lock
    kind,      \* the kind of the build lock, fixed by the platform
    holder,    \* who holds .soroq/build.lock
    build,     \* the state of each build
    orphans,   \* pubs that outlived their build and have yet to write
    orphaned,  \* whether there ever was one (history)
    intended,  \* the lock the developer last wrote (history)
    runs, kills

installed == <<config, graph, pinned>>
pubs == <<orphans, orphaned>>
vars == <<lock, guard, installed, kind, holder, build, pubs, intended, runs, kills>>

Locks == DevLocks \cup {Rewritten, NoLock}
Steps == {"idle", "waiting", "restore", "unguard", "read", "pubget", "putback",
          "clearguard", "resolve", "config", "graph", "pinned"}

(* original is what the build read before injection, injected whether pub  *)
(* succeeded, run the number of the build and of the resolution it makes.  *)
BuildState == [at : Steps, original : Locks, injected : BOOLEAN, run : 0 .. MaxRuns]
NotBuilding == [at |-> "idle", original |-> NoLock, injected |-> FALSE, run |-> 0]

TypeOK ==
    /\ lock \in Locks /\ guard \in Locks /\ intended \in DevLocks \cup {NoLock}
    /\ {config, graph, pinned} \subseteq 0 .. MaxRuns
    /\ kind \in LockKinds /\ holder \in Builds \cup {Nobody}
    /\ build \in [Builds -> BuildState]
    /\ orphans \in 0 .. MaxKills /\ orphaned \in BOOLEAN
    /\ runs \in 0 .. MaxRuns /\ kills \in 0 .. MaxKills

-----------------------------------------------------------------------------
Init ==
    /\ intended \in DevLocks \cup {NoLock}
    /\ lock = intended
    /\ guard = NoLock
    /\ config = 0 /\ graph = 0 /\ pinned = 0
    /\ kind \in LockKinds /\ holder = Nobody
    /\ build = [b \in Builds |-> NotBuilding]
    /\ orphans = 0 /\ orphaned = FALSE
    /\ runs = 0 /\ kills = 0

At(b, step) == build[b].at = step
Goto(b, step) == build' = [build EXCEPT ![b].at = step]

(* Returning from prepareSoroqBuildResolution, with an error or without,   *)
(* releases the build lock (defer unlock()).                               *)
Return(b) ==
    /\ holder' = Nobody
    /\ build' = [build EXCEPT ![b] = NotBuilding]

Start(b) ==
    /\ At(b, "idle") /\ runs < MaxRuns
    /\ runs' = runs + 1
    /\ build' = [build EXCEPT ![b].at = "waiting", ![b].run = runs + 1]
    /\ UNCHANGED <<kind, lock, guard, installed, holder, pubs, intended, kills>>

(* Mutant: no serialisation of builds of one project. *)
AcquireFreely(b) ==
    /\ At(b, "waiting")
    /\ holder' = b
    /\ Goto(b, "restore")
    /\ UNCHANGED <<kind, lock, guard, installed, pubs, intended, runs, kills>>

(* acquireProjectBuildLock *)
Acquire(b) ==
    /\ At(b, "waiting") /\ holder = Nobody
    /\ holder' = b
    /\ Goto(b, "restore")
    /\ UNCHANGED <<kind, lock, guard, installed, pubs, intended, runs, kills>>

(* Mutant: the wait for the file has no bound. *)
GiveUpNever(b) == FALSE

(* Where the lock is a file, the wait is bounded and ends with an error. *)
GiveUp(b) ==
    /\ kind = "sentinel" /\ At(b, "waiting") /\ holder # Nobody
    /\ build' = [build EXCEPT ![b] = NotBuilding]
    /\ UNCHANGED <<kind, lock, guard, installed, holder, pubs, intended, runs, kills>>

(* restoreInterruptedLock: write the parked lock back, then drop it. *)
RestoreInterruptedLock(b) ==
    /\ At(b, "restore")
    /\ \/ guard = NoLock /\ Goto(b, "read") /\ UNCHANGED <<lock, holder>>
       \/ guard # NoLock /\ lock' = guard /\ Goto(b, "unguard") /\ UNCHANGED holder
       \/ guard \notin {NoLock, lock} /\ Return(b) /\ UNCHANGED lock   \* the write fails
    /\ UNCHANGED <<kind, guard, installed, pubs, intended, runs, kills>>

DropInterruptedGuard(b) ==
    /\ At(b, "unguard")
    /\ guard' = NoLock
    /\ Goto(b, "read")
    /\ UNCHANGED <<kind, lock, installed, holder, pubs, intended, runs, kills>>

(* runPluginInjection: read the lock and park it, when there is one. *)
ParkLock(b) ==
    /\ At(b, "read")
    /\ build' = [build EXCEPT ![b].at = "pubget", ![b].original = lock]
    /\ guard' = IF lock = NoLock THEN guard ELSE lock
    /\ UNCHANGED <<kind, lock, installed, holder, pubs, intended, runs, kills>>

(* `flutter pub get` in the project: it may leave the lock as it is, and   *)
(* it may fail before or after it rewrote the lock.                        *)
PubGet(b) ==
    /\ At(b, "pubget")
    /\ \E written, ok \in BOOLEAN :
          /\ ok /\ lock = NoLock => written
          /\ lock' = IF written THEN Rewritten ELSE lock
          /\ config' = IF ok THEN 0 ELSE config
          /\ graph' = IF ok THEN 0 ELSE graph
          /\ build' = [build EXCEPT ![b].at = "putback", ![b].injected = ok]
    /\ UNCHANGED <<kind, guard, pinned, holder, pubs, intended, runs, kills>>

(* Put the developer's lock back.  If that fails the sidecar stays.  Where *)
(* there was none, the one pub created goes, if pub succeeded.             *)
PutLockBack(b) ==
    LET original == build[b].original
    IN  /\ At(b, "putback")
        /\ \/ original # NoLock /\ lock' = original /\ Goto(b, "clearguard")
              /\ UNCHANGED holder
           \/ original # NoLock /\ Return(b) /\ UNCHANGED lock   \* the write fails
           \/ /\ original = NoLock
              /\ IF build[b].injected
                 THEN lock' = NoLock /\ Goto(b, "resolve") /\ UNCHANGED holder
                 ELSE Return(b) /\ UNCHANGED lock
        /\ UNCHANGED <<kind, guard, installed, pubs, intended, runs, kills>>

(* Drop the sidecar; a failed pub ends the build only now. *)
ClearGuard(b) ==
    /\ At(b, "clearguard")
    /\ guard' = NoLock
    /\ IF build[b].injected THEN Goto(b, "resolve") /\ UNCHANGED holder ELSE Return(b)
    /\ UNCHANGED <<kind, lock, installed, pubs, intended, runs, kills>>

(* resolveSoroqBuildInputs, in a workspace of its own. *)
ResolveIsolated(b) ==
    /\ At(b, "resolve")
    /\ \/ Goto(b, "config") /\ UNCHANGED holder
       \/ Return(b)
    /\ UNCHANGED <<kind, lock, guard, installed, pubs, intended, runs, kills>>

(* The three files of one resolution, each renamed into place.  A write    *)
(* that fails ends the build.                                              *)
InstallConfig(b) ==
    /\ At(b, "config")
    /\ \/ config' = build[b].run /\ Goto(b, "graph") /\ UNCHANGED holder
       \/ Return(b) /\ UNCHANGED config
    /\ UNCHANGED <<kind, lock, guard, graph, pinned, pubs, intended, runs, kills>>

(* Mutant: the graph that pub left in the project stays. *)
KeepProjectGraph(b) ==
    /\ At(b, "graph")
    /\ Goto(b, "pinned")
    /\ UNCHANGED <<kind, lock, guard, installed, holder, pubs, intended, runs, kills>>

InstallGraph(b) ==
    /\ At(b, "graph")
    /\ \/ graph' = build[b].run /\ Goto(b, "pinned") /\ UNCHANGED holder
       \/ Return(b) /\ UNCHANGED graph
    /\ UNCHANGED <<kind, lock, guard, config, pinned, pubs, intended, runs, kills>>

PinLock(b) ==
    /\ At(b, "pinned")
    /\ pinned' \in {build[b].run, pinned}
    /\ Return(b)
    /\ UNCHANGED <<kind, lock, guard, config, graph, pubs, intended, runs, kills>>

(* The build is killed.  The kernel drops its flock; a sentinel stays.  A  *)
(* pub it had started may go on.                                           *)
Kill(b) ==
    /\ ~At(b, "idle") /\ kills < MaxKills
    /\ kills' = kills + 1
    /\ build' = [build EXCEPT ![b] = NotBuilding]
    /\ holder' = IF holder = b /\ kind = "flock" THEN Nobody ELSE holder
    /\ \/ UNCHANGED <<lock, pubs>>
       \/ At(b, "pubget") /\ lock' = Rewritten /\ UNCHANGED pubs
       \/ At(b, "pubget") /\ orphans' = orphans + 1 /\ orphaned' = TRUE /\ UNCHANGED lock
    /\ UNCHANGED <<kind, guard, installed, intended, runs>>

OrphanWrites ==
    /\ orphans > 0
    /\ orphans' = orphans - 1
    /\ lock' = Rewritten /\ config' = 0 /\ graph' = 0
    /\ UNCHANGED <<kind, guard, pinned, holder, build, orphaned, intended, runs, kills>>

(* The developer's own pub get, or git checkout, while no build is at work. *)
DeveloperWrites(content) ==
    /\ \A b \in Builds : build[b].at \in {"idle", "waiting"}
    /\ guard = NoLock \/ EditsAfterKill
    /\ content # lock
    /\ lock' = content /\ intended' = content
    /\ config' = 0 /\ graph' = 0
    /\ UNCHANGED <<kind, guard, pinned, holder, build, pubs, runs, kills>>

-----------------------------------------------------------------------------
Progress(b) ==
    \/ Acquire(b) \/ GiveUp(b)
    \/ RestoreInterruptedLock(b) \/ DropInterruptedGuard(b) \/ ParkLock(b) \/ PubGet(b)
    \/ PutLockBack(b) \/ ClearGuard(b) \/ ResolveIsolated(b)
    \/ InstallConfig(b) \/ InstallGraph(b) \/ PinLock(b)

Next ==
    \/ \E b \in Builds : Start(b) \/ Progress(b) \/ Kill(b)
    \/ OrphanWrites
    \/ \E content \in DevLocks : DeveloperWrites(content)

Spec == Init /\ [][Next]_vars

(* A build that can go on does; nothing obliges anybody to start one, or   *)
(* the developer to write.                                                 *)
FairSpec == Spec /\ \A b \in Builds : WF_vars(Progress(b))

-----------------------------------------------------------------------------
(* Properties *)

(***************************************************************************)
(* "A crash at any point leaves the lock recoverable": at every step of    *)
(* every build, killed there or not, the developer's lock is in place or   *)
(* in the sidecar the next build restores from.  This holds as long as a   *)
(* killed build takes its pub down with it.                                *)
(***************************************************************************)
DeveloperLockRecoverable ==
    ~orphaned /\ intended # NoLock => lock = intended \/ guard = intended

(***************************************************************************)
(* "puts pubspec.lock back exactly as the developer had it": a build that  *)
(* got as far as installing its resolution, and so one that succeeds, has  *)
(* left the developer's lock and no sidecar, whatever an earlier build     *)
(* that was killed left behind.                                            *)
(***************************************************************************)
LockBackBeforeInstall ==
    \A b \in Builds :
        /\ build[b].at \in {"config", "graph", "pinned"}
        /\ ~orphaned /\ intended # NoLock
        => lock = intended /\ guard = NoLock

(***************************************************************************)
(* "each describes the same resolution, and none may be installed next to  *)
(* another's": when the last of the three files is installed, all three    *)
(* are of this build, whichever builds ran or died before.                 *)
(***************************************************************************)
InstallsTogether ==
    \A b \in Builds :
        At(b, "pinned") /\ pinned' # pinned /\ ~orphaned =>
            config' = build[b].run /\ graph' = build[b].run /\ pinned' = build[b].run

(***************************************************************************)
(* No build waits for ever, not even for one that was killed.              *)
(***************************************************************************)
WaitEnds == \A b \in Builds : At(b, "waiting") ~> ~At(b, "waiting")

(***************************************************************************)
(* The developer's lock survives builds that overlap and are killed        *)
(* (prepareSoroqBuildResolution): recoverable at every step, and back      *)
(* before anything is installed.                                           *)
(***************************************************************************)
DeveloperLockKept == TypeOK /\ DeveloperLockRecoverable /\ LockBackBeforeInstall
=============================================================================
