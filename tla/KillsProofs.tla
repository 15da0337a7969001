----------------------------- MODULE KillsProofs -----------------------------
(***************************************************************************)
(* Proofs about commands that are killed at any step, for any constants.   *)
(* Part 1, BuildResolution.  Part 2, SelfUpdate.  Part 3, Kills, the two.  *)
(***************************************************************************)
EXTENDS Kills, WellFoundedInduction, TLAPS

-----------------------------------------------------------------------------
(***************************************************************************)
(* Part 1.  What prepareSoroqBuildResolution promises the developer, for   *)
(* any number of builds, kills and locks and both kinds of build lock: the *)
(* lock file is in place or in the sidecar at every step, it is back before*)
(* anything is installed, and what is installed is of one build.  All of it*)
(* rests on the build lock (Exclusive): what a build read or wrote is still*)
(* so when it goes on.                                                     *)
(***************************************************************************)

Past == {"restore", "unguard", "read", "pubget", "putback", "clearguard",
         "resolve", "config", "graph", "pinned"}

(* At most one build is past the lock, and it is the one that holds it.    *)
Exclusive == \A b \in Builds : build[b].at \in Past => holder = b

(* A pub that outlived its build leaves a mark, and a kill each.           *)
OrphansMarked == orphans <= kills /\ (orphans > 0 => orphaned)

(* Where the lock that the developer wrote is, of lock l and sidecar g,    *)
(* and what a build in state r knows of it.                                *)
Somewhere(l, g) == g = intended \/ (g = NoLock /\ l = intended)
Parked(r, l, g) ==
    /\ r.at \in {"unguard", "read", "clearguard", "resolve", "config", "graph", "pinned"} => l = intended
    /\ r.at \in {"read", "resolve", "config", "graph", "pinned"} => g = NoLock
    /\ r.at \in {"pubget", "putback", "clearguard"} => g = intended /\ r.original = intended

LockInv == ~orphaned /\ intended # NoLock =>
    Somewhere(lock, guard) /\ \A b \in Builds : Parked(build[b], lock, guard)

(* What of the three files is already of the build r that installs them.   *)
Installed(r, c, g) ==
    /\ r.at \in {"graph", "pinned"} => c = r.run
    /\ r.at = "pinned" => g = r.run

InstallInv == ~orphaned => \A b \in Builds : Installed(build[b], config, graph)

ResolutionInv == TypeOK /\ Exclusive /\ OrphansMarked /\ InstallInv /\ (~EditsAfterKill => LockInv)
-----------------------------------------------------------------------------
LEMMA Typed ==
    ASSUME TypeOK
    PROVE  /\ build \in [Builds -> BuildState]
           /\ lock \in Locks /\ guard \in Locks /\ intended \in Locks /\ holder \in Builds \cup {Nobody}
           /\ config \in 0 .. MaxRuns /\ graph \in 0 .. MaxRuns /\ pinned \in 0 .. MaxRuns
           /\ runs \in 0 .. MaxRuns /\ NotBuilding \in BuildState
           /\ MaxRuns \in Nat /\ MaxKills \in Nat
BY ResolutionAssumption DEF TypeOK, Locks, NotBuilding, BuildState, Steps

(* A build that goes to another step keeps what it holds.                  *)
LEMMA Onward ==
    ASSUME NEW r \in BuildState, NEW s \in Steps
    PROVE  LET q == [r EXCEPT !.at = s] IN
           q \in BuildState /\ q.at = s /\ q.original = r.original /\ q.run = r.run /\ q.injected = r.injected
BY DEF BuildState

(* A build that is past the lock is alone there, so a step of it only has  *)
(* to keep what it holds itself; a build that is not changes nothing.      *)
LEMMA OneMoves ==
    ASSUME ResolutionInv, NEW b \in Builds, NEW q \in BuildState,
           build' = [build EXCEPT ![b] = q], UNCHANGED <<kind, pubs, intended, kills>>,
           lock' \in Locks, guard' \in Locks, holder' \in Builds \cup {Nobody},
           config' \in 0 .. MaxRuns, graph' \in 0 .. MaxRuns, pinned' \in 0 .. MaxRuns,
           runs' \in 0 .. MaxRuns,
           build[b].at \in Past \/ (UNCHANGED <<lock, guard, config, graph>> /\ (holder' = holder \/ holder = Nobody)),
           q.at \in Past => holder' = b,
           ~orphaned => Installed(q, config', graph'),
           ~orphaned /\ intended # NoLock /\ ~EditsAfterKill => Somewhere(lock', guard') /\ Parked(q, lock', guard')
    PROVE  ResolutionInv'
<1>1. build \in [Builds -> BuildState] /\ TypeOK /\ Exclusive /\ OrphansMarked
  BY Typed DEF ResolutionInv
<1>2. /\ build' \in [Builds -> BuildState] /\ build'[b] = q
      /\ \A c \in Builds : c # b => build'[c] = build[c]
  BY <1>1
<1>3. TypeOK'
  BY <1>1, <1>2 DEF TypeOK, pubs
<1>4. OrphansMarked'
  BY <1>1 DEF OrphansMarked, pubs
<1>5. ASSUME NEW c \in Builds, c # b, build[c].at \in Past
      PROVE  UNCHANGED <<lock, guard, config, graph, holder>>
  <2>1. holder = c /\ build[b].at \notin Past
    BY <1>1, <1>5 DEF Exclusive
  <2> QED
    BY <2>1, ResolutionAssumption
<1>6. Exclusive'
  BY <1>1, <1>2, <1>5 DEF Exclusive
<1>7. InstallInv'
  <2>1. ASSUME ~orphaned, NEW c \in Builds, c # b PROVE Installed(build[c], config', graph')
    <3>1. Installed(build[c], config, graph)
      BY <2>1 DEF ResolutionInv, InstallInv
    <3> QED
      BY <1>5, <2>1, <3>1 DEF Installed, Past
  <2> QED
    BY <1>2, <2>1 DEF InstallInv, pubs
<1>8. ~EditsAfterKill => LockInv'
  <2>1. ASSUME ~orphaned, intended # NoLock, ~EditsAfterKill, NEW c \in Builds, c # b
        PROVE Parked(build[c], lock', guard')
    <3>1. Parked(build[c], lock, guard)
      BY <2>1 DEF ResolutionInv, LockInv
    <3> QED
      BY <1>5, <2>1, <3>1 DEF Parked, Past
  <2> QED
    BY <1>2, <2>1 DEF LockInv, pubs, Somewhere, Parked
<1> QED
  BY <1>3, <1>4, <1>6, <1>7, <1>8 DEF ResolutionInv

(* What holds of the build b that takes a step.                            *)
LEMMA OfBuild ==
    ASSUME ResolutionInv, NEW b \in Builds
    PROVE  /\ build[b] \in BuildState /\ build[b].original \in Locks /\ build[b].run \in 0 .. MaxRuns
           /\ ~orphaned => Installed(build[b], config, graph)
           /\ ~orphaned /\ intended # NoLock /\ ~EditsAfterKill =>
                  Somewhere(lock, guard) /\ Parked(build[b], lock, guard)
BY Typed DEF ResolutionInv, InstallInv, LockInv, BuildState

LEMMA BeginKeeps ==
    ASSUME ResolutionInv, NEW b \in Builds, Start(b) \/ Acquire(b) \/ GiveUp(b)
    PROVE  ResolutionInv'
<1>1. build[b] \in BuildState /\ "waiting" \in Steps /\ "restore" \in Steps
  BY Typed DEF ResolutionInv, Steps
<1>2. CASE Start(b)
  <2> DEFINE q == [build[b] EXCEPT !.at = "waiting", !.run = runs + 1]
  <2>1. q.at = "waiting" /\ runs' = runs + 1 /\ runs' \in 0 .. MaxRuns /\ build[b].at = "idle"
    BY <1>1, <1>2, Typed DEF ResolutionInv, BuildState, Start, At
  <2>2. q \in BuildState
    BY <1>1, <1>2, <2>1 DEF BuildState, Start
  <2>3. build' = [build EXCEPT ![b] = q] /\ UNCHANGED <<kind, lock, guard, installed, holder, pubs, intended, kills>>
    BY <1>2 DEF Start
  <2> HIDE DEF q
  <2> QED
    BY <2>1, <2>2, <2>3, Typed, OfBuild, OneMoves DEF ResolutionInv, installed, Past, Installed, Parked
<1>3. CASE Acquire(b)
  <2> DEFINE q == [build[b] EXCEPT !.at = "restore"]
  <2>1. q \in BuildState /\ q.at = "restore"
    BY <1>1, Onward
  <2> QED
    BY <1>3, <2>1, Typed, OfBuild, OneMoves DEF ResolutionInv, Acquire, Goto, At, installed, Past, Installed, Parked
<1>4. CASE GiveUp(b)
  BY <1>4, Typed, OfBuild, OneMoves DEF ResolutionInv, GiveUp, At, NotBuilding, installed, Past, Installed, Parked
<1> QED
  BY <1>2, <1>3, <1>4

(* A build that returns lets go of the lock and holds nothing.             *)
LEMMA ReturnKeeps ==
    ASSUME ResolutionInv, NEW b \in Builds, build[b].at \in Past, Return(b),
           UNCHANGED <<kind, pubs, intended, runs, kills>>,
           lock' \in Locks, guard' \in Locks,
           config' \in 0 .. MaxRuns, graph' \in 0 .. MaxRuns, pinned' \in 0 .. MaxRuns,
           ~orphaned /\ intended # NoLock /\ ~EditsAfterKill => Somewhere(lock', guard')
    PROVE  ResolutionInv'
BY Typed, OneMoves DEF ResolutionInv, Return, NotBuilding, Past, Installed, Parked

(* A build that goes on to step s, having done to the files what it did.   *)
LEMMA GotoKeeps ==
    ASSUME ResolutionInv, NEW b \in Builds, build[b].at \in Past, NEW s \in Past, Goto(b, s),
           UNCHANGED <<kind, holder, pubs, intended, runs, kills>>,
           lock' \in Locks, guard' \in Locks,
           config' \in 0 .. MaxRuns, graph' \in 0 .. MaxRuns, pinned' \in 0 .. MaxRuns,
           ~orphaned => Installed([at |-> s, run |-> build[b].run], config', graph'),
           ~orphaned /\ intended # NoLock /\ ~EditsAfterKill =>
               Somewhere(lock', guard') /\ Parked([at |-> s, original |-> build[b].original], lock', guard')
    PROVE  ResolutionInv'
<1> DEFINE q == [build[b] EXCEPT !.at = s]
<1>1. s \in Steps /\ build[b] \in BuildState /\ holder = b
  BY Typed DEF ResolutionInv, Past, Steps, Exclusive
<1>2. q \in BuildState /\ q.at = s /\ q.original = build[b].original /\ q.run = build[b].run
  BY <1>1, Onward
<1>3. build' = [build EXCEPT ![b] = q]
  BY DEF Goto
<1> HIDE DEF q
<1> QED
  BY <1>1, <1>2, <1>3, Typed, OneMoves DEF ResolutionInv, Installed, Parked

LEMMA RestoreKeeps ==
    ASSUME ResolutionInv, NEW b \in Builds, RestoreInterruptedLock(b) \/ DropInterruptedGuard(b)
    PROVE  ResolutionInv'
<1> USE Typed, OfBuild DEF At, Past, installed, Installed, Parked, Somewhere
<1>1. CASE RestoreInterruptedLock(b) /\ guard = NoLock /\ Goto(b, "read") /\ UNCHANGED <<lock, holder>>
  BY <1>1, GotoKeeps DEF ResolutionInv, RestoreInterruptedLock
<1>2. CASE RestoreInterruptedLock(b) /\ guard # NoLock /\ lock' = guard /\ Goto(b, "unguard") /\ UNCHANGED holder
  BY <1>2, GotoKeeps DEF ResolutionInv, RestoreInterruptedLock
<1>3. CASE RestoreInterruptedLock(b) /\ Return(b) /\ UNCHANGED lock
  BY <1>3, ReturnKeeps DEF ResolutionInv, RestoreInterruptedLock
<1>4. CASE DropInterruptedGuard(b)
  BY <1>4, GotoKeeps DEF ResolutionInv, DropInterruptedGuard, Locks
<1> QED
  BY <1>1, <1>2, <1>3, <1>4 DEF RestoreInterruptedLock

LEMMA ParkKeeps ==
    ASSUME ResolutionInv, NEW b \in Builds, ParkLock(b)
    PROVE  ResolutionInv'
<1> DEFINE q == [build[b] EXCEPT !.at = "pubget", !.original = lock]
<1>1. build[b] \in BuildState /\ lock \in Locks /\ "pubget" \in Steps
  BY Typed DEF ResolutionInv, Steps
<1>2. q \in BuildState /\ q.at = "pubget" /\ q.original = lock
  BY <1>1 DEF BuildState
<1>3. /\ build' = [build EXCEPT ![b] = q] /\ build[b].at = "read"
      /\ guard' = (IF lock = NoLock THEN guard ELSE lock)
      /\ UNCHANGED <<kind, lock, installed, holder, pubs, intended, runs, kills>>
  BY DEF ParkLock, At
<1>4. holder = b
  BY <1>3 DEF ResolutionInv, Exclusive, Past
<1> HIDE DEF q
<1> QED
  BY <1>1, <1>2, <1>3, <1>4, Typed, OfBuild, OneMoves DEF ResolutionInv, Past, installed, Installed, Parked, Somewhere

LEMMA PubGetKeeps ==
    ASSUME ResolutionInv, NEW b \in Builds, PubGet(b)
    PROVE  ResolutionInv'
<1>1. PICK written \in BOOLEAN, ok \in BOOLEAN :
        /\ lock' = (IF written THEN Rewritten ELSE lock)
        /\ config' = (IF ok THEN 0 ELSE config) /\ graph' = (IF ok THEN 0 ELSE graph)
        /\ build' = [build EXCEPT ![b] = [build[b] EXCEPT !.at = "putback", !.injected = ok]]
  BY DEF PubGet
<1> DEFINE q == [build[b] EXCEPT !.at = "putback", !.injected = ok]
<1>2. build[b].at = "pubget" /\ UNCHANGED <<kind, guard, pinned, holder, pubs, intended, runs, kills>>
  BY DEF PubGet, At
<1>3. q \in BuildState /\ q.at = "putback" /\ q.original = build[b].original
  BY Typed DEF ResolutionInv, BuildState, Steps
<1>4. holder = b /\ lock' \in Locks /\ config' \in 0 .. MaxRuns /\ graph' \in 0 .. MaxRuns
  BY <1>1, <1>2, Typed DEF ResolutionInv, Exclusive, Past, Locks
<1>5. build' = [build EXCEPT ![b] = q]
  BY <1>1
<1> HIDE DEF q
<1> QED
  BY <1>2, <1>3, <1>4, <1>5, Typed, OfBuild, OneMoves DEF ResolutionInv, Past, Installed, Parked, Somewhere

LEMMA PutBackKeeps ==
    ASSUME ResolutionInv, NEW b \in Builds, PutLockBack(b) \/ ClearGuard(b)
    PROVE  ResolutionInv'
<1> USE Typed, OfBuild DEF At, Past, installed, Installed, Parked, Somewhere
<1>1. CASE PutLockBack(b) /\ lock' = build[b].original /\ Goto(b, "clearguard") /\ UNCHANGED holder
  BY <1>1, GotoKeeps DEF ResolutionInv, PutLockBack
<1>2. CASE PutLockBack(b) /\ Return(b) /\ UNCHANGED lock
  BY <1>2, ReturnKeeps DEF ResolutionInv, PutLockBack
<1>3. CASE PutLockBack(b) /\ build[b].original = NoLock /\ lock' = NoLock /\ Goto(b, "resolve") /\ UNCHANGED holder
  BY <1>3, GotoKeeps DEF ResolutionInv, PutLockBack, Locks
<1>4. CASE ClearGuard(b) /\ Goto(b, "resolve") /\ UNCHANGED holder
  BY <1>4, GotoKeeps DEF ResolutionInv, ClearGuard, Locks
<1>5. CASE ClearGuard(b) /\ Return(b)
  BY <1>5, ReturnKeeps DEF ResolutionInv, ClearGuard, Locks
<1> QED
  BY <1>1, <1>2, <1>3, <1>4, <1>5 DEF PutLockBack, ClearGuard

LEMMA InstallKeeps ==
    ASSUME ResolutionInv, NEW b \in Builds,
           ResolveIsolated(b) \/ InstallConfig(b) \/ InstallGraph(b) \/ PinLock(b)
    PROVE  ResolutionInv'
<1> USE Typed, OfBuild DEF At, Past, installed, Installed, Parked, Somewhere
<1>1. CASE ResolveIsolated(b) /\ Goto(b, "config") /\ UNCHANGED holder
  BY <1>1, GotoKeeps DEF ResolutionInv, ResolveIsolated
<1>2. CASE ResolveIsolated(b) /\ Return(b)
  BY <1>2, ReturnKeeps DEF ResolutionInv, ResolveIsolated
<1>3. CASE InstallConfig(b) /\ config' = build[b].run /\ Goto(b, "graph") /\ UNCHANGED holder
  BY <1>3, GotoKeeps DEF ResolutionInv, InstallConfig
<1>4. CASE InstallConfig(b) /\ Return(b) /\ UNCHANGED config
  BY <1>4, ReturnKeeps DEF ResolutionInv, InstallConfig
<1>5. CASE InstallGraph(b) /\ graph' = build[b].run /\ Goto(b, "pinned") /\ UNCHANGED holder
  BY <1>5, GotoKeeps DEF ResolutionInv, InstallGraph
<1>6. CASE InstallGraph(b) /\ Return(b) /\ UNCHANGED graph
  BY <1>6, ReturnKeeps DEF ResolutionInv, InstallGraph
<1>7. CASE PinLock(b)
  BY <1>7, ReturnKeeps DEF ResolutionInv, PinLock
<1> QED
  BY <1>1, <1>2, <1>3, <1>4, <1>5, <1>6, <1>7 DEF ResolveIsolated, InstallConfig, InstallGraph

(* A kill takes one build away, where it stood; what it held stays, and so *)
(* may its pub.                                                            *)
LEMMA KillKeeps ==
    ASSUME ResolutionInv, NEW b \in Builds, Kill(b)
    PROVE  ResolutionInv'
<1>1. /\ build \in [Builds -> BuildState] /\ TypeOK /\ Exclusive /\ OrphansMarked
      /\ build' = [build EXCEPT ![b] = NotBuilding]
      /\ UNCHANGED <<kind, guard, config, graph, pinned, intended, runs>>
  BY Typed DEF ResolutionInv, Kill, installed
<1>2. /\ build' \in [Builds -> BuildState] /\ build'[b] = NotBuilding
      /\ \A c \in Builds : c # b => build'[c] = build[c]
  BY <1>1, Typed
<1>3. /\ kills \in Nat /\ orphans \in Nat /\ kills < MaxKills /\ kills' = kills + 1 /\ orphans' <= kills' /\ orphans' \in Nat
      /\ (orphans' > 0 => orphaned') /\ orphaned' \in BOOLEAN /\ (orphaned => orphaned')
  <2>1. kills \in Nat /\ orphans \in Nat /\ MaxKills \in Nat /\ orphaned \in BOOLEAN /\ kills < MaxKills /\ kills' = kills + 1
    BY <1>1, Typed DEF TypeOK, Kill
  <2>2. orphans <= kills /\ (orphans > 0 => orphaned)
    BY <1>1 DEF OrphansMarked
  <2>3. CASE UNCHANGED pubs
    BY <2>1, <2>2, <2>3 DEF pubs
  <2>4. CASE orphans' = orphans + 1 /\ orphaned' = TRUE
    BY <2>1, <2>2, <2>4
  <2> QED
    BY <2>3, <2>4 DEF Kill
<1>4. lock' \in Locks /\ holder' \in Builds \cup {Nobody}
  BY <1>1 DEF TypeOK, Kill, Locks
<1>5. TypeOK' /\ OrphansMarked'
  <2>1. orphans' \in 0 .. MaxKills /\ kills' \in 0 .. MaxKills
    BY <1>3, Typed, <1>1
  <2> QED
    BY <1>1, <1>2, <1>3, <1>4, <2>1 DEF TypeOK, OrphansMarked
<1>6. Exclusive'
  BY <1>1, <1>2 DEF Exclusive, Kill, NotBuilding, Past
<1>7. InstallInv'
  BY <1>1, <1>2, <1>3 DEF ResolutionInv, InstallInv, Installed, NotBuilding
<1>8. ~EditsAfterKill => LockInv'
  <2> SUFFICES ASSUME ~EditsAfterKill, ~orphaned', intended # NoLock
               PROVE  Somewhere(lock', guard) /\ \A c \in Builds : Parked(build'[c], lock', guard)
    BY <1>1 DEF LockInv, Somewhere, Parked
  <2>1. Somewhere(lock, guard) /\ \A c \in Builds : Parked(build[c], lock, guard)
    BY <1>3 DEF ResolutionInv, LockInv
  <2>2. lock' = lock \/ (build[b].at = "pubget" /\ guard = intended)
    BY <2>1 DEF Kill, At, Parked
  <2>3. Somewhere(lock', guard)
    BY <2>1, <2>2 DEF Somewhere
  <2>4. Parked(build'[b], lock', guard)
    BY <1>2 DEF Parked, NotBuilding
  <2>5. ASSUME NEW c \in Builds, c # b PROVE Parked(build'[c], lock', guard)
    <3>1. CASE lock' = lock
      BY <1>2, <2>1, <2>5, <3>1
    <3>2. CASE build[b].at = "pubget"
      BY <1>1, <1>2, <2>5, <3>2 DEF Exclusive, Past, Parked
    <3> QED
      BY <2>2, <3>1, <3>2
  <2> QED
    BY <2>3, <2>4, <2>5
<1> QED
  BY <1>5, <1>6, <1>7, <1>8 DEF ResolutionInv

(* An orphan writes after a mark that there was one; the developer writes  *)
(* where no build is past the lock and nothing is parked.                  *)
LEMMA OutsideKeeps ==
    ASSUME ResolutionInv, OrphanWrites \/ \E content \in DevLocks : DeveloperWrites(content)
    PROVE  ResolutionInv'
<1>1. TypeOK /\ Exclusive /\ OrphansMarked /\ UNCHANGED <<build, holder, orphaned, kills>>
  BY DEF ResolutionInv, OrphanWrites, DeveloperWrites, pubs
<1>2. CASE OrphanWrites
  <2>1. orphaned /\ orphans' \in 0 .. MaxKills /\ orphans' <= kills
    BY <1>1, <1>2, Typed DEF OrphanWrites, OrphansMarked, TypeOK
  <2>2. TypeOK'
    BY <1>1, <1>2, <2>1, Typed DEF OrphanWrites, TypeOK, Locks
  <2> QED
    BY <1>1, <2>1, <2>2 DEF ResolutionInv, Exclusive, OrphansMarked, InstallInv, LockInv
<1>3. ASSUME NEW content \in DevLocks, DeveloperWrites(content)
      PROVE  ResolutionInv'
  <2>1. /\ lock' = content /\ intended' = content /\ config' = 0 /\ graph' = 0
        /\ UNCHANGED <<kind, guard, pinned, holder, build, orphans, orphaned, runs, kills>>
        /\ \A c \in Builds : build[c].at \notin Past
        /\ (~EditsAfterKill => guard = NoLock)
    BY <1>3 DEF DeveloperWrites, pubs, Past
  <2>2. TypeOK'
    BY <1>1, <2>1, Typed DEF TypeOK, Locks
  <2> QED
    BY <1>1, <2>1, <2>2 DEF ResolutionInv, Exclusive, OrphansMarked, InstallInv, LockInv, Somewhere, Parked, Installed, Past
<1> QED
  BY <1>2, <1>3
-----------------------------------------------------------------------------
LEMMA ResolutionInvInductive ==
    ASSUME ResolutionInv, [Next]_vars
    PROVE  ResolutionInv'
<1>1. CASE Next
  <2>1. ASSUME NEW b \in Builds, Start(b) \/ Progress(b)
        PROVE  ResolutionInv'
    BY <2>1, BeginKeeps, RestoreKeeps, ParkKeeps, PubGetKeeps, PutBackKeeps, InstallKeeps DEF Progress
  <2> QED
    BY <1>1, <2>1, KillKeeps, OutsideKeeps DEF Next
<1>2. CASE UNCHANGED vars
  BY <1>2 DEF vars, pubs, installed, ResolutionInv, TypeOK, Exclusive, OrphansMarked, InstallInv, LockInv,
              Somewhere, Parked, Installed
<1> QED
  BY <1>1, <1>2

LEMMA ResolutionInvInitially ==
    ASSUME Init
    PROVE  ResolutionInv
<1>1. NotBuilding \in BuildState
  BY ResolutionAssumption DEF Locks, NotBuilding, BuildState, Steps
<1>2. TypeOK
  <2>1. /\ build \in [Builds -> BuildState]
        /\ 0 \in 0 .. MaxRuns /\ 0 \in 0 .. MaxKills
    BY <1>1, ResolutionAssumption DEF Init
  <2>2. orphaned \in BOOLEAN
    BY DEF Init
  <2> QED
    BY <2>1, <2>2 DEF Init, TypeOK, Locks
<1> QED
  BY <1>2, ResolutionAssumption DEF Init, ResolutionInv, NotBuilding, Exclusive, Past, OrphansMarked,
         InstallInv, LockInv, Somewhere, Parked, Installed

THEOREM ResolutionInvHolds == Spec => []ResolutionInv
<1>1. Init => ResolutionInv
  BY ResolutionInvInitially
<1>2. ResolutionInv /\ [Next]_vars => ResolutionInv'
  BY ResolutionInvInductive
<1> QED
  BY <1>1, <1>2, PTL DEF Spec

(***************************************************************************)
(* The developer's lock is kept by any number of builds that overlap and   *)
(* are killed, under either kind of build lock (prepareSoroqBuildResolution*)
(* and the guard it parks), as long as the developer does not write the    *)
(* lock while a killed build's sidecar is there, which would be put back   *)
(* over it.                                                                *)
(***************************************************************************)
THEOREM DeveloperLockIsKept == ~EditsAfterKill => (Spec => []DeveloperLockKept)
<1>1. ~EditsAfterKill /\ ResolutionInv => DeveloperLockKept
  BY DEF ResolutionInv, DeveloperLockKept, DeveloperLockRecoverable, LockBackBeforeInstall, LockInv, Somewhere, Parked
<1>2. EditsAfterKill \in BOOLEAN
  BY ResolutionAssumption
<1>3. CASE EditsAfterKill
  BY <1>3
<1>4. CASE ~EditsAfterKill
  <2>1. ResolutionInv => DeveloperLockKept
    BY <1>1, <1>4
  <2> QED
    BY <2>1, ResolutionInvHolds, PTL
<1> QED
  BY <1>2, <1>3, <1>4

(***************************************************************************)
(* The three files that a build ends with are of one resolution, its own   *)
(* (installSoroqResolution), whatever builds ran, overlapped or were       *)
(* killed before, and whatever the developer did in between.               *)
(***************************************************************************)
THEOREM InstallsAreWhole == Spec => [][InstallsTogether]_vars
<1>1. ResolutionInv /\ [Next]_vars => [InstallsTogether]_vars
  <2> SUFFICES ASSUME ResolutionInv, Next, NEW b \in Builds, At(b, "pinned"), pinned' # pinned, ~orphaned
               PROVE  config' = build[b].run /\ graph' = build[b].run /\ pinned' = build[b].run
    BY DEF InstallsTogether, vars, installed
  <2>1. PICK c \in Builds : PinLock(c)
    BY DEF Next, Progress, Start, Acquire, GiveUp, RestoreInterruptedLock, DropInterruptedGuard, ParkLock,
           PubGet, PutLockBack, ClearGuard, ResolveIsolated, InstallConfig, InstallGraph, Kill, OrphanWrites,
           DeveloperWrites, installed
  <2>2. c = b
    BY <2>1, ResolutionAssumption DEF PinLock, At, ResolutionInv, Exclusive, Past
  <2> QED
    BY <2>1, <2>2, OfBuild DEF PinLock, At, Installed
<1> QED
  BY <1>1, ResolutionInvHolds, PTL DEF Spec

-----------------------------------------------------------------------------
(***************************************************************************)
(* Part 2.  What `soroq update` promises (selfupdate.go) where one runs at *)
(* a time, for any number of releases, failures and kills: each binary is  *)
(* in place or in its backup, none is silently older than one that was     *)
(* verified, a failure leaves both new or both old, and a run that is left *)
(* alone sweeps up.  Doing says how far an update has got, by the step it  *)
(* is at.                                                                  *)
(***************************************************************************)

OneUpdater == \E me : Updaters = {me}

(* Neither binary is without a copy, and a copy is whole.                  *)
Copies(T, B) == \A b \in Binaries :
    T[b] \in Versions \cup {Absent} /\ B[b] \in Versions \cup {Absent} /\ (T[b] # Absent \/ B[b] # Absent)

(* The copy that counts is not older than version v.                       *)
Recent(T, B, v) == \A b \in Binaries : IF T[b] # Absent THEN T[b] >= v ELSE B[b] >= v

(* What the update in state r has made of targets T, backups B and staged  *)
(* files S, v being the newest verified version and n the failures so far. *)
Doing(r, T, B, S, v, n) ==
    /\ r.phase \notin {"idle", "clean"} => r.current >= v
    /\ r.phase \in {"repair", "sweep", "resolve", "stage"} => T["soroq"] = r.current
    /\ r.phase \in {"stage", "backup", "install", "verify"} => r.expect > r.current
    /\ r.phase = "stage" /\ r.bin = "soroqctl" => S["soroq"] = r.expect
    /\ r.phase = "backup" =>
          /\ S["soroq"] = r.expect /\ S["soroqctl"] = r.expect
          /\ r.have["soroqctl"] <=> T["soroqctl"] # Absent
          /\ IF r.bin = "soroq" THEN r.have["soroq"] <=> T["soroq"] # Absent ELSE T["soroq"] = Absent
    /\ r.phase = "unback" => T["soroq"] = Absent
    /\ r.phase = "install" =>
          /\ T["soroqctl"] = Absent /\ S["soroqctl"] = r.expect
          /\ IF r.bin = "soroq" THEN T["soroq"] = Absent /\ S["soroq"] = r.expect
             ELSE T["soroq"] = r.expect /\ B["soroq"] # Absent /\ B["soroq"] >= v
    /\ r.phase = "verify" => \A b \in Binaries : T[b] = r.expect /\ B[b] # Absent /\ B[b] >= v
    /\ r.phase = "remove" =>
          /\ \A b \in Binaries : B[b] # Absent /\ B[b] >= v
          /\ r.bin = "soroqctl" => T["soroq"] = Absent
    /\ r.phase = "restore" => T["soroqctl"] = Absent /\ (r.bin = "soroq" => T["soroq"] = Absent)
    /\ r.phase = "clean" => v = r.expect /\ \A b \in Binaries : T[b] = r.expect
    /\ r.phase \in {"unback", "remove", "restore", "discard"} => n > 0

(* Without a kill, and with one failure at most, nothing old is left and   *)
(* what is put back is what there was; sc is the half-done install.sh.     *)
Undone(r, T, B, sc) ==
    /\ r.phase = "idle" =>
          /\ B["soroq"] = Absent /\ B["soroqctl"] = Absent
          /\ sc = Absent => T["soroqctl"] = T["soroq"]
    /\ r.phase \in {"repair", "sweep", "resolve", "stage", "discard"} \/ (r.phase = "backup" /\ r.bin = "soroq") =>
          \A b \in Binaries : T[b] = r.current /\ B[b] = Absent
    /\ r.phase \in {"backup", "install", "verify", "remove", "restore"} => r.have["soroq"] /\ r.have["soroqctl"]
    /\ r.phase = "unback" \/ (r.phase = "backup" /\ r.bin = "soroqctl") =>
          /\ T["soroq"] = Absent /\ B["soroq"] = r.current
          /\ T["soroqctl"] = r.current /\ B["soroqctl"] = Absent
    /\ r.phase \in {"install", "verify", "remove"} => B["soroq"] = r.current
    /\ r.phase \in {"install", "verify", "remove", "restore"} => B["soroqctl"] = r.current
    /\ r.phase = "restore" =>
          IF r.bin = "soroq" THEN B["soroq"] = r.current ELSE T["soroq"] = r.current /\ B["soroq"] = Absent
    /\ r.phase = "clean" /\ r.bin = "soroqctl" => B["soroq"] = Absent

(* Where nothing failed, the files of earlier runs are gone.               *)
Swept(r, B, S) ==
    /\ (r.phase = "sweep" /\ r.bin = "soroq") \/ (r.phase = "clean" /\ r.bin = "soroqctl") => B["soroq"] = Absent
    /\ r.phase \in {"repair", "sweep"} /\ r.bin = "soroqctl" => B["soroq"] = Absent /\ S["soroq"] = Absent
    /\ r.phase = "sweep" /\ r.bin = "soroqctl" => B["soroqctl"] = Absent
    /\ r.phase = "resolve" => \A b \in Binaries : B[b] = Absent /\ S[b] = Absent
    /\ r.phase = "install" /\ r.bin = "soroqctl" => S["soroq"] = Absent
    /\ r.phase \in {"verify", "clean"} => S["soroq"] = Absent /\ S["soroqctl"] = Absent

UpdateInv ==
    /\ UpdateTypeOK /\ Copies(target, backup)
    /\ script = Absent => Recent(target, backup, verified)
    /\ script # Absent => target["soroq"] = script /\ verified = script /\ \A u \in Updaters : UpdateAt(u, "idle")
    /\ \A u \in Updaters :
          /\ Doing(proc[u], target, backup, staged, verified, faults)
          /\ updateKills = 0 /\ faults <= 1 => Undone(proc[u], target, backup, script)
          /\ faults = 0 => Swept(proc[u], backup, staged)
-----------------------------------------------------------------------------
Contents == Versions \cup {Absent, Partial}

LEMMA UpdateTyped ==
    ASSUME UpdateTypeOK, NEW me, Updaters = {me}
    PROVE  /\ target \in [Binaries -> Contents] /\ backup \in [Binaries -> Contents]
           /\ staged \in [Binaries -> Contents] /\ stable \in SUBSET Versions
           /\ proc \in [Updaters -> Process] /\ proc[me] \in Process
           /\ proc[me].phase \in Phases \cup {"idle"} /\ proc[me].bin \in Binaries
           /\ proc[me].current \in Versions /\ proc[me].expect \in Versions
           /\ proc[me].have \in [Binaries -> BOOLEAN]
           /\ script \in Versions \cup {Absent} /\ verified \in Versions
           /\ faults \in 0 .. MaxFaults /\ updateKills \in 0 .. MaxUpdateKills /\ faults \in Nat /\ updateKills \in Nat
           /\ MaxFaults \in Nat /\ MaxUpdateKills \in Nat /\ Versions \subseteq Nat
           /\ Absent \notin Versions /\ Partial \notin Versions /\ Absent # Partial
           /\ Binaries = {"soroq", "soroqctl"}
BY SelfUpdateAssumption DEF UpdateTypeOK, Process, Versions, Binaries, Contents

LEMMA PutIs ==
    ASSUME NEW F \in [Binaries -> Contents], NEW b \in Binaries, NEW x \in Contents
    PROVE  /\ Put(F, b, x) \in [Binaries -> Contents] /\ Put(F, b, x)[b] = x
           /\ \A d \in Binaries : d # b => Put(F, b, x)[d] = F[d]
BY DEF Put, Contents

LEMMA RemoveIs ==
    ASSUME NEW F \in [Binaries -> Contents], NEW b \in Binaries
    PROVE  /\ Remove(F, b) \in [Binaries -> Contents] /\ Remove(F, b)[b] = Absent
           /\ \A d \in Binaries : d # b => Remove(F, b)[d] = F[d]
BY DEF Remove, Contents

LEMMA IdleIs ==
    Idle \in Process /\ Idle.phase = "idle"
BY SelfUpdateAssumption DEF Idle, Process, Versions, Binaries

(* An update goes to a step, for a binary, and keeps the rest.             *)
LEMMA GotoIs ==
    ASSUME UpdateTypeOK, NEW me, Updaters = {me},
           NEW phase \in Phases, NEW b \in Binaries, UpdateGoto(me, phase, b)
    PROVE  \E q \in Process :
              /\ proc' = [proc EXCEPT ![me] = q] /\ q.phase = phase /\ q.bin = b
              /\ q.current = proc[me].current /\ q.expect = proc[me].expect /\ q.have = proc[me].have
<1> DEFINE q == [proc[me] EXCEPT !.phase = phase, !.bin = b]
<1>1. /\ q \in Process /\ q.phase = phase /\ q.bin = b
      /\ q.current = proc[me].current /\ q.expect = proc[me].expect /\ q.have = proc[me].have
  BY UpdateTyped DEF Process
<1>2. proc' = [proc EXCEPT ![me] = q]
  BY DEF UpdateGoto
<1> HIDE DEF q
<1> QED
  BY <1>1, <1>2

(* A rename that fails although there was something to rename is a fault.  *)
LEMMA RenameIs ==
    ASSUME NEW F, NEW b, NEW ok \in RenameOutcomes(F, b), Charge(F, b, ok),
           MaxFaults \in Nat, faults \in 0 .. MaxFaults
    PROVE  \/ ok = TRUE /\ F[b] # Absent /\ faults' = faults
           \/ ok = FALSE /\ F[b] # Absent /\ faults' = faults + 1 /\ faults' \in 0 .. MaxFaults
           \/ ok = FALSE /\ F[b] = Absent /\ faults' = faults
<1>1. ok = TRUE \/ ok = FALSE
  BY DEF RenameOutcomes
<1>2. CASE ok = TRUE
  BY <1>2 DEF RenameOutcomes, Charge, Exists
<1>3. CASE ok = FALSE
  <2>1. F[b] # Absent => faults < MaxFaults
    BY <1>3 DEF RenameOutcomes, Exists
  <2>2. faults' = (IF F[b] # Absent THEN faults + 1 ELSE faults)
    BY <1>3 DEF Charge, Exists
  <2>3. F[b] # Absent => faults' = faults + 1 /\ faults' \in 0 .. MaxFaults
    BY <2>1, <2>2
  <2> QED
    BY <1>3, <2>2, <2>3
<1> QED
  BY <1>1, <1>2, <1>3

LEMMA StepKeeps ==
    ASSUME NEW me, Updaters = {me}, UpdateInv, script = Absent,
           NEW q \in Process, proc' = [proc EXCEPT ![me] = q],
           target' \in [Binaries -> Contents], backup' \in [Binaries -> Contents], staged' \in [Binaries -> Contents],
           verified' \in Versions, faults' \in 0 .. MaxFaults, updateKills' \in 0 .. MaxUpdateKills,
           UNCHANGED <<stable, script>>,
           Copies(target', backup'), Recent(target', backup', verified'),
           Doing(q, target', backup', staged', verified', faults'),
           updateKills' = 0 /\ faults' <= 1 => Undone(q, target', backup', Absent),
           faults' = 0 => Swept(q, backup', staged')
    PROVE  UpdateInv'
<1>1. proc \in [Updaters -> Process] /\ stable \subseteq Versions
  BY DEF UpdateInv, UpdateTypeOK
<1>2. proc' \in [Updaters -> Process] /\ proc'[me] = q
  BY <1>1
<1>3. UpdateTypeOK'
  BY <1>1, <1>2 DEF UpdateTypeOK, Contents
<1> QED
  BY <1>2, <1>3 DEF UpdateInv

(* What the invariant says of the one update at work.                      *)
LEMMA AtWork ==
    ASSUME UpdateInv, NEW me, Updaters = {me}, script = Absent
    PROVE  /\ Copies(target, backup) /\ Recent(target, backup, verified)
           /\ Doing(proc[me], target, backup, staged, verified, faults)
           /\ updateKills = 0 /\ faults <= 1 => Undone(proc[me], target, backup, Absent)
           /\ faults = 0 => Swept(proc[me], backup, staged)
BY DEF UpdateInv
-----------------------------------------------------------------------------
LEMMA StartKeeps ==
    ASSUME NEW me, Updaters = {me}, UpdateInv, script = Absent, UpdateStart(me)
    PROVE  UpdateInv'
<1> DEFINE q == [Idle EXCEPT !.phase = "repair", !.current = target["soroq"]]
<1>1. /\ proc[me].phase = "idle" /\ target["soroq"] \in Versions /\ proc' = [proc EXCEPT ![me] = q]
      /\ UNCHANGED <<target, backup, staged, stable, script, verified, faults, updateKills>> /\ UpdateTypeOK
  BY DEF UpdateStart, UpdateAt, files, UpdateInv
<1>2. q \in Process /\ q.phase = "repair" /\ q.bin = "soroq" /\ q.current = target["soroq"]
  BY <1>1, IdleIs DEF Idle, Process, Phases, Binaries
<1> HIDE DEF q
<1>3. Doing(q, target, backup, staged, verified, faults)
  BY <1>1, <1>2, AtWork, UpdateTyped DEF Doing, Recent
<1>4. updateKills = 0 /\ faults <= 1 => Undone(q, target, backup, Absent)
  BY <1>1, <1>2, AtWork, UpdateTyped DEF Undone
<1>5. faults = 0 => Swept(q, backup, staged)
  BY <1>1, <1>2 DEF Swept
<1> QED
  BY <1>1, <1>2, <1>3, <1>4, <1>5, AtWork, UpdateTyped, StepKeeps

LEMMA RepairKeeps ==
    ASSUME NEW me, Updaters = {me}, UpdateInv, script = Absent, Repair(me)
    PROVE  UpdateInv'
<1> DEFINE b == proc[me].bin
           q == [proc[me] EXCEPT !.phase = "sweep", !.bin = b]
<1>1. /\ proc[me].phase = "repair" /\ UNCHANGED <<staged, stable, script, verified, updateKills>> /\ UpdateTypeOK
      /\ proc[me] \in Process /\ b \in Binaries /\ b = proc[me].bin
  BY UpdateTyped DEF Repair, UpdateAt, UpdateInv
<1>2. /\ q \in Process /\ q.phase = "sweep" /\ q.bin = b /\ q.current = proc[me].current
      /\ q.expect = proc[me].expect /\ q.have = proc[me].have
  BY <1>1 DEF Process, Phases
<1>7. UpdateGoto(me, "sweep", b) => proc' = [proc EXCEPT ![me] = q]
  BY DEF UpdateGoto
<1> HIDE DEF q, b
<1>3. target["soroq"] = proc[me].current /\ target["soroq"] # Absent /\ proc[me].current >= verified
  BY <1>1, AtWork, UpdateTyped DEF Doing
<1>4. CASE target' = target /\ backup' = Remove(backup, b) /\ faults' = faults /\ target[b] # Absent
           /\ proc' = [proc EXCEPT ![me] = q]
  <2>1. /\ backup' \in [Binaries -> Contents] /\ backup'[b] = Absent
        /\ \A d \in Binaries : d # b => backup'[d] = backup[d]
    BY <1>1, <1>4, UpdateTyped, RemoveIs DEF Contents
  <2>2. Copies(target, backup') /\ Recent(target, backup', verified)
    BY <1>1, <1>4, <2>1, AtWork DEF Copies, Recent
  <2>3. Doing(q, target, backup', staged, verified, faults)
    BY <1>1, <1>2, <1>3, UpdateTyped DEF Doing
  <2>4. updateKills = 0 /\ faults <= 1 => Undone(q, target, backup', Absent)
    BY <1>1, <1>2, <2>1, AtWork DEF Undone
  <2>5. faults = 0 => Swept(q, backup', staged)
    BY <1>1, <1>2, <2>1, AtWork DEF Swept, Binaries
  <2> QED
    BY <1>1, <1>2, <1>4, <2>1, <2>2, <2>3, <2>4, <2>5, UpdateTyped, StepKeeps
<1>5. CASE UNCHANGED <<target, backup, faults>> /\ backup[b] = Absent /\ proc' = [proc EXCEPT ![me] = q]
  <2>3. Doing(q, target, backup, staged, verified, faults)
    BY <1>1, <1>2, <1>3, UpdateTyped DEF Doing
  <2>4. updateKills = 0 /\ faults <= 1 => Undone(q, target, backup, Absent)
    BY <1>1, <1>2, AtWork DEF Undone
  <2>5. faults = 0 => Swept(q, backup, staged)
    BY <1>1, <1>2, <1>5, AtWork DEF Swept, Binaries
  <2> QED
    BY <1>1, <1>2, <1>5, <2>3, <2>4, <2>5, AtWork, UpdateTyped, StepKeeps
<1>6. CASE /\ backup[b] # Absent /\ target[b] = Absent
           /\ \E ok \in RenameOutcomes(backup, b) :
                 /\ Charge(backup, b, ok)
                 /\ IF ok
                    THEN /\ target' = Put(target, b, backup[b]) /\ backup' = Remove(backup, b)
                         /\ proc' = [proc EXCEPT ![me] = q]
                    ELSE UNCHANGED <<target, backup>> /\ Advance(me, "repair", "resolve")
  <2>1. PICK ok \in RenameOutcomes(backup, b) :
           /\ Charge(backup, b, ok)
           /\ IF ok
              THEN /\ target' = Put(target, b, backup[b]) /\ backup' = Remove(backup, b)
                   /\ proc' = [proc EXCEPT ![me] = q]
              ELSE UNCHANGED <<target, backup>> /\ Advance(me, "repair", "resolve")
    BY <1>6
  <2>2. \/ ok = TRUE /\ faults' = faults
        \/ ok = FALSE /\ faults' = faults + 1 /\ faults' \in 0 .. MaxFaults
    BY <1>1, <1>6, <2>1, UpdateTyped, RenameIs
  <2>3. b = "soroqctl" /\ backup[b] \in Versions
    BY <1>1, <1>3, <1>6, AtWork, UpdateTyped DEF Copies
  <2>4. CASE ok = TRUE
    <3>0. target' = Put(target, b, backup[b]) /\ backup' = Remove(backup, b) /\ proc' = [proc EXCEPT ![me] = q]
      BY <2>1, <2>4
    <3>1. /\ target' \in [Binaries -> Contents] /\ target'[b] = backup[b] /\ target'["soroq"] = target["soroq"]
          /\ backup' \in [Binaries -> Contents] /\ backup'[b] = Absent /\ backup'["soroq"] = backup["soroq"]
      <4>1. /\ backup[b] \in Contents /\ Absent \in Contents /\ "soroq" \in Binaries /\ "soroq" # b
            /\ target \in [Binaries -> Contents] /\ backup \in [Binaries -> Contents]
        BY <1>1, <2>3, UpdateTyped DEF Contents
      <4> QED
        BY <1>1, <3>0, <4>1 DEF Put, Remove
    <3>2. Copies(target', backup') /\ Recent(target', backup', verified)
      BY <1>1, <1>3, <1>6, <2>3, <3>1, AtWork, UpdateTyped DEF Copies, Recent
    <3>3. Doing(q, target', backup', staged, verified, faults)
      BY <1>1, <1>2, <1>3, <3>1, UpdateTyped DEF Doing
    <3>4. updateKills = 0 /\ faults <= 1 => Undone(q, target', backup', Absent)
      BY <1>1, <1>6, <2>3, AtWork DEF Undone
    <3>5. faults = 0 => Swept(q, backup', staged)
      BY <1>1, <1>2, <2>3, <3>1, AtWork DEF Swept
    <3> QED
      BY ZenonT(30), <1>1, <1>2, <2>2, <2>4, <3>0, <3>1, <3>2, <3>3, <3>4, <3>5, UpdateTyped, StepKeeps
  <2>5. CASE ok = FALSE
    <3> DEFINE r == [proc[me] EXCEPT !.phase = "resolve", !.bin = "soroq"]
    <3>1. r \in Process /\ r.phase = "resolve" /\ r.current = proc[me].current
      BY <1>1 DEF Process, Phases, Binaries
    <3>5. proc' = [proc EXCEPT ![me] = r] /\ UNCHANGED <<target, backup>>
      BY <1>1, <2>1, <2>3, <2>5 DEF Advance, UpdateGoto
    <3> HIDE DEF r
    <3>2. Doing(r, target, backup, staged, verified, faults')
      BY <1>3, <2>2, <2>5, <3>1 DEF Doing
    <3>3. updateKills = 0 /\ faults' <= 1 => Undone(r, target, backup, Absent)
      BY <1>1, <1>6, <2>2, <2>3, <2>5, AtWork, UpdateTyped DEF Undone
    <3>4. faults' # 0
      BY <1>1, <2>2, <2>5, UpdateTyped
    <3> QED
      BY <1>1, <2>2, <2>5, <3>1, <3>2, <3>3, <3>4, <3>5, AtWork, UpdateTyped, StepKeeps
  <2> QED
    BY <2>2, <2>4, <2>5
<1> QED
  BY <1>1, <1>4, <1>5, <1>6, <1>7 DEF Repair, RestoresBackup, Exists, b

(* A set of numbers that has one has a least one.                           *)
LEMMA LeastOf ==
    ASSUME NEW T, T \subseteq Nat, T # {}
    PROVE  \E x \in T : \A y \in T : x <= y
<1>1. PICK x \in T : \A y \in T : <<y, x>> \notin OpToRel(<, Nat)
  BY NatLessThanWellFounded, WFMin
<1>2. x \in Nat /\ \A y \in T : y \in Nat /\ ~(y < x)
  BY <1>1 DEF OpToRel
<1>3. \A y \in T : x <= y
  BY <1>2
<1> QED
  BY <1>3

(* There is a newest release: the least bound of all is one of them.       *)
LEMMA NewestIs ==
    ASSUME stable \subseteq Versions, stable # {}
    PROVE  Newest \in stable /\ \A w \in stable : w <= Newest
<1> DEFINE U == {n \in Nat : \A w \in stable : w <= n}
<1>1. stable \subseteq Nat /\ MaxVersion \in U /\ U \subseteq Nat
  BY SelfUpdateAssumption DEF Versions
<1>2. PICK v \in U : \A n \in U : v <= n
  BY <1>1, LeastOf
<1>3. v \in stable
  <2> SUFFICES ASSUME v \notin stable PROVE FALSE
    OBVIOUS
  <2>1. v \in Nat /\ \A w \in stable : w \in Nat /\ w <= v - 1
    BY <1>1
  <2>2. v > 0 /\ v - 1 \in U
    BY <2>1
  <2> QED
    BY <1>2, <2>2
<1>4. \E n \in stable : \A w \in stable : w <= n
  BY <1>3
<1> QED
  BY <1>4 DEF Newest

LEMMA SweepKeeps ==
    ASSUME NEW me, Updaters = {me}, UpdateInv, script = Absent, Sweep(me)
    PROVE  UpdateInv'
<1> DEFINE b == proc[me].bin
<1>1. /\ proc[me].phase = "sweep" /\ UNCHANGED <<target, backup, stable, script, verified, faults, updateKills>> /\ UpdateTypeOK
      /\ staged' = Remove(staged, b) /\ Advance(me, "repair", "resolve") /\ b \in Binaries /\ b = proc[me].bin
  BY UpdateTyped DEF Sweep, UpdateAt, UpdateInv
<1>2. PICK q \in Process :
        /\ proc' = [proc EXCEPT ![me] = q]
        /\ \/ b = "soroq" /\ q.phase = "repair" /\ q.bin = "soroqctl"
           \/ b = "soroqctl" /\ q.phase = "resolve" /\ q.bin = "soroq"
        /\ q.current = proc[me].current /\ q.expect = proc[me].expect /\ q.have = proc[me].have
  BY <1>1, GotoIs DEF Advance, Phases, Binaries
<1> HIDE DEF b
<1>3. staged' \in [Binaries -> Contents] /\ staged'[b] = Absent /\ \A d \in Binaries : d # b => staged'[d] = staged[d]
  BY <1>1, UpdateTyped, RemoveIs
<1>4. Doing(q, target, backup, staged', verified, faults)
  BY <1>1, <1>2, AtWork, UpdateTyped DEF Doing
<1>5. updateKills = 0 /\ faults <= 1 => Undone(q, target, backup, Absent)
  BY <1>1, <1>2, AtWork DEF Undone
<1>6. faults = 0 => Swept(q, backup, staged')
  BY <1>1, <1>2, <1>3, AtWork, UpdateTyped DEF Swept
<1> QED
  BY <1>1, <1>2, <1>3, <1>4, <1>5, <1>6, AtWork, UpdateTyped, StepKeeps

(* An update that ends, having failed, found nothing new or cleaned up.    *)
LEMMA FinishKeeps ==
    ASSUME NEW me, Updaters = {me}, UpdateInv, script = Absent, Finish(me),
           UNCHANGED <<stable, script, target, verified, faults>>,
           backup' \in [Binaries -> Contents], staged' \in [Binaries -> Contents], updateKills' \in 0 .. MaxUpdateKills,
           Copies(target, backup'), Recent(target, backup', verified),
           updateKills' = 0 /\ faults <= 1 =>
              backup'["soroq"] = Absent /\ backup'["soroqctl"] = Absent /\ target["soroqctl"] = target["soroq"]
    PROVE  UpdateInv'
<1>1. Idle \in Process /\ Idle.phase = "idle" /\ proc' = [proc EXCEPT ![me] = Idle] /\ UpdateTypeOK
  BY IdleIs DEF Finish, UpdateInv
<1>2. Doing(Idle, target, backup', staged', verified, faults) /\ Swept(Idle, backup', staged')
  BY <1>1 DEF Doing, Swept
<1>3. updateKills' = 0 /\ faults <= 1 => Undone(Idle, target, backup', Absent)
  BY <1>1 DEF Undone
<1> QED
  BY <1>1, <1>2, <1>3, UpdateTyped, StepKeeps

LEMMA ResolveKeeps ==
    ASSUME NEW me, Updaters = {me}, UpdateInv, script = Absent, Resolve(me)
    PROVE  UpdateInv'
<1>1. /\ proc[me].phase = "resolve" /\ UNCHANGED <<target, backup, staged, stable, script, verified, faults, updateKills>> /\ UpdateTypeOK
  BY DEF Resolve, UpdateAt, UpdateInv, files
<1>2. CASE /\ stable # {} /\ ~versionAtLeast(proc[me].current, Newest)
           /\ proc' = [proc EXCEPT ![me].phase = "stage", ![me].bin = "soroq", ![me].expect = Newest]
  <2> DEFINE newest == Newest
             q == [proc[me] EXCEPT !.phase = "stage", !.bin = "soroq", !.expect = newest]
  <2>1. newest \in Versions /\ newest > proc[me].current
    BY <1>1, <1>2, NewestIs, UpdateTyped DEF versionAtLeast
  <2>2. proc' = [proc EXCEPT ![me] = q]
    BY <1>2
  <2> HIDE DEF newest
  <2>3. q \in Process /\ q.phase = "stage" /\ q.bin = "soroq" /\ q.expect = newest /\ q.current = proc[me].current
    BY <1>1, <2>1, UpdateTyped DEF Process, Phases, Binaries
  <2> HIDE DEF q
  <2>4. Doing(q, target, backup, staged, verified, faults)
    BY <1>1, <2>1, <2>3, AtWork, UpdateTyped DEF Doing
  <2>5. updateKills = 0 /\ faults <= 1 => Undone(q, target, backup, Absent)
    BY <1>1, <2>3, AtWork DEF Undone
  <2>6. Swept(q, backup, staged)
    BY <2>3 DEF Swept
  <2> QED
    BY <1>1, <2>2, <2>3, <2>4, <2>5, <2>6, AtWork, UpdateTyped, StepKeeps
<1>3. CASE Finish(me)
  <2>1. updateKills = 0 /\ faults <= 1 =>
          backup["soroq"] = Absent /\ backup["soroqctl"] = Absent /\ target["soroqctl"] = target["soroq"]
    BY <1>1, AtWork, UpdateTyped DEF Undone
  <2> QED
    BY <1>1, <1>3, <2>1, AtWork, UpdateTyped, FinishKeeps
<1> QED
  BY <1>2, <1>3 DEF Resolve

(* Both new binaries are copied; after the second, the update knows which   *)
(* binaries were in place: both, unless a kill left one in its backup only. *)
LEMMA StageKeeps ==
    ASSUME NEW me, Updaters = {me}, UpdateInv, script = Absent, Stage(me)
    PROVE  UpdateInv'
<1> DEFINE b == proc[me].bin
<1>1. /\ proc[me].phase = "stage" /\ UNCHANGED <<target, backup, stable, script, verified, updateKills>> /\ UpdateTypeOK
      /\ b \in Binaries /\ b = proc[me].bin /\ proc[me].expect \in Contents /\ Partial \in Contents
      /\ staged \in [Binaries -> Contents]
  BY UpdateTyped DEF Stage, UpdateAt, UpdateInv, Contents
<1>2. CASE /\ staged' = Put(staged, b, proc[me].expect) /\ b = "soroq" /\ UpdateGoto(me, "stage", "soroqctl")
           /\ faults' = faults
  <2>1. PICK q \in Process :
          /\ proc' = [proc EXCEPT ![me] = q] /\ q.phase = "stage" /\ q.bin = "soroqctl"
          /\ q.current = proc[me].current /\ q.expect = proc[me].expect /\ q.have = proc[me].have
    BY <1>1, <1>2, GotoIs DEF Phases, Binaries
  <2> HIDE DEF b
  <2>2. staged' \in [Binaries -> Contents] /\ staged'[b] = proc[me].expect
    BY <1>1, <1>2, PutIs
  <2>3. Doing(q, target, backup, staged', verified, faults)
    BY <1>1, <1>2, <2>1, <2>2, AtWork, UpdateTyped DEF Doing
  <2>4. updateKills = 0 /\ faults <= 1 => Undone(q, target, backup, Absent)
    BY <1>1, <2>1, AtWork DEF Undone
  <2>5. Swept(q, backup, staged')
    BY <2>1 DEF Swept
  <2> QED
    BY <1>1, <1>2, <2>1, <2>2, <2>3, <2>4, <2>5, AtWork, UpdateTyped, StepKeeps
<1>3. CASE /\ staged' = Put(staged, b, proc[me].expect) /\ b = "soroqctl" /\ faults' = faults
           /\ proc' = [proc EXCEPT ![me].phase = "backup", ![me].bin = "soroq",
                                   ![me].have = [x \in Binaries |-> Exists(target, x)]]
  <2> DEFINE h == [x \in Binaries |-> Exists(target, x)]
             q == [proc[me] EXCEPT !.phase = "backup", !.bin = "soroq", !.have = h]
  <2>1. h \in [Binaries -> BOOLEAN] /\ \A x \in Binaries : h[x] <=> target[x] # Absent
    BY DEF Exists
  <2>2. proc' = [proc EXCEPT ![me] = q]
    BY <1>3
  <2> HIDE DEF h
  <2>3. /\ q \in Process /\ q.phase = "backup" /\ q.bin = "soroq" /\ q.have = h
        /\ q.current = proc[me].current /\ q.expect = proc[me].expect
    BY ZenonT(30), <1>1, <2>1, UpdateTyped DEF Process, Phases, Binaries
  <2> HIDE DEF q, b
  <2>4. /\ staged' \in [Binaries -> Contents] /\ staged'[b] = proc[me].expect
        /\ \A d \in Binaries : d # b => staged'[d] = staged[d]
    BY <1>1, <1>3, PutIs
  <2>8. h["soroq"] <=> target["soroq"] # Absent
    BY <2>1 DEF Binaries
  <2>9. h["soroqctl"] <=> target["soroqctl"] # Absent
    BY <2>1 DEF Binaries
  <2>10. staged'["soroq"] = proc[me].expect /\ staged'["soroqctl"] = proc[me].expect
    BY <1>1, <1>3, <2>4, AtWork DEF Doing, Binaries
  <2>11. proc[me].expect > proc[me].current /\ proc[me].current >= verified
    BY <1>1, AtWork DEF Doing
  <2>5. Doing(q, target, backup, staged', verified, faults)
    BY <2>3, <2>8, <2>9, <2>10, <2>11 DEF Doing
  <2>6. updateKills = 0 /\ faults <= 1 => Undone(q, target, backup, Absent)
    <3>1. updateKills = 0 /\ faults <= 1 => \A x \in Binaries : target[x] = proc[me].current /\ backup[x] = Absent
      BY <1>1, AtWork DEF Undone
    <3>2. updateKills = 0 /\ faults <= 1 => h["soroq"] /\ h["soroqctl"]
      BY <1>1, <2>1, <3>1, UpdateTyped
    <3> QED
      BY <2>3, <3>1, <3>2 DEF Undone
  <2>7. Swept(q, backup, staged')
    BY <2>3 DEF Swept
  <2> QED
    BY <1>1, <1>3, <2>2, <2>3, <2>4, <2>5, <2>6, <2>7, AtWork, UpdateTyped, StepKeeps
<1>4. CASE /\ faults < MaxFaults /\ staged' = Put(staged, b, Partial) /\ UpdateGoto(me, "discard", "soroq")
           /\ faults' = faults + 1
  <2>1. PICK q \in Process :
          /\ proc' = [proc EXCEPT ![me] = q] /\ q.phase = "discard" /\ q.bin = "soroq"
          /\ q.current = proc[me].current /\ q.expect = proc[me].expect /\ q.have = proc[me].have
    BY <1>1, <1>4, GotoIs DEF Phases, Binaries
  <2> HIDE DEF b
  <2>2. staged' \in [Binaries -> Contents]
    BY <1>1, <1>4, UpdateTyped, PutIs
  <2>3. faults' \in 0 .. MaxFaults /\ faults' > 0 /\ faults \in Nat
    BY <1>1, <1>4, UpdateTyped
  <2>4. Doing(q, target, backup, staged', verified, faults')
    BY <1>1, <2>1, <2>3, AtWork, UpdateTyped DEF Doing
  <2>5. updateKills = 0 /\ faults' <= 1 => Undone(q, target, backup, Absent)
    BY <1>1, <1>4, <2>1, <2>3, AtWork DEF Undone
  <2>6. faults' # 0
    BY <2>3
  <2> QED
    BY <1>1, <2>1, <2>2, <2>3, <2>4, <2>5, <2>6, AtWork, UpdateTyped, StepKeeps
<1> QED
  BY <1>1, <1>2, <1>3, <1>4 DEF Stage, Binaries

LEMMA BackupKeeps ==
    ASSUME NEW me, Updaters = {me}, UpdateInv, script = Absent, Backup(me)
    PROVE  UpdateInv'
<1> DEFINE b == proc[me].bin
<1>1. /\ proc[me].phase = "backup" /\ UNCHANGED <<staged, stable, script, verified, updateKills>> /\ UpdateTypeOK
      /\ b \in Binaries /\ b = proc[me].bin /\ Absent \in Contents /\ proc[me].have \in [Binaries -> BOOLEAN]
      /\ (b = "soroq" \/ b = "soroqctl") /\ (proc[me].have[b] = TRUE \/ proc[me].have[b] = FALSE)
  BY UpdateTyped DEF Backup, UpdateAt, UpdateInv, Contents
<1>2. ASSUME Advance(me, "backup", "install")
      PROVE  \E q \in Process :
               /\ proc' = [proc EXCEPT ![me] = q]
               /\ \/ b = "soroq" /\ q.phase = "backup" /\ q.bin = "soroqctl"
                  \/ b = "soroqctl" /\ q.phase = "install" /\ q.bin = "soroq"
               /\ q.current = proc[me].current /\ q.expect = proc[me].expect /\ q.have = proc[me].have
  BY <1>1, <1>2, GotoIs DEF Advance, Phases, Binaries
<1>9. /\ proc[me].expect > proc[me].current /\ proc[me].current >= verified
      /\ staged["soroq"] = proc[me].expect /\ staged["soroqctl"] = proc[me].expect
      /\ proc[me].have["soroqctl"] <=> target["soroqctl"] # Absent
      /\ IF b = "soroq" THEN proc[me].have["soroq"] <=> target["soroq"] # Absent ELSE target["soroq"] = Absent
  BY <1>1, AtWork DEF Doing
<1>8. updateKills = 0 /\ faults <= 1 =>
        /\ proc[me].have["soroq"] /\ proc[me].have["soroqctl"]
        /\ b = "soroq" => \A d \in Binaries : target[d] = proc[me].current /\ backup[d] = Absent
        /\ b = "soroqctl" => /\ target["soroq"] = Absent /\ backup["soroq"] = proc[me].current
                             /\ target["soroqctl"] = proc[me].current /\ backup["soroqctl"] = Absent
  BY <1>1, AtWork DEF Undone
<1> HIDE DEF b
<1>3. CASE ~proc[me].have[b] /\ Advance(me, "backup", "install") /\ UNCHANGED <<target, backup, faults>>
  <2>1. PICK q \in Process :
          /\ proc' = [proc EXCEPT ![me] = q]
          /\ \/ b = "soroq" /\ q.phase = "backup" /\ q.bin = "soroqctl"
             \/ b = "soroqctl" /\ q.phase = "install" /\ q.bin = "soroq"
          /\ q.current = proc[me].current /\ q.expect = proc[me].expect /\ q.have = proc[me].have
    BY <1>2, <1>3
  <2>2. Doing(q, target, backup, staged, verified, faults)
    BY <1>1, <1>3, <1>9, <2>1 DEF Doing
  <2>3. updateKills = 0 /\ faults <= 1 => Undone(q, target, backup, Absent)
    BY <1>1, <1>3, <1>8
  <2>4. faults = 0 => Swept(q, backup, staged)
    BY <2>1 DEF Swept
  <2> QED
    BY <1>1, <1>3, <2>1, <2>2, <2>3, <2>4, AtWork, UpdateTyped, StepKeeps
<1>4. CASE /\ proc[me].have[b]
           /\ \E ok \in RenameOutcomes(target, b) :
                 /\ Charge(target, b, ok)
                 /\ IF ok
                    THEN /\ backup' = Put(backup, b, target[b]) /\ target' = Remove(target, b)
                         /\ Advance(me, "backup", "install")
                    ELSE /\ UNCHANGED <<target, backup>>
                         /\ IF b = "soroqctl" /\ proc[me].have["soroq"]
                            THEN UpdateGoto(me, "unback", "soroq") ELSE UpdateGoto(me, "discard", "soroq")
  <2>1. PICK ok \in RenameOutcomes(target, b) :
           /\ Charge(target, b, ok)
           /\ IF ok
              THEN /\ backup' = Put(backup, b, target[b]) /\ target' = Remove(target, b)
                   /\ Advance(me, "backup", "install")
              ELSE /\ UNCHANGED <<target, backup>>
                   /\ IF b = "soroqctl" /\ proc[me].have["soroq"]
                      THEN UpdateGoto(me, "unback", "soroq") ELSE UpdateGoto(me, "discard", "soroq")
    BY <1>4
  <2>0. target[b] # Absent
    BY <1>1, <1>4, <1>9
  <2>2. \/ ok = TRUE /\ faults' = faults
        \/ ok = FALSE /\ faults' = faults + 1 /\ faults' \in 0 .. MaxFaults
    BY <1>1, <2>0, <2>1, UpdateTyped, RenameIs
  <2>3. target[b] \in Versions /\ target[b] >= verified
    BY <1>1, <2>0, AtWork DEF Copies, Recent
  <2>4. CASE ok = TRUE
    <3>0. backup' = Put(backup, b, target[b]) /\ target' = Remove(target, b) /\ Advance(me, "backup", "install")
      BY <2>1, <2>4
    <3>1. PICK q \in Process :
            /\ proc' = [proc EXCEPT ![me] = q]
            /\ \/ b = "soroq" /\ q.phase = "backup" /\ q.bin = "soroqctl"
               \/ b = "soroqctl" /\ q.phase = "install" /\ q.bin = "soroq"
            /\ q.current = proc[me].current /\ q.expect = proc[me].expect /\ q.have = proc[me].have
      BY <1>2, <3>0
    <3>2. /\ target' \in [Binaries -> Contents] /\ target'[b] = Absent
          /\ \A d \in Binaries : d # b => target'[d] = target[d]
      BY <1>1, <3>0, UpdateTyped, RemoveIs
    <3>3. /\ backup' \in [Binaries -> Contents] /\ backup'[b] = target[b]
          /\ \A d \in Binaries : d # b => backup'[d] = backup[d]
      BY <1>1, <2>3, <3>0, UpdateTyped, PutIs DEF Contents
    <3>4. Copies(target', backup') /\ Recent(target', backup', verified)
      BY <1>1, <2>3, <3>2, <3>3, AtWork, UpdateTyped DEF Copies, Recent
    <3>5. Doing(q, target', backup', staged, verified, faults)
      BY <1>1, <1>9, <3>1, <3>2, UpdateTyped DEF Doing
    <3>6. updateKills = 0 /\ faults <= 1 => Undone(q, target', backup', Absent)
      BY <1>1, <1>8, <3>1, <3>2, <3>3, UpdateTyped DEF Undone
    <3>7. Swept(q, backup', staged)
      BY <3>1 DEF Swept
    <3> QED
      BY <1>1, <2>2, <2>4, <3>1, <3>2, <3>3, <3>4, <3>5, <3>6, <3>7, UpdateTyped, StepKeeps
  <2>5. CASE ok = FALSE
    <3>0. /\ UNCHANGED <<target, backup>>
          /\ IF b = "soroqctl" /\ proc[me].have["soroq"]
             THEN UpdateGoto(me, "unback", "soroq") ELSE UpdateGoto(me, "discard", "soroq")
      BY <2>1, <2>5
    <3>1. PICK q \in Process :
            /\ proc' = [proc EXCEPT ![me] = q] /\ q.bin = "soroq"
            /\ \/ q.phase = "unback" /\ b = "soroqctl"
               \/ q.phase = "discard" /\ (b = "soroq" \/ ~proc[me].have["soroq"])
            /\ q.current = proc[me].current /\ q.expect = proc[me].expect /\ q.have = proc[me].have
      BY <1>1, <3>0, GotoIs DEF Phases, Binaries
    <3>2. faults' > 0 /\ faults \in Nat
      BY <1>1, <2>2, <2>5, UpdateTyped
    <3>3. Doing(q, target, backup, staged, verified, faults')
      BY <1>9, <3>1, <3>2 DEF Doing
    <3>4. updateKills = 0 /\ faults' <= 1 => Undone(q, target, backup, Absent)
      BY <1>1, <1>8, <2>2, <2>5, <3>1, <3>2 DEF Undone
    <3>5. faults' # 0
      BY <3>2
    <3> QED
      BY <1>1, <2>2, <2>5, <3>0, <3>1, <3>3, <3>4, <3>5, AtWork, UpdateTyped, StepKeeps
  <2> QED
    BY <2>2, <2>4, <2>5
<1> QED
  BY <1>1, <1>3, <1>4 DEF Backup, b

(* A binary comes back from its backup, or stays where it is.              *)
LEMMA PutBackIs ==
    ASSUME UpdateTypeOK, NEW b \in Binaries, PutBack(b)
    PROVE  \/ /\ backup[b] # Absent /\ faults' = faults
              /\ target' \in [Binaries -> Contents] /\ backup' \in [Binaries -> Contents]
              /\ target'[b] = backup[b] /\ backup'[b] = Absent
              /\ \A d \in Binaries : d # b => target'[d] = target[d] /\ backup'[d] = backup[d]
           \/ /\ backup[b] # Absent /\ UNCHANGED <<target, backup>>
              /\ faults' = faults + 1 /\ faults' \in 0 .. MaxFaults
           \/ backup[b] = Absent /\ UNCHANGED <<target, backup, faults>>
<1>1. /\ target \in [Binaries -> Contents] /\ backup \in [Binaries -> Contents] /\ backup[b] \in Contents
      /\ faults \in 0 .. MaxFaults /\ MaxFaults \in Nat
  BY SelfUpdateAssumption DEF UpdateTypeOK, Contents
<1>2. PICK ok \in RenameOutcomes(backup, b) :
        /\ Charge(backup, b, ok)
        /\ IF ok
           THEN target' = Put(target, b, backup[b]) /\ backup' = Remove(backup, b)
           ELSE UNCHANGED <<target, backup>>
  BY DEF PutBack
<1>3. \/ ok = TRUE /\ backup[b] # Absent /\ faults' = faults
      \/ ok = FALSE /\ backup[b] # Absent /\ faults' = faults + 1 /\ faults' \in 0 .. MaxFaults
      \/ ok = FALSE /\ backup[b] = Absent /\ faults' = faults
  BY <1>1, <1>2, RenameIs
<1>4. CASE ok = TRUE
  <2>1. target' = Put(target, b, backup[b]) /\ backup' = Remove(backup, b)
    BY <1>2, <1>4
  <2>2. /\ target' \in [Binaries -> Contents] /\ target'[b] = backup[b]
        /\ \A d \in Binaries : d # b => target'[d] = target[d]
    BY <1>1, <2>1, PutIs
  <2>3. /\ backup' \in [Binaries -> Contents] /\ backup'[b] = Absent
        /\ \A d \in Binaries : d # b => backup'[d] = backup[d]
    BY <1>1, <2>1, RemoveIs
  <2> QED
    BY <1>3, <1>4, <2>2, <2>3
<1>5. CASE ok = FALSE
  BY <1>2, <1>3, <1>5
<1> QED
  BY <1>3, <1>4, <1>5

LEMMA UnbackKeeps ==
    ASSUME NEW me, Updaters = {me}, UpdateInv, script = Absent, Unback(me)
    PROVE  UpdateInv'
<1>1. /\ proc[me].phase = "unback" /\ UNCHANGED <<staged, stable, script, verified, updateKills>> /\ UpdateTypeOK
      /\ PutBack("soroq") /\ "soroq" \in Binaries /\ "soroqctl" \in Binaries
  BY DEF Unback, UpdateAt, UpdateInv, Binaries
<1>2. PICK q \in Process :
        /\ proc' = [proc EXCEPT ![me] = q] /\ q.phase = "discard" /\ q.bin = "soroq"
        /\ q.current = proc[me].current /\ q.expect = proc[me].expect /\ q.have = proc[me].have
  BY <1>1, GotoIs DEF Unback, Phases, Binaries
<1>3. target["soroq"] = Absent /\ proc[me].current >= verified /\ faults > 0 /\ faults \in 0 .. MaxFaults
  BY <1>1, AtWork, UpdateTyped DEF Doing
<1>4. backup["soroq"] \in Versions /\ backup["soroq"] >= verified /\ backup["soroq"] # Absent
  BY <1>1, <1>3, AtWork, UpdateTyped DEF Copies, Recent
<1>5. updateKills = 0 /\ faults <= 1 =>
        /\ backup["soroq"] = proc[me].current /\ target["soroqctl"] = proc[me].current
        /\ backup["soroqctl"] = Absent
  BY <1>1, AtWork DEF Undone
<1>6. /\ target' \in [Binaries -> Contents] /\ backup' \in [Binaries -> Contents]
      /\ faults' \in 0 .. MaxFaults /\ faults' > 0 /\ faults' # 0
      /\ Copies(target', backup') /\ Recent(target', backup', verified)
      /\ updateKills = 0 /\ faults' <= 1 => \A b \in Binaries : target'[b] = proc[me].current /\ backup'[b] = Absent
  <2>1. CASE /\ faults' = faults /\ target' \in [Binaries -> Contents] /\ backup' \in [Binaries -> Contents]
             /\ target'["soroq"] = backup["soroq"] /\ backup'["soroq"] = Absent
             /\ \A d \in Binaries : d # "soroq" => target'[d] = target[d] /\ backup'[d] = backup[d]
    <3>1. Copies(target', backup') /\ Recent(target', backup', verified)
      BY <1>1, <1>4, <2>1, AtWork, UpdateTyped DEF Copies, Recent
    <3>2. updateKills = 0 /\ faults' <= 1 => \A b \in Binaries : target'[b] = proc[me].current /\ backup'[b] = Absent
      BY <1>5, <2>1 DEF Binaries
    <3> QED
      BY <1>3, <2>1, <3>1, <3>2
  <2>2. CASE UNCHANGED <<target, backup>> /\ faults' = faults + 1 /\ faults' \in 0 .. MaxFaults
    <3>1. faults' > 1 /\ faults' # 0
      BY <1>3, <2>2
    <3> QED
      BY <1>1, <2>2, <3>1, AtWork, UpdateTyped
  <2> QED
    BY <1>1, <1>4, <2>1, <2>2, PutBackIs
<1>7. Doing(q, target', backup', staged, verified, faults')
  BY <1>2, <1>3, <1>6 DEF Doing
<1>8. updateKills = 0 /\ faults' <= 1 => Undone(q, target', backup', Absent)
  BY <1>2, <1>6 DEF Undone
<1> QED
  BY <1>1, <1>2, <1>6, <1>7, <1>8, UpdateTyped, StepKeeps

LEMMA UpdateInstallKeeps ==
    ASSUME NEW me, Updaters = {me}, UpdateInv, script = Absent, Install(me)
    PROVE  UpdateInv'
<1> DEFINE b == proc[me].bin
           e == proc[me].expect
<1>1. /\ proc[me].phase = "install" /\ UNCHANGED <<backup, stable, script, verified, updateKills>> /\ UpdateTypeOK
      /\ b \in Binaries /\ b = proc[me].bin /\ e = proc[me].expect /\ e \in Versions /\ e \in Contents /\ e # Absent
      /\ staged \in [Binaries -> Contents] /\ target \in [Binaries -> Contents] /\ (b = "soroq" \/ b = "soroqctl")
  BY UpdateTyped DEF Install, UpdateAt, UpdateInv, Contents
<1>2. PICK ok \in RenameOutcomes(staged, b) :
        /\ Charge(staged, b, ok)
        /\ IF ok
           THEN /\ target' = Put(target, b, staged[b]) /\ staged' = Remove(staged, b)
                /\ Advance(me, "install", "verify")
           ELSE UNCHANGED <<target, staged>> /\ UpdateGoto(me, "remove", "soroq")
  BY DEF Install
<1>3. ASSUME Advance(me, "install", "verify")
      PROVE  \E q \in Process :
               /\ proc' = [proc EXCEPT ![me] = q]
               /\ \/ b = "soroq" /\ q.phase = "install" /\ q.bin = "soroqctl"
                  \/ b = "soroqctl" /\ q.phase = "verify" /\ q.bin = "soroq"
               /\ q.current = proc[me].current /\ q.expect = proc[me].expect /\ q.have = proc[me].have
  BY <1>1, <1>3, GotoIs DEF Advance, Phases, Binaries
<1>4. /\ staged[b] = e /\ target["soroqctl"] = Absent /\ e > proc[me].current /\ proc[me].current >= verified
      /\ b = "soroq" => target["soroq"] = Absent
      /\ b = "soroqctl" => target["soroq"] = e /\ backup["soroq"] # Absent /\ backup["soroq"] >= verified
  BY <1>1, AtWork DEF Doing
<1>5. /\ backup["soroqctl"] # Absent /\ backup["soroqctl"] >= verified
      /\ backup["soroq"] # Absent /\ backup["soroq"] >= verified
  BY <1>1, <1>4, AtWork, UpdateTyped DEF Copies, Recent
<1>6. updateKills = 0 /\ faults <= 1 =>
        /\ proc[me].have["soroq"] /\ proc[me].have["soroqctl"]
        /\ backup["soroq"] = proc[me].current /\ backup["soroqctl"] = proc[me].current
  BY <1>1, AtWork DEF Undone
<1>7. faults = 0 /\ b = "soroqctl" => staged["soroq"] = Absent
  BY <1>1, AtWork DEF Swept
<1>8. verified \in Nat /\ proc[me].current \in Nat /\ e \in Nat
  BY <1>1, UpdateTyped
<1> HIDE DEF b, e
<1>9. CASE ok = TRUE
  <2>0. target' = Put(target, b, e) /\ staged' = Remove(staged, b) /\ Advance(me, "install", "verify")
    BY <1>2, <1>4, <1>9
  <2>1. PICK q \in Process :
          /\ proc' = [proc EXCEPT ![me] = q]
          /\ \/ b = "soroq" /\ q.phase = "install" /\ q.bin = "soroqctl"
             \/ b = "soroqctl" /\ q.phase = "verify" /\ q.bin = "soroq"
          /\ q.current = proc[me].current /\ q.expect = proc[me].expect /\ q.have = proc[me].have
    BY <1>3, <2>0
  <2>2. faults' = faults
    BY <1>1, <1>2, <1>9, UpdateTyped, RenameIs
  <2>3. /\ target' \in [Binaries -> Contents] /\ target'[b] = e
        /\ \A d \in Binaries : d # b => target'[d] = target[d]
    BY SMTT(30), <1>1, <2>0, PutIs
  <2>4. /\ staged' \in [Binaries -> Contents] /\ staged'[b] = Absent
        /\ \A d \in Binaries : d # b => staged'[d] = staged[d]
    BY <1>1, <2>0, RemoveIs
  <2>5. e >= verified
    BY <1>4, <1>8
  <2>6. Copies(target', backup) /\ Recent(target', backup, verified)
    BY <1>1, <2>3, <2>5, AtWork DEF Copies, Recent
  <2>7. Doing(q, target', backup, staged', verified, faults)
    <3>1. CASE b = "soroq"
      <4>1. /\ target'["soroq"] = e /\ target'["soroqctl"] = Absent /\ staged'["soroqctl"] = staged["soroqctl"]
            /\ staged["soroqctl"] = e
        BY <1>1, <1>4, <2>3, <2>4, <3>1, AtWork DEF Doing, Binaries
      <4> QED
        BY <1>1, <1>4, <1>5, <2>1, <3>1, <4>1 DEF Doing
    <3>2. CASE b = "soroqctl"
      <4>1. \A d \in Binaries : target'[d] = e /\ backup[d] # Absent /\ backup[d] >= verified
        BY <1>1, <1>4, <1>5, <2>3, <3>2 DEF Binaries
      <4> QED
        BY <1>1, <1>4, <2>1, <3>2, <4>1 DEF Doing
    <3> QED
      BY <1>1, <3>1, <3>2
  <2>8. updateKills = 0 /\ faults <= 1 => Undone(q, target', backup, Absent)
    BY <1>6, <2>1 DEF Undone
  <2>9. faults = 0 => Swept(q, backup, staged')
    BY <1>1, <1>7, <2>1, <2>4 DEF Swept, Binaries
  <2> QED
    BY <1>1, <2>1, <2>2, <2>3, <2>4, <2>6, <2>7, <2>8, <2>9, UpdateTyped, StepKeeps
<1>10. CASE ok = FALSE
  <2>0. UNCHANGED <<target, staged>> /\ UpdateGoto(me, "remove", "soroq")
    BY <1>2, <1>10
  <2>1. PICK q \in Process :
          /\ proc' = [proc EXCEPT ![me] = q] /\ q.phase = "remove" /\ q.bin = "soroq"
          /\ q.current = proc[me].current /\ q.expect = proc[me].expect /\ q.have = proc[me].have
    BY <1>1, <2>0, GotoIs DEF Phases, Binaries
  <2>6. staged[b] # Absent /\ MaxFaults \in Nat /\ faults \in 0 .. MaxFaults /\ Charge(staged, b, ok)
    BY <1>1, <1>2, <1>4, UpdateTyped
  <2>2. faults' = faults + 1 /\ faults' \in 0 .. MaxFaults
    BY <1>10, <2>6, RenameIs
  <2>3. faults' > 0 /\ faults' # 0 /\ (faults' <= 1 => faults <= 1)
    BY <1>1, <2>2, UpdateTyped
  <2>4. Doing(q, target, backup, staged, verified, faults')
    <3>1. \A d \in Binaries : backup[d] # Absent /\ backup[d] >= verified
      BY <1>5 DEF Binaries
    <3> QED
      BY <1>4, <2>1, <2>3, <3>1 DEF Doing
  <2>5. updateKills = 0 /\ faults' <= 1 => Undone(q, target, backup, Absent)
    BY <1>6, <2>1, <2>3 DEF Undone
  <2> QED
    BY <1>1, <2>0, <2>1, <2>2, <2>3, <2>4, <2>5, AtWork, UpdateTyped, StepKeeps
<1> QED
  BY <1>9, <1>10 DEF RenameOutcomes

LEMMA VerifyKeeps ==
    ASSUME NEW me, Updaters = {me}, UpdateInv, script = Absent, Verify(me)
    PROVE  UpdateInv'
<1>1. /\ proc[me].phase = "verify" /\ UNCHANGED <<target, backup, staged, stable, script, updateKills>> /\ UpdateTypeOK
      /\ proc[me].expect \in Versions /\ proc[me].expect \in Nat
  BY UpdateTyped DEF Verify, UpdateAt, UpdateInv, files
<1>2. /\ \A b \in Binaries : target[b] = proc[me].expect /\ backup[b] # Absent /\ backup[b] >= verified
      /\ proc[me].expect > proc[me].current /\ proc[me].current >= verified
  BY <1>1, AtWork DEF Doing
<1>3. target["soroq"] = proc[me].expect
  BY <1>2 DEF Binaries
<1>4. CASE verified' = proc[me].expect /\ UpdateGoto(me, "clean", "soroq") /\ faults' = faults
  <2>1. PICK q \in Process :
          /\ proc' = [proc EXCEPT ![me] = q] /\ q.phase = "clean" /\ q.bin = "soroq"
          /\ q.current = proc[me].current /\ q.expect = proc[me].expect /\ q.have = proc[me].have
    BY <1>1, <1>4, GotoIs DEF Phases, Binaries
  <2>2. Recent(target, backup, verified')
    BY <1>1, <1>2, <1>4, UpdateTyped DEF Recent
  <2>3. Doing(q, target, backup, staged, verified', faults)
    BY <1>2, <1>4, <2>1 DEF Doing
  <2>4. updateKills = 0 /\ faults <= 1 => Undone(q, target, backup, Absent)
    BY <2>1 DEF Undone
  <2>5. faults = 0 => Swept(q, backup, staged)
    BY <1>1, <2>1, AtWork DEF Swept
  <2> QED
    BY <1>1, <1>4, <2>1, <2>2, <2>3, <2>4, <2>5, AtWork, UpdateTyped, StepKeeps
<1>5. CASE faults < MaxFaults /\ faults' = faults + 1 /\ UpdateGoto(me, "remove", "soroq") /\ verified' = verified
  <2>1. PICK q \in Process :
          /\ proc' = [proc EXCEPT ![me] = q] /\ q.phase = "remove" /\ q.bin = "soroq"
          /\ q.current = proc[me].current /\ q.expect = proc[me].expect /\ q.have = proc[me].have
    BY <1>1, <1>5, GotoIs DEF Phases, Binaries
  <2>2. faults' \in 0 .. MaxFaults /\ faults' > 0 /\ faults' # 0 /\ (faults' <= 1 => faults <= 1)
    BY <1>1, <1>5, UpdateTyped
  <2>3. Doing(q, target, backup, staged, verified, faults')
    BY <1>2, <2>1, <2>2 DEF Doing
  <2>4. updateKills = 0 /\ faults' <= 1 => Undone(q, target, backup, Absent)
    BY <1>1, <2>1, <2>2, AtWork DEF Undone
  <2> QED
    BY <1>1, <1>5, <2>1, <2>2, <2>3, <2>4, AtWork, UpdateTyped, StepKeeps
<1> QED
  BY <1>3, <1>4, <1>5 DEF Verify

LEMMA CleanKeeps ==
    ASSUME NEW me, Updaters = {me}, UpdateInv, script = Absent, Clean(me)
    PROVE  UpdateInv'
<1> DEFINE b == proc[me].bin
<1>1. /\ proc[me].phase = "clean" /\ UNCHANGED <<target, staged, stable, script, verified, faults, updateKills>> /\ UpdateTypeOK
      /\ backup' = Remove(backup, b) /\ b \in Binaries /\ b = proc[me].bin /\ (b = "soroq" \/ b = "soroqctl")
      /\ backup \in [Binaries -> Contents] /\ proc[me].expect \in Versions /\ proc[me].expect # Absent
      /\ IF b = "soroq" THEN UpdateGoto(me, "clean", "soroqctl") ELSE Finish(me)
  BY UpdateTyped DEF Clean, UpdateAt, UpdateInv
<1> HIDE DEF b
<1>2. verified = proc[me].expect /\ \A d \in Binaries : target[d] = proc[me].expect
  BY <1>1, AtWork DEF Doing
<1>3. /\ backup' \in [Binaries -> Contents] /\ backup'[b] = Absent
      /\ \A d \in Binaries : d # b => backup'[d] = backup[d]
  BY <1>1, RemoveIs
<1>4. Copies(target, backup') /\ Recent(target, backup', verified)
  BY <1>1, <1>2, <1>3, AtWork DEF Copies, Recent
<1>5. CASE b = "soroq"
  <2>1. PICK q \in Process :
          /\ proc' = [proc EXCEPT ![me] = q] /\ q.phase = "clean" /\ q.bin = "soroqctl"
          /\ q.current = proc[me].current /\ q.expect = proc[me].expect /\ q.have = proc[me].have
    BY <1>1, <1>5, GotoIs DEF Phases, Binaries
  <2>2. Doing(q, target, backup', staged, verified, faults)
    BY <1>2, <2>1 DEF Doing
  <2>3. updateKills = 0 /\ faults <= 1 => Undone(q, target, backup', Absent)
    BY <1>3, <1>5, <2>1 DEF Undone
  <2>4. faults = 0 => Swept(q, backup', staged)
    BY <1>1, <1>3, <1>5, <2>1, AtWork DEF Swept
  <2> QED
    BY <1>1, <1>3, <1>4, <2>1, <2>2, <2>3, <2>4, UpdateTyped, StepKeeps
<1>6. CASE b = "soroqctl"
  <2>1. updateKills = 0 /\ faults <= 1 => backup["soroq"] = Absent
    BY <1>1, <1>6, AtWork DEF Undone
  <2>2. updateKills = 0 /\ faults <= 1 => backup'["soroq"] = Absent /\ backup'["soroqctl"] = Absent
    BY <1>3, <1>6, <2>1 DEF Binaries
  <2>3. target["soroqctl"] = target["soroq"]
    BY <1>2 DEF Binaries
  <2>4. Finish(me) /\ staged' \in [Binaries -> Contents] /\ updateKills' \in 0 .. MaxUpdateKills
    BY <1>1, <1>6, UpdateTyped
  <2> QED
    BY <1>1, <1>3, <1>4, <2>2, <2>3, <2>4, FinishKeeps
<1> QED
  BY <1>1, <1>5, <1>6

LEMMA RollbackRemoveKeeps ==
    ASSUME NEW me, Updaters = {me}, UpdateInv, script = Absent, RollbackRemove(me)
    PROVE  UpdateInv'
<1> DEFINE b == proc[me].bin
<1>1. /\ proc[me].phase = "remove" /\ UNCHANGED <<backup, staged, stable, script, verified, faults, updateKills>> /\ UpdateTypeOK
      /\ target' = Remove(target, b) /\ b \in Binaries /\ b = proc[me].bin /\ (b = "soroq" \/ b = "soroqctl")
      /\ target \in [Binaries -> Contents] /\ Advance(me, "remove", "restore")
  BY UpdateTyped DEF RollbackRemove, UpdateAt, UpdateInv
<1>2. PICK q \in Process :
        /\ proc' = [proc EXCEPT ![me] = q]
        /\ \/ b = "soroq" /\ q.phase = "remove" /\ q.bin = "soroqctl"
           \/ b = "soroqctl" /\ q.phase = "restore" /\ q.bin = "soroq"
        /\ q.current = proc[me].current /\ q.expect = proc[me].expect /\ q.have = proc[me].have
  BY <1>1, GotoIs DEF Advance, Phases, Binaries
<1> HIDE DEF b
<1>3. /\ \A d \in Binaries : backup[d] # Absent /\ backup[d] >= verified
      /\ b = "soroqctl" => target["soroq"] = Absent
      /\ faults > 0 /\ faults # 0 /\ proc[me].current >= verified
  BY <1>1, AtWork, UpdateTyped DEF Doing
<1>4. /\ target' \in [Binaries -> Contents] /\ target'[b] = Absent
      /\ \A d \in Binaries : d # b => target'[d] = target[d]
  BY <1>1, RemoveIs
<1>5. Copies(target', backup) /\ Recent(target', backup, verified)
  BY <1>3, <1>4, AtWork DEF Copies, Recent
<1>6. Doing(q, target', backup, staged, verified, faults)
  <2>1. b = "soroq" => target'["soroq"] = Absent
    BY <1>4
  <2>2. b = "soroqctl" => target'["soroq"] = Absent /\ target'["soroqctl"] = Absent
    BY <1>3, <1>4 DEF Binaries
  <2> QED
    BY <1>1, <1>2, <1>3, <2>1, <2>2 DEF Doing
<1>7. updateKills = 0 /\ faults <= 1 => Undone(q, target', backup, Absent)
  BY <1>1, <1>2, AtWork DEF Undone
<1> QED
  BY <1>1, <1>2, <1>3, <1>4, <1>5, <1>6, <1>7, UpdateTyped, StepKeeps

LEMMA RollbackRestoreKeeps ==
    ASSUME NEW me, Updaters = {me}, UpdateInv, script = Absent, RollbackRestore(me)
    PROVE  UpdateInv'
<1> DEFINE b == proc[me].bin
           c == proc[me].current
<1>1. /\ proc[me].phase = "restore" /\ UNCHANGED <<staged, stable, script, verified, updateKills>> /\ UpdateTypeOK
      /\ b \in Binaries /\ b = proc[me].bin /\ c = proc[me].current /\ (b = "soroq" \/ b = "soroqctl")
      /\ IF proc[me].have[b] THEN PutBack(b) ELSE UNCHANGED <<target, backup, faults>>
      /\ Advance(me, "restore", "discard")
  BY UpdateTyped DEF RollbackRestore, UpdateAt, UpdateInv
<1>2. PICK q \in Process :
        /\ proc' = [proc EXCEPT ![me] = q]
        /\ \/ b = "soroq" /\ q.phase = "restore" /\ q.bin = "soroqctl"
           \/ b = "soroqctl" /\ q.phase = "discard" /\ q.bin = "soroq"
        /\ q.current = proc[me].current /\ q.expect = proc[me].expect /\ q.have = proc[me].have
  BY <1>1, GotoIs DEF Advance, Phases, Binaries
<1> HIDE DEF b, c
<1>3. /\ target[b] = Absent /\ target["soroqctl"] = Absent /\ faults > 0 /\ faults \in 0 .. MaxFaults
      /\ c >= verified
  BY <1>1, AtWork, UpdateTyped DEF Doing
<1>4. backup[b] \in Versions /\ backup[b] >= verified /\ backup[b] # Absent
  BY <1>1, <1>3, AtWork, UpdateTyped DEF Copies, Recent
<1>5. updateKills = 0 /\ faults <= 1 =>
        /\ proc[me].have["soroq"] /\ proc[me].have["soroqctl"] /\ backup["soroqctl"] = c
        /\ b = "soroq" => backup["soroq"] = c
        /\ b = "soroqctl" => target["soroq"] = c /\ backup["soroq"] = Absent
  BY <1>1, AtWork DEF Undone
<1>6. \/ /\ backup[b] # Absent /\ faults' = faults
         /\ target' \in [Binaries -> Contents] /\ backup' \in [Binaries -> Contents]
         /\ target'[b] = backup[b] /\ backup'[b] = Absent
         /\ \A d \in Binaries : d # b => target'[d] = target[d] /\ backup'[d] = backup[d]
      \/ UNCHANGED <<target, backup>> /\ faults' = faults + 1 /\ faults' \in 0 .. MaxFaults
      \/ UNCHANGED <<target, backup, faults>> /\ ~proc[me].have[b]
  BY <1>1, <1>4, PutBackIs
<1>7. /\ target' \in [Binaries -> Contents] /\ backup' \in [Binaries -> Contents]
      /\ faults' \in 0 .. MaxFaults /\ faults' > 0 /\ faults' # 0
      /\ Copies(target', backup') /\ Recent(target', backup', verified)
      /\ b = "soroq" => target'["soroqctl"] = Absent
      /\ updateKills = 0 /\ faults' <= 1 =>
            IF b = "soroq" THEN target'["soroq"] = c /\ backup'["soroq"] = Absent /\ backup'["soroqctl"] = c
            ELSE \A d \in Binaries : target'[d] = c /\ backup'[d] = Absent
  <2>1. CASE /\ faults' = faults
             /\ target' \in [Binaries -> Contents] /\ backup' \in [Binaries -> Contents]
             /\ target'[b] = backup[b] /\ backup'[b] = Absent
             /\ \A d \in Binaries : d # b => target'[d] = target[d] /\ backup'[d] = backup[d]
    <3>1. Copies(target', backup') /\ Recent(target', backup', verified)
      BY <1>4, <2>1, AtWork DEF Copies, Recent
    <3>2. b = "soroq" => target'["soroqctl"] = Absent
      BY <1>3, <2>1 DEF Binaries
    <3>3. updateKills = 0 /\ faults' <= 1 =>
            IF b = "soroq" THEN target'["soroq"] = c /\ backup'["soroq"] = Absent /\ backup'["soroqctl"] = c
            ELSE \A d \in Binaries : target'[d] = c /\ backup'[d] = Absent
      BY <1>1, <1>5, <2>1 DEF Binaries
    <3> QED
      BY <1>3, <2>1, <3>1, <3>2, <3>3
  <2>2. CASE UNCHANGED <<target, backup>> /\ faults' = faults + 1 /\ faults' \in 0 .. MaxFaults
    <3>1. faults' > 1 /\ faults' # 0
      BY <1>3, <2>2
    <3> QED
      BY <1>1, <1>3, <2>2, <3>1, AtWork, UpdateTyped
  <2>3. CASE UNCHANGED <<target, backup, faults>> /\ ~proc[me].have[b]
    <3>1. ~(updateKills = 0 /\ faults <= 1)
      BY <1>1, <1>5, <2>3
    <3> QED
      BY <1>1, <1>3, <2>3, <3>1, AtWork, UpdateTyped
  <2> QED
    BY <1>6, <2>1, <2>2, <2>3
<1>8. Doing(q, target', backup', staged, verified, faults')
  BY <1>1, <1>2, <1>3, <1>7 DEF Doing
<1>9. updateKills = 0 /\ faults' <= 1 => Undone(q, target', backup', Absent)
  <2>1. updateKills = 0 /\ faults' <= 1 => faults <= 1
    BY <1>3, <1>6
  <2> QED
    BY <1>1, <1>2, <1>5, <1>7, <2>1 DEF Undone
<1> QED
  BY <1>1, <1>2, <1>7, <1>8, <1>9, UpdateTyped, StepKeeps

LEMMA DiscardKeeps ==
    ASSUME NEW me, Updaters = {me}, UpdateInv, script = Absent, Discard(me)
    PROVE  UpdateInv'
<1> DEFINE b == proc[me].bin
<1>1. /\ proc[me].phase = "discard" /\ UNCHANGED <<target, backup, stable, script, verified, faults, updateKills>> /\ UpdateTypeOK
      /\ staged' = Remove(staged, b) /\ b \in Binaries /\ b = proc[me].bin /\ staged \in [Binaries -> Contents]
      /\ IF b = "soroq" THEN UpdateGoto(me, "discard", "soroqctl") ELSE Finish(me)
  BY UpdateTyped DEF Discard, UpdateAt, UpdateInv
<1> HIDE DEF b
<1>2. staged' \in [Binaries -> Contents]
  BY <1>1, RemoveIs
<1>3. faults > 0 /\ faults # 0 /\ proc[me].current >= verified
  BY <1>1, AtWork, UpdateTyped DEF Doing
<1>4. CASE UpdateGoto(me, "discard", "soroqctl")
  <2>1. PICK q \in Process :
          /\ proc' = [proc EXCEPT ![me] = q] /\ q.phase = "discard" /\ q.bin = "soroqctl"
          /\ q.current = proc[me].current /\ q.expect = proc[me].expect /\ q.have = proc[me].have
    BY <1>1, <1>4, GotoIs DEF Phases, Binaries
  <2>2. Doing(q, target, backup, staged', verified, faults)
    BY <1>3, <2>1 DEF Doing
  <2>3. updateKills = 0 /\ faults <= 1 => Undone(q, target, backup, Absent)
    BY <1>1, <2>1, AtWork DEF Undone
  <2> QED
    BY <1>1, <1>2, <1>3, <2>1, <2>2, <2>3, AtWork, UpdateTyped, StepKeeps
<1>5. CASE Finish(me)
  <2>1. updateKills = 0 /\ faults <= 1 => \A d \in Binaries : target[d] = proc[me].current /\ backup[d] = Absent
    BY <1>1, AtWork DEF Undone
  <2>2. updateKills = 0 /\ faults <= 1 =>
          backup["soroq"] = Absent /\ backup["soroqctl"] = Absent /\ target["soroqctl"] = target["soroq"]
    BY <2>1 DEF Binaries
  <2> QED
    BY <1>1, <1>2, <1>5, <2>2, AtWork, UpdateTyped, FinishKeeps
<1> QED
  BY <1>1, <1>4, <1>5

LEMMA UpdateKillKeeps ==
    ASSUME NEW me, Updaters = {me}, UpdateInv, script = Absent, UpdateKill(me)
    PROVE  UpdateInv'
<1>1. /\ updateKills < MaxUpdateKills /\ updateKills' = updateKills + 1 /\ Finish(me) /\ UpdateTypeOK
      /\ UNCHANGED <<target, backup, stable, script, verified, faults>>
      /\ staged' = staged \/ staged' = Put(staged, proc[me].bin, Partial)
  BY DEF UpdateKill, UpdateInv
<1>2. updateKills' \in 0 .. MaxUpdateKills /\ updateKills' # 0
  BY <1>1, UpdateTyped
<1>4. staged \in [Binaries -> Contents] /\ proc[me].bin \in Binaries /\ Partial \in Contents
  BY <1>1, UpdateTyped DEF Contents
<1>3. staged' \in [Binaries -> Contents]
  BY <1>1, <1>4, PutIs
<1> QED
  BY <1>1, <1>2, <1>3, AtWork, UpdateTyped, FinishKeeps

(* Nothing is half done by an update that does not run.                    *)
LEMMA RestDoes ==
    ASSUME NEW r, r.phase = "idle", NEW T, NEW B, NEW S, NEW v, NEW n
    PROVE  Doing(r, T, B, S, v, n) /\ Swept(r, B, S)
BY DEF Doing, Swept

LEMMA ReleasesKeep ==
    ASSUME UpdateInv, NEW w \in Versions, Release(w) \/ Withdraw(w)
    PROVE  UpdateInv'
<1>1. /\ UNCHANGED <<target, backup, staged, proc, script, verified, faults, updateKills>>
      /\ stable' \subseteq Versions
  BY DEF Release, Withdraw, files, UpdateInv, UpdateTypeOK
<1> QED
  BY <1>1 DEF UpdateInv, UpdateTypeOK, UpdateAt

LEMMA ScriptFirstKeeps ==
    ASSUME UpdateInv, NEW w \in Versions, ScriptFirst(w)
    PROVE  UpdateInv'
<1>1. /\ script = Absent /\ script' = w /\ verified' = w /\ target' = Put(target, "soroq", w) /\ UpdateTypeOK
      /\ UNCHANGED <<backup, staged, stable, proc, faults, updateKills>> /\ \A u \in Updaters : proc[u].phase = "idle"
      /\ target \in [Binaries -> Contents] /\ "soroq" \in Binaries /\ w \in Contents /\ w # Absent
  BY SelfUpdateAssumption DEF ScriptFirst, UpdateAt, UpdateInv, UpdateTypeOK, Contents, Binaries
<1>2. /\ target' \in [Binaries -> Contents] /\ target'["soroq"] = w
      /\ \A d \in Binaries : d # "soroq" => target'[d] = target[d]
  BY <1>1, PutIs
<1>3. UpdateTypeOK'
  BY <1>1, <1>2 DEF UpdateTypeOK, Contents
<1>4. Copies(target', backup')
  BY <1>1, <1>2 DEF UpdateInv, Copies
<1>5. \A u \in Updaters : /\ Doing(proc'[u], target', backup', staged', verified', faults')
                         /\ Swept(proc'[u], backup', staged')
  BY <1>1, RestDoes
<1>6. \A u \in Updaters : updateKills' = 0 /\ faults' <= 1 => Undone(proc'[u], target', backup', script')
  BY <1>1 DEF UpdateInv, Undone
<1>7. \A u \in Updaters : UpdateAt(u, "idle")'
  BY <1>1 DEF UpdateAt
<1> QED
  BY <1>1, <1>2, <1>3, <1>4, <1>5, <1>6, <1>7 DEF UpdateInv

LEMMA ScriptSecondKeeps ==
    ASSUME UpdateInv, ScriptSecond
    PROVE  UpdateInv'
<1>1. /\ script \in Versions /\ script' = Absent /\ target' = Put(target, "soroqctl", script) /\ UpdateTypeOK
      /\ UNCHANGED <<backup, staged, stable, proc, verified, faults, updateKills>> /\ \A u \in Updaters : proc[u].phase = "idle"
      /\ target \in [Binaries -> Contents] /\ "soroqctl" \in Binaries /\ script \in Contents /\ script # Absent
      /\ target["soroq"] = script /\ verified = script /\ script \in Nat
  BY SelfUpdateAssumption DEF ScriptSecond, UpdateAt, UpdateInv, UpdateTypeOK, Contents, Binaries, Versions
<1>2. /\ target' \in [Binaries -> Contents] /\ target'["soroqctl"] = script
      /\ \A d \in Binaries : d # "soroqctl" => target'[d] = target[d]
  BY <1>1, PutIs
<1>3. UpdateTypeOK'
  BY <1>1, <1>2 DEF UpdateTypeOK, Contents
<1>4. Copies(target', backup')
  BY <1>1, <1>2 DEF UpdateInv, Copies
<1>8. \A d \in Binaries : target'[d] = script
  BY <1>1, <1>2 DEF Binaries
<1>9. Recent(target', backup', verified')
  BY <1>1, <1>8 DEF Recent
<1>5. \A u \in Updaters : /\ Doing(proc'[u], target', backup', staged', verified', faults')
                         /\ Swept(proc'[u], backup', staged')
  BY <1>1, RestDoes
<1>6. \A u \in Updaters : updateKills' = 0 /\ faults' <= 1 => Undone(proc'[u], target', backup', script')
  BY <1>1, <1>8 DEF UpdateInv, Undone, Binaries
<1> QED
  BY <1>1, <1>3, <1>4, <1>5, <1>6, <1>9 DEF UpdateInv
-----------------------------------------------------------------------------
LEMMA UpdateInvInitially ==
    ASSUME UpdateInit
    PROVE  UpdateInv
<1>1. 0 \in Versions /\ 0 # Absent /\ Idle \in Process /\ Idle.phase = "idle"
  BY IdleIs, SelfUpdateAssumption DEF Versions
<1>2. UpdateTypeOK
  BY <1>1, SelfUpdateAssumption DEF UpdateInit, UpdateTypeOK
<1>3. \A b \in Binaries : target[b] = 0 /\ backup[b] = Absent
  BY DEF UpdateInit
<1>4. Copies(target, backup) /\ Recent(target, backup, verified)
  BY <1>1, <1>3 DEF UpdateInit, Copies, Recent
<1>5. \A u \in Updaters : proc[u].phase = "idle"
  BY <1>1 DEF UpdateInit
<1>6. \A u \in Updaters : Doing(proc[u], target, backup, staged, verified, faults) /\ Swept(proc[u], backup, staged)
  BY <1>5, RestDoes
<1>7. \A u \in Updaters : Undone(proc[u], target, backup, script)
  BY <1>3, <1>5 DEF Undone, Binaries
<1> QED
  BY <1>2, <1>4, <1>6, <1>7 DEF UpdateInit, UpdateInv

LEMMA UpdateInvInductive ==
    ASSUME NEW me, Updaters = {me}, UpdateInv, [UpdateNext]_updateVars
    PROVE  UpdateInv'
<1>1. CASE script = Absent /\ \E u \in Updaters : UpdateStart(u) \/ Update(u) \/ UpdateKill(u)
  <2>1. UpdateStart(me) \/ Update(me) \/ UpdateKill(me)
    BY <1>1
  <2> QED
    BY <1>1, <2>1, StartKeeps, RepairKeeps, SweepKeeps, ResolveKeeps, StageKeeps, BackupKeeps, UnbackKeeps,
       UpdateInstallKeeps, VerifyKeeps, CleanKeeps, RollbackRemoveKeeps, RollbackRestoreKeeps, DiscardKeeps, UpdateKillKeeps
    DEF Update
<1>2. CASE \E w \in Versions : Release(w) \/ Withdraw(w) \/ ScriptFirst(w)
  BY <1>2, ReleasesKeep, ScriptFirstKeeps
<1>3. CASE ScriptSecond
  BY <1>3, ScriptSecondKeeps
<1>4. CASE UNCHANGED updateVars
  BY <1>4 DEF updateVars, files, UpdateInv, UpdateTypeOK, UpdateAt
<1> QED
  BY <1>1, <1>2, <1>3, <1>4 DEF UpdateNext

THEOREM UpdateInvHolds == OneUpdater => (UpdateSpec => []UpdateInv)
<1> SUFFICES ASSUME NEW me, Updaters = {me}
             PROVE  UpdateSpec => []UpdateInv
  BY DEF OneUpdater
<1>1. UpdateInit => UpdateInv
  BY UpdateInvInitially
<1>2. UpdateInv /\ [UpdateNext]_updateVars => UpdateInv'
  BY UpdateInvInductive
<1> QED
  BY <1>1, <1>2, PTL DEF UpdateSpec

(***************************************************************************)
(* Where one update runs at a time (selfupdate.go, applySelfUpdate and     *)
(* repairInterruptedUpdate), each binary is whole in its place or in its   *)
(* backup at every file operation, a binary in place is never older than   *)
(* the newest that was verified, and a failure without a kill leaves both  *)
(* binaries of one version: for any number of versions, kills and failures.*)
(***************************************************************************)
THEOREM BinariesAreKept == OneUpdater => (UpdateSpec => []BinariesKept)
<1> SUFFICES ASSUME NEW me, Updaters = {me}
             PROVE  UpdateSpec => []BinariesKept
  BY DEF OneUpdater
<1>1. UpdateInv => BinariesKept
  <2> SUFFICES ASSUME UpdateInv PROVE BinariesKept
    OBVIOUS
  <2>1. UpdateTypeOK /\ NeverLost
    BY DEF UpdateInv, Copies, NeverLost
  <2>2. NoSilentDowngrade
    BY SelfUpdateAssumption DEF UpdateInv, Recent, NoSilentDowngrade
  <2>3. BothOrNeither
    <3> SUFFICES ASSUME AtRest, updateKills = 0, faults <= 1
                 PROVE  target["soroq"] \in Versions /\ target["soroqctl"] = target["soroq"]
      BY DEF BothOrNeither
    <3>1. script = Absent /\ proc[me].phase = "idle"
      BY DEF AtRest, UpdateAt
    <3>2. backup["soroq"] = Absent /\ target["soroqctl"] = target["soroq"]
      BY <3>1, AtWork DEF Undone
    <3> QED
      BY <3>1, <3>2, AtWork DEF Copies, Binaries
  <2> QED
    BY <2>1, <2>2, <2>3 DEF BinariesKept
<1>2. UpdateSpec => []UpdateInv
  BY UpdateInvHolds DEF OneUpdater
<1> QED
  BY <1>1, <1>2, PTL

(***************************************************************************)
(* An update that comes to its own end, and in which nothing failed, leaves*)
(* neither backup nor staged file, whatever killed ones had left.          *)
(***************************************************************************)
THEOREM UpdatesEndClean == OneUpdater => (UpdateSpec => [][EndsClean]_updateVars)
<1> SUFFICES ASSUME NEW me, Updaters = {me}
             PROVE  UpdateSpec => [][EndsClean]_updateVars
  BY DEF OneUpdater
<1>1. UpdateInv /\ [UpdateNext]_updateVars => [EndsClean]_updateVars
  <2> SUFFICES ASSUME UpdateInv, UpdateNext, ~UpdateAt(me, "idle"), UpdateAt(me, "idle")', updateKills' = updateKills, faults = 0
               PROVE  \A b \in Binaries : backup'[b] = Absent /\ staged'[b] = Absent
    BY DEF EndsClean
  <2>1. UpdateTypeOK /\ proc \in [Updaters -> Process] /\ updateKills \in Nat
    BY UpdateTyped DEF UpdateInv
  <2>2. PICK step \in {"kept", "kill", "start", "update"} :
          \/ step = "kept" /\ proc' = proc
          \/ step = "kill" /\ updateKills' = updateKills + 1
          \/ step = "start" /\ script = Absent /\ UpdateStart(me)
          \/ step = "update" /\ script = Absent /\ Update(me)
    BY DEF UpdateNext, Release, Withdraw, ScriptFirst, ScriptSecond, UpdateKill
  <2>3. step # "kept" /\ step # "kill" /\ step # "start"
    BY <2>1, <2>2 DEF UpdateAt, UpdateStart
  <2>4. script = Absent /\ Update(me)
    BY <2>2, <2>3
  <2>5. ASSUME NEW phase \in Phases, NEW b \in Binaries, UpdateGoto(me, phase, b)
        PROVE  FALSE
    <3>1. proc'[me].phase = phase
      BY <2>1, <2>5, GotoIs
    <3> QED
      BY <3>1 DEF UpdateAt, Phases
  <2>6. \/ proc[me].phase = "resolve" /\ UNCHANGED <<backup, staged>>
        \/ /\ proc[me].phase = "clean" /\ proc[me].bin # "soroq"
           /\ backup' = Remove(backup, proc[me].bin) /\ staged' = staged
        \/ proc[me].phase = "discard"
    <3>1. "soroq" \in Binaries /\ "soroqctl" \in Binaries /\ proc[me].bin \in Binaries
      BY <2>1, UpdateTyped DEF Binaries
    <3>2. /\ ~Repair(me) /\ ~Sweep(me) /\ ~Backup(me) /\ ~Unback(me) /\ ~Install(me) /\ ~Verify(me)
          /\ ~RollbackRemove(me) /\ ~RollbackRestore(me)
      BY <2>5, <3>1 DEF Repair, Sweep, Backup, Unback, Install, Verify, RollbackRemove, RollbackRestore,
           Advance, Phases
    <3>3. ~Stage(me)
      <4>1. \A h : proc' # [proc EXCEPT ![me].phase = "backup", ![me].bin = "soroq", ![me].have = h]
        BY <2>1, UpdateTyped DEF UpdateAt, Process
      <4> QED
        BY <2>5, <3>1, <4>1 DEF Stage, Phases
    <3> QED
      BY <2>4, <2>5, <3>1, <3>2, <3>3 DEF Update, Resolve, Clean, Discard, UpdateAt, files, Phases
  <2>7. CASE proc[me].phase = "resolve" /\ UNCHANGED <<backup, staged>>
    BY <2>4, <2>7, AtWork DEF Swept
  <2>8. CASE /\ proc[me].phase = "clean" /\ proc[me].bin # "soroq"
             /\ backup' = Remove(backup, proc[me].bin) /\ staged' = staged
    <3>1. proc[me].bin = "soroqctl" /\ backup \in [Binaries -> Contents]
      BY <2>1, <2>8, UpdateTyped
    <3>2. backup["soroq"] = Absent /\ staged["soroq"] = Absent /\ staged["soroqctl"] = Absent
      BY <2>4, <2>8, <3>1, AtWork DEF Swept
    <3>3. backup'["soroqctl"] = Absent /\ backup'["soroq"] = Absent
      BY <2>8, <3>1, <3>2, RemoveIs DEF Binaries
    <3> QED
      BY <2>8, <3>2, <3>3 DEF Binaries
  <2>9. CASE proc[me].phase = "discard"
    BY <2>4, <2>9, AtWork DEF Doing
  <2> QED
    BY <2>6, <2>7, <2>8, <2>9
<1>2. UpdateSpec => []UpdateInv
  BY UpdateInvHolds DEF OneUpdater
<1> QED
  BY <1>1, <1>2, PTL DEF UpdateSpec

-----------------------------------------------------------------------------
(***************************************************************************)
(* Part 3.  Builds and updates, of which the composition runs one or the   *)
(* other: it implements both specifications, so what either promises of a  *)
(* step holds of every step of theirs.                                     *)
(***************************************************************************)
LEMMA KillsImplementBoth == KillsSpec => Spec /\ UpdateSpec
<1>1. KillsInit => Init /\ UpdateInit
  BY DEF KillsInit, BuildsRest
<1>2. [KillsNext]_<<subject, vars, updateVars>> => [Next]_vars /\ [UpdateNext]_updateVars
  BY DEF KillsNext, BuildStep, UpdateStep
<1> QED
  BY <1>1, <1>2, PTL DEF KillsSpec, Spec, UpdateSpec

(* What ends well is whole: the three files that a build installs are of   *)
(* that build, whoever was killed before, and an update that comes to its  *)
(* own end has swept up after killed ones.                                 *)
THEOREM WhatEndsIsWhole == OneUpdater => (KillsSpec => EndsWhole)
<1> SUFFICES ASSUME OneUpdater PROVE KillsSpec => EndsWhole
  OBVIOUS
<1>1. UNCHANGED vars => InstallsTogether
  BY DEF vars, installed, InstallsTogether
<1>2. UNCHANGED updateVars => EndsClean
  BY DEF updateVars, EndsClean, UpdateAt
<1>3. [InstallsTogether]_vars /\ [EndsClean]_updateVars => [InstallsTogether /\ EndsClean]_<<vars, updateVars>>
  BY <1>1, <1>2
<1>4. UpdateSpec => [][EndsClean]_updateVars
  BY UpdatesEndClean
<1> QED
  BY <1>3, <1>4, KillsImplementBoth, InstallsAreWhole, PTL DEF EndsWhole
=============================================================================
