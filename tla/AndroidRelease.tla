--------------------------- MODULE AndroidRelease ---------------------------
(***************************************************************************)
(* `soroq release android' (release_cmd.go, release_preflight.go), the     *)
(* local records it leaves for later patches, and the control plane that   *)
(* it registers with.  The patch command is AndroidPatch, which extends    *)
(* this module with the rest of the next-state relation.                   *)
(*                                                                         *)
(* One command runs at a time; it can be killed between any two steps.     *)
(* An artifact is what the properties tell apart: version (from which its  *)
(* runtime id follows), flavor, the source and toolchain it was built      *)
(* from, and the obfuscated names it uses: 0 for none, n for the names a   *)
(* fresh build of source n picks.  A release id is derived from version    *)
(* and flavor.  Left out: flavors that declare a channel (see FlavorSwap), *)
(* explicit --release-id and --version on releases, several ABIs, the      *)
(* registration of the app on its first release, --upload-artifact=false.  *)
(***************************************************************************)
EXTENDS Naturals, FiniteSets, Sequences, SequencesExt

CONSTANTS
    Nil,         \* no file, no record, no flag
    None,        \* the flavor of an unflavored build
    Named,       \* the flavors with a name
    Toolchains,
    MaxVersion,  \* bound on the versions in pubspec.yaml
    MaxSource,   \* bound on the developer's edits
    MaxCommands, \* bound on the commands started
    MaxSetups,   \* bound on the changes of the active toolchain
    MaxClones,   \* bound on the fresh clones of the project
    MaxFaults    \* bound on kills, failed requests and misplaced build outputs

Versions == 1..MaxVersion
Sources == 1..MaxSource
Names == 0..MaxSource
Flavors == Named \cup {None}

(* defaultAndroidReleaseID *)
Ids == [version : Versions, flavor : Flavors]

Artifact == [version : Versions, flavor : Flavors, source : Sources,
             toolchain : Toolchains, names : Names]

(* The keys of soroq.lock: the platform's latest release, and one per      *)
(* flavor, android@<flavor>.                                               *)
LockKeys == {"android"} \X Flavors
Latest == <<"android", None>>
FlavorKey(f) == <<"android", f>>

(* What cli-state.json and soroq.lock say of a release.                    *)
Lasts == [id : Ids, path : Ids, flavor : Flavors]
Pins == [id : Ids, toolchain : Toolchains, flavor : Flavors]

ASSUME AndroidAssumption ==
    /\ None \notin Named /\ Nil \notin Named \cup Toolchains \cup {None}
    /\ Nil \notin Ids \cup Artifact \cup Lasts \cup Pins
    /\ Toolchains # {}
    /\ {MaxVersion, MaxSource} \subseteq Nat \ {0}
    /\ {MaxCommands, MaxSetups, MaxClones, MaxFaults} \subseteq Nat

VARIABLES
    tree,       \* the project: version in pubspec.yaml and source
    active,     \* the toolchain `soroq setup' made active
    out,        \* the build output in each flavor's location
    registered, \* control plane: the releases, in the order of creation
    hosted,     \* control plane: the artifact of each release
    last,       \* cli-state.json: the last release and where its artifact is
    stash,      \* the artifact in .soroq/releases/<id>
    frec,       \* the flavor record there
    obf,        \* the obfuscation map there, and the record of its digest
    pin,        \* soroq.lock
    patches,    \* the patches published
    cmd,        \* the command that runs
    marks,      \* what has happened that a guarantee excepts (history)
    used        \* commands, setups, clones and faults so far (bounds)

vars == <<tree, active, out, registered, hosted, last, stash, frec, obf, pin,
          patches, cmd, marks, used>>
local == <<last, stash, frec, obf, pin>>
server == <<registered, hosted, patches>>
project == <<tree, active>>

Idle == [at |-> "idle", flavor |-> None, obfuscate |-> FALSE, builds |-> FALSE,
         toolchain |-> Nil, fresh |-> FALSE, map |-> 0, id |-> Nil, path |-> Nil,
         early |-> FALSE, known |-> FALSE, pinned |-> FALSE]

NoNames == [map |-> 0, record |-> 0]

Init ==
    /\ tree = [version |-> 1, source |-> 1]
    /\ active \in Toolchains
    /\ out = [f \in Flavors |-> Nil]
    /\ registered = <<>> /\ hosted = [i \in Ids |-> Nil]
    /\ last = Nil
    /\ stash = [i \in Ids |-> Nil] /\ frec = [i \in Ids |-> Nil]
    /\ obf = [i \in Ids |-> NoNames]
    /\ pin = [k \in LockKeys |-> Nil]
    /\ patches = {} /\ cmd = Idle /\ marks = {}
    /\ used = [commands |-> 0, setups |-> 0, clones |-> 0, faults |-> 0]

-----------------------------------------------------------------------------
(* What the commands read.                                                 *)

Known(r) == r \in Range(registered)

(* knownReleaseFlavor: the release's record, then cli-state.json, then the *)
(* pins of soroq.lock that name a flavor; Nil when no one recorded it.     *)
KnownFlavor(id) ==
    IF frec[id] # Nil THEN frec[id]
    ELSE IF last # Nil /\ last.id = id THEN last.flavor
    ELSE LET named == {k \in LockKeys : pin[k] # Nil /\ pin[k].id = id /\ pin[k].flavor # None}
         IN  IF named = {} THEN Nil ELSE pin[CHOOSE k \in named : TRUE].flavor

(* anyFlavoredReleaseRecorded *)
AnyFlavored ==
    \/ \E i \in Ids : frec[i] \in Named
    \/ \E k \in LockKeys : pin[k] # Nil /\ pin[k].flavor \in Named

(* guardFlavorRuntimeCollision: another release with the same runtime id   *)
(* is tolerated only if it is provably of this flavor.                     *)
Collides(id, runtime, f) ==
    \E r \in Range(registered) :
        /\ r # id /\ r.version = runtime
        /\ KnownFlavor(r) # f
        /\ ~(KnownFlavor(r) = Nil /\ f = None)

(* Mutant: only a flavored command looks.                                  *)
GuardNamedOnly(id, runtime, f) == f = None \/ ~Collides(id, runtime, f)

(* guardAndroidReleaseFlavorCollision, when the releases can be listed.    *)
CollisionGuard(id, runtime, f) ==
    (f = None /\ ~AnyFlavored) \/ ~Collides(id, runtime, f)
NeedsListing(f) == f # None \/ AnyFlavored

CanFault == used.faults < MaxFaults
Fault == used' = [used EXCEPT !.faults = @ + 1]

Fail == cmd' = Idle
Goto(step) == cmd' = [cmd EXCEPT !.at = step]

(* The artifact a build writes: it reads the project as it is now.         *)
Built(f, t, names) == [version |-> tree.version, flavor |-> f, source |-> tree.source,
                       toolchain |-> t, names |-> names]

-----------------------------------------------------------------------------
(* The project and its developer.                                          *)

Edit ==
    /\ tree.source < MaxSource
    /\ \E v \in {tree.version, tree.version + 1} \cap Versions :
          tree' = [version |-> v, source |-> tree.source + 1]
    /\ UNCHANGED <<active, out, server, local, cmd, marks, used>>

(* A checkout of an older version to hotfix it.                            *)
Checkout ==
    /\ cmd.at = "idle" /\ tree.version > 1 /\ tree.source < MaxSource
    /\ tree' = [version |-> tree.version - 1, source |-> tree.source + 1]
    /\ UNCHANGED <<active, out, server, local, cmd, marks, used>>

Setup ==
    /\ cmd.at = "idle" /\ used.setups < MaxSetups
    /\ active' \in Toolchains \ {active}
    /\ used' = [used EXCEPT !.setups = @ + 1]
    /\ UNCHANGED <<tree, out, server, local, cmd, marks>>

(* .soroq/ is not committed, soroq.lock is.                                *)
FreshClone ==
    /\ cmd.at = "idle" /\ used.clones < MaxClones
    /\ last' = Nil /\ out' = [f \in Flavors |-> Nil]
    /\ stash' = [i \in Ids |-> Nil] /\ frec' = [i \in Ids |-> Nil]
    /\ obf' = [i \in Ids |-> NoNames]
    /\ marks' = marks \cup {"cloned"}
    /\ used' = [used EXCEPT !.clones = @ + 1]
    /\ UNCHANGED <<project, server, pin, cmd>>

Kill ==
    /\ cmd.at # "idle" /\ CanFault /\ Fault
    /\ cmd' = Idle
    /\ UNCHANGED <<project, out, server, local, marks>>

-----------------------------------------------------------------------------
(* The release command.                                                    *)

(* With a build, or (--artifact) of what the flavor's location holds; the  *)
(* toolchain defaults to the active one.                                   *)
StartRelease ==
    /\ cmd.at = "idle" /\ used.commands < MaxCommands
    /\ \E f \in Flavors, b \in BOOLEAN, o \in BOOLEAN :
          /\ b \/ (~o /\ out[f] # Nil)
          /\ cmd' = [Idle EXCEPT !.at = IF b THEN "preflight" ELSE "inspect",
                        !.flavor = f, !.obfuscate = o, !.builds = b, !.toolchain = active]
    /\ used' = [used EXCEPT !.commands = @ + 1]
    /\ UNCHANGED <<project, out, server, local, marks>>

(* findReleaseClaimingIdentity: of those at this version the lowest id, in *)
(* which the flavor is before the ABI: any, by how these are spelled.      *)
Claiming == {r \in Range(registered) : r.version = tree.version}

(* preflightRelease, and its verdict dropped unless the release is         *)
(* provably of this flavor.                                                *)
Verdict(match, f) ==
    IF ~(KnownFlavor(match) = f \/ (KnownFlavor(match) = Nil /\ f = None)) THEN "unknown"
    ELSE IF stash[match] # Nil /\ hosted[match] # Nil /\ stash[match] = hosted[match]
         THEN "idempotent" ELSE "conflict"

Preflight ==
    /\ cmd.at = "preflight"
    /\ \/ Claiming = {} /\ Goto("build") /\ UNCHANGED used
       \/ \E match \in Claiming :
             /\ IF Verdict(match, cmd.flavor) = "unknown" THEN Goto("build") ELSE Fail
             /\ UNCHANGED used
       \/ CanFault /\ Fault /\ Goto("build")       \* the releases cannot be listed
    /\ UNCHANGED <<project, out, server, local, marks>>

(* The build of a flavor can succeed and leave its output where Soroq does *)
(* not look.                                                               *)
Build ==
    /\ cmd.at = "build"
    /\ LET names == IF cmd.obfuscate THEN tree.source ELSE 0
       IN  \/ /\ out' = [out EXCEPT ![cmd.flavor] = Built(cmd.flavor, cmd.toolchain, names)]
              /\ cmd' = [cmd EXCEPT !.at = "inspect", !.map = names, !.fresh = TRUE]
              /\ UNCHANGED used
           \/ /\ cmd.flavor # None /\ CanFault /\ Fault
              /\ cmd' = [cmd EXCEPT !.at = "inspect", !.map = names]
              /\ UNCHANGED out
    /\ UNCHANGED <<project, server, local, marks>>

(* Discovery, the stale-output guard, the artifact against the project as  *)
(* it is now, and the flavors that would share a runtime id.               *)
StaleGuard(f) == out[f] # Nil /\ (cmd.builds => cmd.fresh)
MatchesProject(a) == a.version = tree.version

Inspect ==
    /\ cmd.at = "inspect"
    /\ LET f == cmd.flavor
           id == [version |-> tree.version, flavor |-> f]
       IN  \/ /\ StaleGuard(f) /\ MatchesProject(out[f])
              /\ CollisionGuard(id, out[f].version, f)
              /\ cmd' = [cmd EXCEPT !.id = id,
                            !.at = IF cmd.builds /\ cmd.obfuscate THEN "map" ELSE "create"]
              /\ UNCHANGED used
           \/ /\ ~(StaleGuard(f) /\ MatchesProject(out[f]) /\ CollisionGuard(id, out[f].version, f))
              /\ Fail /\ UNCHANGED used
           \/ NeedsListing(f) /\ CanFault /\ Fault /\ Fail
    /\ UNCHANGED <<project, out, server, local, marks>>

(* The base's map is committed before the release is registered: the map,  *)
(* then the record of its digest.                                          *)
CommitMap ==
    /\ cmd.at = "map"
    /\ obf' = [obf EXCEPT ![cmd.id].map = cmd.map]
    /\ marks' = IF Known(cmd.id) /\ obf'[cmd.id] # obf[cmd.id] THEN marks \cup {"overwritten"} ELSE marks
    /\ Goto("record")
    /\ UNCHANGED <<project, out, server, last, stash, frec, pin, used>>

CommitRecord ==
    /\ cmd.at = "record"
    /\ obf' = [obf EXCEPT ![cmd.id].record = cmd.map]
    /\ Goto("create")
    /\ UNCHANGED <<project, out, server, last, stash, frec, pin, marks, used>>

(* Mutant: the snapshot is kept as soon as the release is registered,      *)
(* before the control plane has taken the bytes.                           *)
CreateKeepsFirst ==
    /\ cmd.at = "create"
    /\ registered' = IF Known(cmd.id) THEN registered ELSE Append(registered, cmd.id)
    /\ stash' = [stash EXCEPT ![cmd.id] = out[cmd.flavor]]
    /\ marks' = marks \cup UNION {
          IF ~cmd.builds /\ out[cmd.flavor].names # 0 THEN {"unrecorded"} ELSE {},
          IF out[cmd.flavor].names = 0 /\ obf[cmd.id] # NoNames THEN {"leftover"} ELSE {}}
    /\ Goto("upload")
    /\ UNCHANGED <<project, out, hosted, patches, last, frec, obf, pin, used>>

(* createRelease: a release that already exists and matches is taken over, *)
(* which also heals an answer that was lost.                               *)
Create ==
    /\ cmd.at = "create"
    /\ registered' = IF Known(cmd.id) THEN registered ELSE Append(registered, cmd.id)
    /\ marks' = marks \cup UNION {
          IF ~cmd.builds /\ out[cmd.flavor].names # 0 THEN {"unrecorded"} ELSE {},
          IF out[cmd.flavor].names = 0 /\ obf[cmd.id] # NoNames THEN {"leftover"} ELSE {}}
    /\ Goto("upload")
    /\ UNCHANGED <<project, out, hosted, patches, local, used>>

(* The control plane takes the same bytes again and refuses others.        *)
Upload ==
    /\ cmd.at = "upload"
    /\ \/ /\ hosted[cmd.id] \in {Nil, out[cmd.flavor]}
          /\ hosted' = [hosted EXCEPT ![cmd.id] = out[cmd.flavor]]
          /\ Goto("stash")
       \/ /\ hosted[cmd.id] \notin {Nil, out[cmd.flavor]}
          /\ UNCHANGED hosted /\ Fail
    /\ UNCHANGED <<project, out, registered, patches, local, marks, used>>

(* rememberAndroidRelease *)
Stash ==
    /\ cmd.at = "stash"
    /\ stash' = [stash EXCEPT ![cmd.id] = out[cmd.flavor]]
    /\ Goto("flavor")
    /\ UNCHANGED <<project, out, server, last, frec, obf, pin, marks, used>>

RecordFlavor ==
    /\ cmd.at = "flavor"
    /\ frec' = [frec EXCEPT ![cmd.id] = cmd.flavor]
    /\ Goto("state")
    /\ UNCHANGED <<project, out, server, last, stash, obf, pin, marks, used>>

SaveState ==
    /\ cmd.at = "state"
    /\ last' = [id |-> cmd.id, path |-> cmd.id, flavor |-> cmd.flavor]
    /\ IF cmd.builds THEN Goto("pin") ELSE cmd' = Idle
    /\ UNCHANGED <<project, out, server, stash, frec, obf, pin, marks, used>>

(* recordSoroqLockPin: only for a release that Soroq built.                *)
Pin(key, step) ==
    /\ pin' = [pin EXCEPT ![key] = [id |-> cmd.id, toolchain |-> cmd.toolchain, flavor |-> cmd.flavor]]
    /\ IF step = "idle" THEN cmd' = Idle ELSE Goto(step)
    /\ UNCHANGED <<project, out, server, last, stash, frec, obf, marks, used>>

PinLatest ==
    /\ cmd.at = "pin"
    /\ Pin(Latest, IF cmd.flavor = None THEN "idle" ELSE "pinFlavor")

PinFlavor == cmd.at = "pinFlavor" /\ Pin(FlavorKey(cmd.flavor), "idle")

ReleaseNext ==
    \/ StartRelease \/ Preflight \/ Build \/ Inspect \/ CommitMap \/ CommitRecord
    \/ Create \/ Upload \/ Stash \/ RecordFlavor \/ SaveState \/ PinLatest \/ PinFlavor
    \/ Edit \/ Checkout \/ Setup \/ FreshClone \/ Kill
=============================================================================
