---------------------------- MODULE IndexedLane ----------------------------
(***************************************************************************)
(* The indexed iOS engine lane: soroq.yaml lists the functions that may be *)
(* patched (ios_engine.patchable), and a patch names the ones it replaces  *)
(* by their index.  `soroq release ios --engine --build' writes the list   *)
(* to a manifest and to a Dart table, builds the app with the table, and   *)
(* has soroqctl record a baseline with the digests of the app.dill and of  *)
(* the manifest and create the release on the control plane.  `soroq patch *)
(* ios --engine' writes both files again and has soroqctl check everything *)
(* against the baseline, compile, sign and publish.  On the device, index  *)
(* i is the i-th function of the table in the app.                         *)
(*                                                                         *)
(* An app.dill is what it was compiled from: code and table.  An engine is *)
(* the digests of a toolchain's artifacts.  Left out: which functions of   *)
(* the list are in the patch's library (all of the list is indexed), the   *)
(* version of the manifest, the signature and its key, the names and       *)
(* schemas that tell a baseline from a freehand one, releases without      *)
(* --api, the archive handoff and signed IPAs.                             *)
(***************************************************************************)
EXTENDS Naturals

CONSTANTS
    LaneCmds,      \* the processes
    Patchables,    \* the lists that soroq.yaml may have, none of them empty
    Codes,         \* the rest of the app's source
    ReleaseIds,
    LaneEngines,
    AppVersions,   \* what --version may be
    OutFiles,      \* where a baseline may be written and looked for
    Nothing,       \* no such file, no such release
    MaxLaneReleases, MaxLanePatches \* bounds on the commands

Dills == [code : Codes, table : Patchables]
LaneBaselines == [id : ReleaseIds, engine : LaneEngines, dill : Dills, manifest : Patchables]

ASSUME IndexedAssumption ==
    /\ Nothing \notin AppVersions /\ Nothing \notin Patchables /\ Nothing \notin Dills
    /\ Nothing \notin LaneBaselines /\ {MaxLaneReleases, MaxLanePatches} \subseteq Nat

VARIABLES
    listed,     \* the list in soroq.yaml, and the code
    scaffold, \* soroq_app_manifest.txt and lib/soroq_patch_table.g.dart
    dill,     \* the freshest app.dill under the project's build directories
    outFile,  \* what is in each file
    created,  \* control plane: the version of each release
    laneCmd,  \* the state of each process
    laneRuns, \* the commands begun
    recorded, \* the baselines written (history)
    strays,   \* the ids recorded anew away from the baseline they had (history)
    apps,     \* the apps of the releases that succeeded (history)
    patched,  \* the patches published (history)
    ensured   \* the releases reported as created (history)

past == <<recorded, strays, apps, patched, ensured>>
indexedVars == <<listed, scaffold, dill, outFile, created, laneCmd, laneRuns, past>>

(* entries: the list the command resolved; built: the app.dill its build   *)
(* wrote; app: that build came to its end; base: the baseline it writes or *)
(* was given; met: what was in its file before; alone (history): nobody    *)
(* has changed under it what it goes by.                                   *)
LaneSteps == {"idle", "resolve", "table", "check", "build", "identify", "write", "create",
              "guard", "verify", "compile", "publish"}
CmdIdle == [at |-> "idle", patch |-> FALSE, id |-> Nothing, engine |-> Nothing, version |-> Nothing,
             file |-> Nothing, entries |-> Nothing, built |-> Nothing, app |-> FALSE,
             base |-> Nothing, met |-> Nothing, alone |-> TRUE]

Commands == [at : LaneSteps, patch : BOOLEAN, id : ReleaseIds \cup {Nothing}, engine : LaneEngines \cup {Nothing},
             version : AppVersions \cup {Nothing}, file : OutFiles \cup {Nothing},
             entries : Patchables \cup {Nothing}, built : Dills \cup {Nothing}, app : BOOLEAN,
             base : LaneBaselines \cup {Nothing}, met : LaneBaselines \cup {Nothing}, alone : BOOLEAN]

(* The files, the control plane and the commands have the shape the code   *)
(* gives them.                                                             *)
IndexedTypeOK ==
    /\ listed \in [list : Patchables, code : Codes] /\ dill \in Dills \cup {Nothing}
    /\ scaffold \in [manifest : Patchables \cup {Nothing}, table : Patchables \cup {Nothing}]
    /\ outFile \in [OutFiles -> LaneBaselines \cup {Nothing}]
    /\ created \in [ReleaseIds -> AppVersions \cup {Nothing}]
    /\ laneCmd \in [LaneCmds -> Commands]
    /\ laneRuns \in [releases : 0 .. MaxLaneReleases, patches : 0 .. MaxLanePatches]

IndexedInit ==
    /\ listed \in [list : Patchables, code : Codes]
    /\ scaffold = [manifest |-> Nothing, table |-> Nothing] /\ dill = Nothing
    /\ outFile = [q \in OutFiles |-> Nothing] /\ created = [id \in ReleaseIds |-> Nothing]
    /\ laneCmd = [c \in LaneCmds |-> CmdIdle] /\ laneRuns = [releases |-> 0, patches |-> 0]
    /\ recorded = {} /\ strays = {} /\ apps = {} /\ patched = {} /\ ensured = {}

-----------------------------------------------------------------------------
LaneAt(c, step) == laneCmd[c].at = step
LaneTo(c, step) == laneCmd' = [laneCmd EXCEPT ![c].at = step]
LaneEnds(c) == laneCmd' = [laneCmd EXCEPT ![c] = CmdIdle]
Aside(c, others) == [x \in LaneCmds |->
    IF x # c /\ x \in others THEN [laneCmd[x] EXCEPT !.alone = FALSE] ELSE laneCmd[x]]

BeginLane(c, command) ==
    /\ LaneAt(c, "idle")
    /\ laneCmd' = [laneCmd EXCEPT ![c] = [command EXCEPT !.at = "resolve"]]
    /\ UNCHANGED <<listed, scaffold, dill, outFile, created, past>>

RunReleaseIOSEngineBuild(c, id, engine, version, q) ==
    /\ laneRuns.releases < MaxLaneReleases /\ laneRuns' = [laneRuns EXCEPT !.releases = @ + 1]
    /\ BeginLane(c, [CmdIdle EXCEPT !.id = id, !.engine = engine, !.version = version, !.file = q])

RunPatchIOSEngineScaffolded(c, engine, q) ==
    /\ laneRuns.patches < MaxLanePatches /\ laneRuns' = [laneRuns EXCEPT !.patches = @ + 1]
    /\ BeginLane(c, [CmdIdle EXCEPT !.patch = TRUE, !.engine = engine, !.file = q])

(* The list is read once; the manifest is written, then the table, and the *)
(* manifest is read back.  Whoever goes by another list is not alone now.  *)
Goers(list) == {x \in LaneCmds : laneCmd[x].entries \notin {Nothing, list}}

ResolvePatchableEntries(c) ==
    /\ LaneAt(c, "resolve")
    /\ scaffold' = [scaffold EXCEPT !.manifest = listed.list]
    /\ laneCmd' = [Aside(c, Goers(listed.list)) EXCEPT ![c].at = "table", ![c].entries = listed.list]
    /\ UNCHANGED <<listed, dill, outFile, created, laneRuns, past>>

(* Mutant: the table is written from soroq.yaml as it is by then *)
WritePatchTableAnew(c) ==
    /\ LaneAt(c, "table")
    /\ scaffold' = [scaffold EXCEPT !.table = listed.list]
    /\ laneCmd' = [Aside(c, Goers(laneCmd[c].entries)) EXCEPT ![c].at = "check"]
    /\ UNCHANGED <<listed, dill, outFile, created, laneRuns, past>>

WritePatchTableFile(c) ==
    /\ LaneAt(c, "table")
    /\ scaffold' = [scaffold EXCEPT !.table = laneCmd[c].entries]
    /\ laneCmd' = [Aside(c, Goers(laneCmd[c].entries)) EXCEPT ![c].at = "check"]
    /\ UNCHANGED <<listed, dill, outFile, created, laneRuns, past>>

CrossCheckScaffold(c) ==
    /\ LaneAt(c, "check")
    /\ IF scaffold.manifest # laneCmd[c].entries THEN LaneEnds(c)
       ELSE LaneTo(c, IF laneCmd[c].patch THEN "guard" ELSE "build")
    /\ UNCHANGED <<listed, scaffold, dill, outFile, created, laneRuns, past>>

(* buildIOSAppDill: the build ends well, or fails after it wrote app.dill, *)
(* or before.  Then the freshest app.dill is looked for; if there is one,  *)
(* only a release that must make an IPA ends for the failure.              *)
FlutterBuildIOS(c, outcome, ipa) ==
    LET new == IF outcome = "early" THEN dill ELSE [code |-> listed.code, table |-> scaffold.table]
        others == {x \in LaneCmds : laneCmd[x].built \notin {Nothing, new}}
    IN  /\ LaneAt(c, "build")
        /\ dill' = new
        /\ laneCmd' = [Aside(c, others) EXCEPT ![c] =
               IF new = Nothing \/ (outcome # "ends" /\ ipa) THEN CmdIdle
               ELSE [@ EXCEPT !.at = "identify", !.built = IF outcome = "early" THEN Nothing ELSE new,
                              !.app = outcome = "ends"]]
        /\ UNCHANGED <<listed, scaffold, outFile, created, laneRuns, past>>

-----------------------------------------------------------------------------
(* soroqctl release ios-engine *)
Identity(c) == [id |-> laneCmd[c].id, engine |-> laneCmd[c].engine, dill |-> dill, manifest |-> scaffold.manifest]

IsBaseOf(x, id) == x # Nothing /\ x.id = id
Unaltered(q, b) == IsBaseOf(outFile[q], b.id) => outFile[q] = b

IdentifyBaseline(c) ==
    /\ LaneAt(c, "identify")
    /\ IF Unaltered(laneCmd[c].file, Identity(c))
       THEN laneCmd' = [laneCmd EXCEPT ![c].at = "write", ![c].base = Identity(c), ![c].met = outFile[laneCmd[c].file]]
       ELSE LaneEnds(c)
    /\ UNCHANGED <<listed, scaffold, dill, outFile, created, laneRuns, past>>

Succeeded(c) == apps' = apps \cup
    IF laneCmd[c].app /\ laneCmd[c].alone
    THEN {[id |-> laneCmd[c].id, engine |-> laneCmd[c].engine, dill |-> laneCmd[c].built]} ELSE {}

WriteBaseline(c) ==
    LET b == laneCmd[c].base IN
    /\ LaneAt(c, "write")
    /\ outFile' = [outFile EXCEPT ![laneCmd[c].file] = b]
    /\ recorded' = recorded \cup {[base |-> b, built |-> laneCmd[c].built, alone |-> laneCmd[c].alone]}
    /\ strays' = IF ~IsBaseOf(laneCmd[c].met, b.id) /\ \E r \in recorded : r.base.id = b.id /\ r.base # b
                 THEN strays \cup {b.id} ELSE strays
    /\ LaneTo(c, "create")
    /\ UNCHANGED <<listed, scaffold, dill, created, laneRuns, apps, patched, ensured>>

(* ensureControlPlaneSetup: a release is created unless its id is taken or *)
(* another has its version; the request or its answer may be lost.  After  *)
(* an error the id is asked for, which may fail too.                       *)
CanCreate(id, version) == created[id] = Nothing /\ \A i \in ReleaseIds : created[i] # version

ExistsByID(id, reached) == reached /\ created'[id] # Nothing

EnsureControlPlaneSetup(c, arrives, answered, reached) ==
    LET id == laneCmd[c].id
        made == arrives /\ CanCreate(id, laneCmd[c].version)
    IN  /\ LaneAt(c, "create") /\ (answered => arrives)
        /\ created' = IF made THEN [created EXCEPT ![id] = laneCmd[c].version] ELSE created
        /\ IF (made /\ answered) \/ ExistsByID(id, reached)
           THEN ensured' = ensured \cup {id} /\ Succeeded(c) ELSE UNCHANGED <<ensured, apps>>
        /\ LaneEnds(c)
        /\ UNCHANGED <<listed, scaffold, dill, outFile, laneRuns, recorded, strays, patched>>

-----------------------------------------------------------------------------
(* The patch: soroq looks at the manifest in the baseline; soroqctl reads  *)
(* the baseline anew and checks all of it, the operator having given the   *)
(* app.dill; the manifest is read once more for the indices.               *)
AssertManifestMatchesBaseline(c) ==
    LET b == outFile[laneCmd[c].file] IN
    /\ LaneAt(c, "guard")
    /\ IF b = Nothing \/ b.manifest # scaffold.manifest THEN LaneEnds(c) ELSE LaneTo(c, "verify")
    /\ UNCHANGED <<listed, scaffold, dill, outFile, created, laneRuns, past>>

EngineMatchesBaseline(b, engine) == b.engine = engine
AppDillMatches(b, given) == b.dill = given

VerifyPatchInputs(c, given) ==
    LET b == outFile[laneCmd[c].file] IN
    /\ LaneAt(c, "verify")
    /\ IF /\ b # Nothing
          /\ EngineMatchesBaseline(b, laneCmd[c].engine) /\ AppDillMatches(b, given)
          /\ b.manifest = scaffold.manifest
       THEN laneCmd' = [laneCmd EXCEPT ![c].at = "compile", ![c].base = b, ![c].built = given]
       ELSE LaneEnds(c)
    /\ UNCHANGED <<listed, scaffold, dill, outFile, created, laneRuns, past>>

Identities == scaffold.manifest

CompilePatchBytecode(c) ==
    /\ LaneAt(c, "compile")
    /\ laneCmd' = [laneCmd EXCEPT ![c].at = "publish", ![c].entries = Identities]
    /\ UNCHANGED <<listed, scaffold, dill, outFile, created, laneRuns, past>>

PublishEngineBundle(c, arrives) ==
    LET p == laneCmd[c] IN
    /\ LaneAt(c, "publish") /\ LaneEnds(c)
    /\ patched' = patched \cup IF arrives /\ created[p.base.id] # Nothing
           THEN {[id |-> p.base.id, base |-> p.base, engine |-> p.engine, dill |-> p.built,
                  indexed |-> p.entries, alone |-> p.alone]} ELSE {}
    /\ UNCHANGED <<listed, scaffold, dill, outFile, created, laneRuns, recorded, strays, apps, ensured>>

-----------------------------------------------------------------------------
KillLane(c) ==
    /\ ~LaneAt(c, "idle") /\ LaneEnds(c)
    /\ UNCHANGED <<listed, scaffold, dill, outFile, created, laneRuns, past>>

EditTree ==
    /\ listed' \in [list : Patchables, code : Codes] /\ listed' # listed
    /\ UNCHANGED <<scaffold, dill, outFile, created, laneCmd, laneRuns, past>>

IndexedNext ==
    \/ \E c \in LaneCmds :
        \/ \E engine \in LaneEngines, q \in OutFiles :
            \/ RunPatchIOSEngineScaffolded(c, engine, q)
            \/ \E id \in ReleaseIds, version \in AppVersions :
                    RunReleaseIOSEngineBuild(c, id, engine, version, q)
        \/ ResolvePatchableEntries(c) \/ WritePatchTableFile(c) \/ CrossCheckScaffold(c)
        \/ \E outcome \in {"ends", "tail", "early"}, ipa \in BOOLEAN : FlutterBuildIOS(c, outcome, ipa)
        \/ IdentifyBaseline(c) \/ WriteBaseline(c)
        \/ \E arrives, answered, reached \in BOOLEAN : EnsureControlPlaneSetup(c, arrives, answered, reached)
        \/ AssertManifestMatchesBaseline(c) \/ CompilePatchBytecode(c)
        \/ \E given \in Dills : VerifyPatchInputs(c, given)
        \/ \E arrives \in BOOLEAN : PublishEngineBundle(c, arrives)
        \/ KillLane(c)
    \/ EditTree

IndexedSpec == IndexedInit /\ [][IndexedNext]_indexedVars

-----------------------------------------------------------------------------
(* A release that was reported to be on the control plane is: no patch     *)
(* will be refused for a release that does not exist.                      *)
NoPhantomRelease == \A id \in ensured : created[id] # Nothing

(* What a patch replaces by index in any app of its release is what it was *)
(* compiled to replace, and it was compiled against that app, unless the   *)
(* id was recorded anew in another file, or a command went by files that   *)
(* another one changed.                                                    *)
IndicesLand == \A p \in patched, a \in apps :
    p.id = a.id /\ p.id \notin strays /\ p.alone =>
        a.dill = p.dill /\ a.engine = p.engine /\ p.indexed = a.dill.table

(* What is promised of the indexed lane. *)
IndexedHolds == IndexedTypeOK /\ NoPhantomRelease /\ IndicesLand

(* The app.dill that a release records is one that its own build wrote,    *)
(* also when the build failed.                                             *)
DillIsOfBuild == \A r \in recorded : r.alone => r.built = r.base.dill
=============================================================================
