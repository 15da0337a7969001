---------------------------- MODULE DeliveryGates ----------------------------
(***************************************************************************)
(* What `soroq patch android' lets through (internal/androidpatch,         *)
(* internal/androidrelease, depgraph/buildoutput.go, android_multi_abi.go, *)
(* icon_glyph_guard.go): a release is built for the ABIs that the stack    *)
(* has, the sources change, a candidate is built for the same ABIs, and    *)
(* the lanes compare the two artifacts: the code lane delivers libapp.so   *)
(* as deltas, the asset lane delivers Flutter assets as overlays.  Three   *)
(* comparisons of native libraries and two of assets were written          *)
(* separately and must decide alike.                                       *)
(*                                                                         *)
(* Bytes are values: of a library its code and the linker's build id, of a *)
(* font the glyphs that it draws.                                          *)
(***************************************************************************)
EXTENDS FiniteSets, Naturals, Sequences

CONSTANTS
    NoApk,       \* no artifact, no patch
    ABIs,        \* the ABIs of Android
    Primary,     \* arm64-v8a, which every toolchain has
    MaxChanges   \* bound on what differs between the sources of a release and a patch

ASSUME GateAssumption == Primary \in ABIs /\ IsFiniteSet(ABIs) /\ MaxChanges \in Nat

VARIABLES
    stack,    \* engine source, the toolchain's ABIs, whether the frontend declares multi_abi_v1
    source,   \* the app's sources, as far as the artifact tells them apart
    apk,      \* the release's artifact
    candidate,\* the candidate's
    request,  \* --kind, --allow-asset-diffs, --allow-empty
    at,       \* where the command is
    patch     \* what is published: the lane and the files it carries

laneVars == <<stack, source, apk, candidate, request, at, patch>>

(***************************************************************************)
(* The stack and the ABIs (android_multi_abi.go).                          *)
(***************************************************************************)
\* A toolchain that declares ABIs must declare the primary one; a local engine has only that.
Stacks == {s \in [cached : BOOLEAN, abis : SUBSET ABIs, multi : BOOLEAN] :
             Primary \in s.abis /\ (~s.cached => s.abis = {Primary})}

Buildable(s) == IF s.cached /\ s.multi THEN s.abis ELSE {Primary}

\* The ABIs that a build is for; none when the stack cannot build what the arguments name.
Platforms(s, explicit) ==
    IF explicit = {} THEN Buildable(s)
    ELSE IF s.cached /\ ~(explicit \subseteq Buildable(s)) THEN {} ELSE explicit

(***************************************************************************)
(* What Flutter and Gradle put into an artifact.                           *)
(***************************************************************************)
Lib(abi, name) == <<"lib", abi, name>>
Asset(name) == <<"flutter_assets", name>>
LibApp == "libapp.so"
Name(p) == p[Len(p)]

\* A library of a plugin is there for every ABI unless the frontend filters by the build's own.
Build(src, s, platforms) ==
    LET pluginABIs == IF s.multi THEN platforms ELSE ABIs
        libs == {Lib(a, n) : a \in platforms, n \in {LibApp, "libflutter.so"}}
                \cup {Lib(a, "libjni.so") : a \in pluginABIs}
        image == IF src.image = 0 THEN {} ELSE {Asset("assets/logo.png")}
        always == {Asset(n) : n \in {"soroq/soroq_metadata.json", "NOTICES.Z", "kernel_blob.bin",
                                     "AssetManifest.bin", "fonts/Icons.otf", "assets/App"}}
        content(p) ==
            CASE Name(p) = LibApp -> [code |-> src.code, id |-> src.code, elf |-> TRUE]
              [] Name(p) = "libflutter.so" -> [code |-> 1, id |-> 1, elf |-> TRUE]
              [] Name(p) = "libjni.so" -> [code |-> src.jni, id |-> src.place, elf |-> src.parses]
              [] Name(p) = "soroq/soroq_metadata.json" -> src.identity
              [] Name(p) = "NOTICES.Z" -> src.notices
              [] Name(p) = "kernel_blob.bin" -> src.code
              [] Name(p) = "AssetManifest.bin" -> src.image # 0
              [] Name(p) = "fonts/Icons.otf" -> [glyphs |-> src.glyphs, readable |-> src.readable]
              [] Name(p) = "assets/logo.png" -> src.image
              [] Name(p) = "assets/App" -> src.named
              [] Name(p) = "classes.dex" -> src.java
    IN  [type |-> src.type, identity |-> src.identity,
         files |-> [p \in libs \cup image \cup always \cup {<<"classes.dex">>} |-> content(p)]]

FirstSource ==
    [type |-> "apk", code |-> 1, jni |-> 1, place |-> 1, parses |-> TRUE, identity |-> 1, notices |-> 1,
     glyphs |-> {1, 2}, readable |-> TRUE, image |-> 1, named |-> 1, java |-> 1, graph |-> "resolves"]

BuildSources ==
    [type : {"apk", "aab"}, code : {1, 2}, jni : {1, 2}, place : {1, 2}, parses : BOOLEAN,
     identity : {1, 2}, notices : {1, 2}, glyphs : {{1}, {1, 2}, {1, 3}}, readable : BOOLEAN,
     image : {0, 1, 2}, named : {1, 2}, java : {1, 2}, graph : {"resolves", "unresolved", "absent"}]

EditedSources ==
    {src \in BuildSources : Cardinality({f \in DOMAIN src : src[f] # FirstSource[f]}) <= MaxChanges}

(***************************************************************************)
(* The snapshot of an artifact and its comparison (snapshot.go).           *)
(***************************************************************************)
NativePaths(a) == {p \in DOMAIN a.files : p[1] = "lib"}
AssetPaths(a) == {p \in DOMAIN a.files : p[1] = "flutter_assets"}

\* nativeelf: the digest without the build id; none for what is not an ELF.
ComparisonDigest(f) == IF f.elf THEN <<f.code>> ELSE <<>>

\* Mutant: every byte counts.
RawMatch(f, g) == f = g

ContentsMatch(f, g) ==
    IF ComparisonDigest(f) # <<>> /\ ComparisonDigest(g) # <<>>
    THEN ComparisonDigest(f) = ComparisonDigest(g) ELSE f = g

NativeLibrariesMatch(b, c) ==
    /\ NativePaths(b) = NativePaths(c)
    /\ \A p \in NativePaths(b) : ContentsMatch(b.files[p], c.files[p])

\* app, channel, runtime id, its strategy, the build's name and number, the trust fingerprint.
IdentityMatches(b, c) == b.identity = c.identity

Compatible(b, c) == IdentityMatches(b, c) /\ NativeLibrariesMatch(b, c)

DeriveABIs(a) ==
    LET withApp == {x \in ABIs : Lib(x, LibApp) \in DOMAIN a.files}
    IN  IF withApp # {} THEN withApp ELSE {p[2] : p \in NativePaths(a)}

IncompleteABIs(a) ==
    {x \in ABIs : /\ \E p \in NativePaths(a) : p[2] = x
                  /\ ~({Lib(x, LibApp), Lib(x, "libflutter.so")} \subseteq DOMAIN a.files)}

(***************************************************************************)
(* The code lane's plan (code.go), and soroqctl's own copy of it.          *)
(***************************************************************************)
MatchIgnoringBuildID(f, g) ==
    ComparisonDigest(f) # <<>> /\ ComparisonDigest(g) # <<>> /\ ComparisonDigest(f) = ComparisonDigest(g)

NativeBlockers(b, c) ==
    {p \in NativePaths(b) \cup NativePaths(c) :
        \/ p \notin NativePaths(b) \/ p \notin NativePaths(c)
        \/ /\ Name(p) # LibApp /\ b.files[p] # c.files[p]
           /\ ~MatchIgnoringBuildID(b.files[p], c.files[p])}

CodePayloads(b, c) ==
    {p \in NativePaths(b) \cap NativePaths(c) : Name(p) = LibApp /\ b.files[p] # c.files[p]}

CodePlanReady(b, c) == IdentityMatches(b, c) /\ NativeBlockers(b, c) = {} /\ CodePayloads(b, c) # {}

ToolNativeDrift(b, c) ==
    {p \in NativePaths(b) \cup NativePaths(c) : Name(p) # LibApp /\
        (p \in NativePaths(b) \cap NativePaths(c) =>
            b.files[p] # c.files[p] /\ ~MatchIgnoringBuildID(b.files[p], c.files[p]))}

ToolInventoryDrift(b, c) ==
    {p \in (NativePaths(b) \cup NativePaths(c)) \ (NativePaths(b) \cap NativePaths(c)) : Name(p) = LibApp}

ToolPlanReady(b, c) ==
    /\ IdentityMatches(b, c) /\ CodePayloads(b, c) # {}
    /\ ToolNativeDrift(b, c) \cup ToolInventoryDrift(b, c) = {}

(***************************************************************************)
(* The dependency gate's comparison of build outputs (buildoutput.go),     *)
(* which goes by the paths as they stand in the archive.                   *)
(***************************************************************************)
DartCode == {"libapp.so", "kernel_blob.bin", "soroq/soroq_metadata.json", "assets/App"}
Category(p) ==
    CASE Name(p) = "NOTICES.Z" -> "license"
      [] Name(p) \in DartCode -> "dart-code"
      [] p[1] = "lib" /\ Name(p) # LibApp -> "native"
      [] p[1] = "flutter_assets" /\ Name(p) \notin DartCode \cup {"NOTICES.Z"} -> "asset"
      [] OTHER -> "other"

IsFont(p) == Name(p) = "fonts/Icons.otf"
FontCovered(p, f, g) == IsFont(p) /\ f.readable /\ g.readable /\ g.glyphs \subseteq f.glyphs

InBoth(b, c, p) == b.type = c.type /\ p \in DOMAIN b.files \cap DOMAIN c.files

Added(b, c) == {p \in DOMAIN c.files : ~InBoth(b, c, p)}
Removed(b, c) == {p \in DOMAIN b.files : ~InBoth(b, c, p)}
ChangedNative(b, c) ==
    {p \in DOMAIN c.files : /\ InBoth(b, c, p) /\ Category(p) = "native"
                            /\ ~ContentsMatch(b.files[p], c.files[p])}
ChangedAssets(b, c) ==
    {p \in DOMAIN c.files : /\ InBoth(b, c, p) /\ Category(p) = "asset" /\ b.files[p] # c.files[p]
                            /\ ~FontCovered(p, b.files[p], c.files[p])}

\* Mutant: of the assets only the inventory is compared.
HasDriftOfInventory(b, c) ==
    \/ ChangedNative(b, c) # {}
    \/ \E p \in Added(b, c) \cup Removed(b, c) : Category(p) \in {"native", "asset"}

HasNativeOrAssetDrift(b, c) ==
    \/ ChangedNative(b, c) \cup ChangedAssets(b, c) # {}
    \/ \E p \in Added(b, c) \cup Removed(b, c) : Category(p) \in {"native", "asset"}

(***************************************************************************)
(* The Flutter assets (asset.go).                                          *)
(***************************************************************************)
DifferingAssets(b, c) ==
    {p \in AssetPaths(b) \cup AssetPaths(c) :
        p \in AssetPaths(b) \cap AssetPaths(c) => b.files[p] # c.files[p]}

Ignored(p) == Name(p) \in {"soroq/soroq_metadata.json", "NOTICES.Z"}
OverlayEligible(p) == Name(p) \in {"AssetManifest.bin", "assets/logo.png", "assets/App"}

Overlay(b, c) == {p \in DifferingAssets(b, c) \cap AssetPaths(c) : ~Ignored(p) /\ OverlayEligible(p)}
RemovedOverlay(b, c) == {p \in DifferingAssets(b, c) \ AssetPaths(c) : ~Ignored(p) /\ OverlayEligible(p)}
Unsupported(b, c) == {p \in DifferingAssets(b, c) : ~Ignored(p) /\ ~OverlayEligible(p)}

CoveredByBase(b, c, p) ==
    p \in AssetPaths(b) \cap AssetPaths(c) /\ FontCovered(p, b.files[p], c.files[p])

AssetDrift(b, c) ==
    {p \in Overlay(b, c) \cup Unsupported(b, c) :
        Name(p) # "kernel_blob.bin" /\ ~CoveredByBase(b, c, p)} \cup RemovedOverlay(b, c)

MissingGlyphs(b, c) ==
    {p \in AssetPaths(b) \cap AssetPaths(c) :
        /\ IsFont(p) /\ b.files[p].readable /\ c.files[p].readable
        /\ ~(c.files[p].glyphs \subseteq b.files[p].glyphs)}

(***************************************************************************)
(* The commands.                                                           *)
(***************************************************************************)
ReleaseBuild(explicit) ==
    /\ at = "start" /\ apk = NoApk
    /\ LET platforms == Platforms(stack, explicit)
           built == Build(source, stack, platforms)
       IN  IF platforms = {} \/ (stack.multi /\ IncompleteABIs(built) # {})
           THEN UNCHANGED laneVars
           ELSE apk' = built /\ UNCHANGED <<stack, source, candidate, request, at, patch>>

\* The two flags are for different lanes: they are given or left out together.
Requests == {r \in [kind : {"auto", "code", "asset"}, allowDiffs : BOOLEAN, allowEmpty : BOOLEAN] :
               r.allowDiffs = r.allowEmpty}

\* Between the two commands the developer edits, and another frontend may become active; the
\* toolchain is the release's (see Toolchain in AndroidPatch).
StartPatch ==
    /\ at = "start" /\ apk # NoApk
    /\ \E m \in BOOLEAN : stack' = [stack EXCEPT !.multi = m]
    /\ source' \in EditedSources /\ request' \in Requests /\ at' = "build"
    /\ UNCHANGED <<apk, candidate, patch>>

Go(place) == at' = place /\ UNCHANGED <<stack, source, apk, candidate, request, patch>>
Refuse == Go("refused")

BuildCandidate(explicit) ==
    /\ at = "build"
    /\ LET wanted == IF explicit = {} THEN DeriveABIs(apk) ELSE explicit
       IN  IF wanted # DeriveABIs(apk) \/ Platforms(stack, wanted) # wanted
           THEN Refuse
           ELSE /\ candidate' = Build(source, stack, wanted) /\ at' = "plan"
                /\ UNCHANGED <<stack, source, apk, request, patch>>

ChooseLane ==
    /\ at = "plan"
    /\ IF request.kind = "code" \/ (request.kind = "auto" /\ CodePlanReady(apk, candidate))
       THEN Go("glyphs") ELSE Go("asset plan")

CheckGlyphs ==
    /\ at = "glyphs"
    /\ IF MissingGlyphs(apk, candidate) = {} \/ request.allowDiffs THEN Go("dependencies") ELSE Refuse

CheckDependencies ==
    /\ at = "dependencies"
    /\ IF source.graph = "unresolved" \/ HasNativeOrAssetDrift(apk, candidate) THEN Refuse
       ELSE IF request.kind = "auto" THEN Go("asset drift") ELSE Go("code bundle")

CheckAssetDrift ==
    /\ at = "asset drift"
    /\ IF AssetDrift(apk, candidate) # {} THEN Refuse ELSE Go("code bundle")

PublishAs(lane, files) ==
    /\ patch' = [lane |-> lane, files |-> files] /\ at' = "published"
    /\ UNCHANGED <<stack, source, apk, candidate, request>>

BuildCodeBundle ==
    /\ at = "code bundle"
    /\ IF ~CodePlanReady(apk, candidate) THEN Refuse
       ELSE PublishAs("code", [p \in CodePayloads(apk, candidate) |-> candidate.files[p]])

AssetPlan ==
    /\ at = "asset plan"
    /\ IF Compatible(apk, candidate) THEN Go("asset bundle") ELSE Refuse

BuildAssetBundle ==
    /\ at = "asset bundle"
    /\ IF \/ Unsupported(apk, candidate) # {}
          \/ Overlay(apk, candidate) = {} /\ ~request.allowEmpty
       THEN Refuse
       ELSE PublishAs("asset", [p \in Overlay(apk, candidate) |-> candidate.files[p]])

\* What the next patch is made from, and asked for, is chosen when it starts.
DefaultRequest == [kind |-> "auto", allowDiffs |-> FALSE, allowEmpty |-> FALSE]

Again ==
    /\ at \in {"refused", "published"}
    /\ at' = "start" /\ candidate' = NoApk /\ patch' = NoApk
    /\ source' = FirstSource /\ request' = DefaultRequest
    /\ UNCHANGED <<stack, apk>>

LaneInit ==
    /\ stack \in Stacks /\ source = FirstSource
    /\ apk = NoApk /\ candidate = NoApk /\ patch = NoApk
    /\ request = DefaultRequest
    /\ at = "start"

LaneNext ==
    \/ \E explicit \in SUBSET ABIs : ReleaseBuild(explicit) \/ BuildCandidate(explicit)
    \/ StartPatch \/ ChooseLane \/ CheckGlyphs \/ CheckDependencies \/ CheckAssetDrift \/ BuildCodeBundle
    \/ AssetPlan \/ BuildAssetBundle \/ Again

(***************************************************************************)
(* Properties.                                                             *)
(***************************************************************************)

LaneTypeOK ==
    /\ stack \in Stacks /\ source \in BuildSources /\ request \in Requests
    /\ candidate # NoApk => apk # NoApk /\ DeriveABIs(candidate) = DeriveABIs(apk)
    /\ IF at = "published" THEN DOMAIN patch.files \subseteq DOMAIN candidate.files ELSE patch = NoApk

\* What a device that installed the release has once it applied the patch.
Device == [p \in DOMAIN apk.files \cup DOMAIN patch.files |->
            IF p \in DOMAIN patch.files THEN patch.files[p] ELSE apk.files[p]]

\* A device shows of a file what the candidate holds: libraries up to the build id, fonts with
\* every glyph that is drawn.
Shows(p) ==
    IF p \in DOMAIN Device /\ p \in DOMAIN candidate.files
    THEN \/ Device[p] = candidate.files[p]
         \/ p[1] = "lib" /\ MatchIgnoringBuildID(Device[p], candidate.files[p])
         \/ FontCovered(p, Device[p], candidate.files[p])
    ELSE FALSE

Everything == DOMAIN Device \cup DOMAIN candidate.files
\* Aggregated licenses, the metadata and the kernel of a debug build; code outside Dart.
NotRendered == {Asset("NOTICES.Z"), Asset("soroq/soroq_metadata.json"), Asset("kernel_blob.bin")}
OutsideDart == {<<"classes.dex">>}

\* A code patch is published only when with it the device has all the libraries and assets of the
\* candidate; with --kind an asset that is called like Dart code escapes.
CodePatchIsComplete ==
    (at = "published" /\ patch.lane = "code") =>
        \A p \in Everything \ (NotRendered \cup OutsideDart) :
            Shows(p) \/ (request.kind = "code" /\ Category(p) = "dart-code" /\ p[1] # "lib")

\* An asset patch leaves nothing behind that it cannot carry, except files that the candidate dropped.
AssetPatchIsComplete ==
    (at = "published" /\ patch.lane = "asset") =>
        \A p \in DOMAIN candidate.files \ (NotRendered \cup OutsideDart) : Shows(p)

\* Nothing but Dart code, licenses, the place of the build and glyphs no longer used.
OnlyDartChanged ==
    /\ apk.type = candidate.type /\ apk.identity = candidate.identity
    /\ apk.files[Lib(Primary, LibApp)] # candidate.files[Lib(Primary, LibApp)]
    /\ DOMAIN apk.files = DOMAIN candidate.files
    /\ \A p \in DOMAIN apk.files \ NotRendered :
        \/ apk.files[p] = candidate.files[p] \/ Name(p) = LibApp
        \/ p[1] = "lib" /\ MatchIgnoringBuildID(apk.files[p], candidate.files[p])
        \/ FontCovered(p, apk.files[p], candidate.files[p])

\* A patch that a code patch can deliver is never refused once it is built, unless its
\* dependencies do not resolve.
DartChangesShip ==
    (at = "refused" /\ candidate # NoApk /\ request.kind # "asset") =>
        (IF Lib(Primary, LibApp) \in DOMAIN apk.files THEN ~OnlyDartChanged ELSE TRUE)
        \/ source.graph = "unresolved"

\* The two planners, the snapshots' comparison and the build outputs' decide alike on libraries.
PlannersAgree ==
    candidate # NoApk =>
        /\ CodePlanReady(apk, candidate) <=> ToolPlanReady(apk, candidate)
        /\ NativeLibrariesMatch(apk, candidate) =>
            NativeBlockers(apk, candidate) = {} /\ ToolNativeDrift(apk, candidate) = {}
        /\ apk.type = candidate.type /\ NativeBlockers(apk, candidate) = {} =>
            ChangedNative(apk, candidate) = {}

\* With the patch of either lane, the device shows what the candidate does.
PatchIsComplete == LaneTypeOK /\ CodePatchIsComplete /\ AssetPatchIsComplete

\* The gates neither contradict each other nor refuse what a code patch can deliver.
GatesAgree == DartChangesShip /\ PlannersAgree
=============================================================================
