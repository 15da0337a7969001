# Soroq CLI: a TLA+ verification project

This directory models the Soroq command-line tools of this repository
(`src/backend/cmd/soroq`, `src/backend/cmd/soroqctl`, the packages under
`src/backend/internal`, and the installer `src/install.sh`). The modules are
translated from the Go and shell sources. TLC checks them on small instances;
TLAPS proves the theorems listed below for every value of the constants.

Soroq ships code updates ("patches") to Flutter apps. The repository holds the
developer's side of it. The control plane (the HTTP service) and the device
runtime are not in it; where a module needs them it states in an operator
marked *external* what the client code relies on.

1. [The system](#1-the-system): components, state, operations, interaction
2. [The modules and the code](#2-the-modules-and-the-code)
3. [Runs, bounds and fairness](#3-runs-bounds-and-fairness)
4. [What is proved](#4-what-is-proved)
5. [Where code and words disagree](#5-where-code-and-words-disagree)
6. [What is only model-checked, and what is not modelled](#6-what-is-only-model-checked-and-what-is-not-modelled)
7. [Plan](#7-plan)

## 1. The system

A command is a process of its own: it reads flags, a project directory and
`~/.soroq`, calls the control plane, runs external tools (flutter, pub,
codesign, compilers) and ends. There is no daemon and there are hardly any
goroutines. What is concurrent is therefore **several commands at a time** (two
operators, two terminals, a CI matrix), and what fails is **a command that is
killed, a request whose answer is lost, or one of several file operations**.
The commands meet in four places:

* the control plane's tables (releases, patches, numbers, bundles);
* the project directory (`soroq.yaml`, `soroq.lock`, `pubspec.lock`,
  `.dart_tool/`, `.soroq/`);
* the tool store `~/.soroq` (frontends, toolchains, baselines, artifacts,
  `active.json` pointers, tokens);
* the install directory of the two binaries.

| Component | State it keeps | Operations | Hard behaviours | Correct when |
|---|---|---|---|---|
| Hosted publication, deployment versions (`freehand_manifest_version.go`, `freehand_hosted_publish.go`, `freehand_patch.go`) | the control plane's patch table and per-scope counters; the version signed into a manifest | list, predict, validate, sign, register, upload, gate | the version is signed before it is allocated; concurrent operators; lost answers; wrong scope | an announced version is the allocated number and unique; no device mistakes a new patch for the one it runs |
| Rollback (`rollback_cmd.go`, `rollback_engine_canonical.go`, `soroqctl`) | rolled-back marks; signed version-0 manifests | sign a rollback, roll a record back | the newest patch is resolved and later rolled back by id | devices go back only by a rollback |
| Self update and installer (`selfupdate.go`, `install.sh`) | two binaries with their `.bak` and `.new` files | repair, stage, back up, install, verify, roll back | kills between renames; two updates; releases withdrawn | no binary lost; never a silent downgrade; both new or both old |
| Build resolution and build lock (`soroq_package_config.go`, `build_lock_*.go`) | `pubspec.lock` and its sidecar, `package_config.json`, `package_graph.json`, the pinned lock, the lock file | acquire, repair, park, pub get, put back, install | kills while the lock is rewritten; several builds; a lock file nobody holds | the developer's lock is recoverable and put back; one resolution is installed; no build waits for ever |
| Tool store (`setup_cmd.go`, `frontend_cmd.go`, `toolchain_install.go`, `toolchain_active.go`, `cache_cmd.go`) | version directories, two pointer files | setup, install, re-verify, swap, record, clean | remove-then-rename; read-modify-write of a shared file; clean against install | what is recorded is installed; recorded platforms coexist |
| Catalog and signatures (`catalog_client.go`, `catalog_v2_client.go`, `internal/catalogv2`, `internal/signing`) | none; signed documents | verify, choose between two catalogs, resolve a pair, verify every pair, install | publications during a setup; fallback only when it matches; the second platform's pair fails | nothing is installed before everything is verified; the installed pair is the one asked for; one generation for all platforms |
| Patch artifact store (`freehand_patch.go`, `freehand_contract.go`) | immutable artifact directories | generate, stage, rename, verify the winner | two runs persist the same artifact | an artifact is complete and never changes |
| Release baseline store (`freehand_baseline.go`, `freehand_release.go`, ...) | one immutable baseline per runtime id | stage, sync, rename, adopt, re-validate | shared build directories; edits during the build; adoption of what an earlier command left | a baseline is of one build, is bound once, and is what is shipped |
| Flavors (`flavor.go`, `flavor_channel.go`) | the effective `soroq.yaml`, the swap directory | repair, swap for a build, restore | kill before the restore; a repair beside a live build | the developer's file comes back; each build has its own flavor |
| Release registration (`release_cmd.go`, `project_state.go`, `soroq_lock.go`, `platforms_cmd.go`) | releases and artifacts of the control plane; `soroq.lock`, local state, snapshots of bases | preflight, build, create, upload, record | one step of several fails; rerun meets its own release; two flavors of one version | what is kept of a release is the release's own |
| Android patches (`patch_cmd.go`, `android_multi_abi.go`, `internal/androidpatch`, `internal/androidrelease`) | candidate builds, patches | choose the base, rebuild, compare, choose a lane, publish | stale local records; several ABIs; comparisons written three times | built against what users run; the patch carries all that changed or is refused |
| Android delta encoding (`soroqctl/android_code_delta.go`) | none | find copies, rewrite, encode, rebuild | thirteen op-based strategies; indices of passes that must move as the decoder does | the delta rebuilds the candidate |
| Obfuscation seed (`android_obfuscation_seed.go`) | captured and committed names, and a record of them | capture, commit, seed, verify | a failed release must not commit; a kill between two files | a patch keeps the names of its release |
| Login and credentials (`auth_cmd.go`, `auth_browser_cmd.go`) | token in keychain or file | callback, exchange, store, refresh, logout | late, forged or missing callbacks; storage that fails after the keychain changed; commands that overlap; a logout with `--api` | the session is that of the last command to succeed; a token only goes to the control plane that issued it |
| Signing keys and manifest trust (`manifest_trust_scaffold.go`, `toolchain_keygen.go`) | the seed file, the keys in `soroq.yaml`, the key in each base | create, ignore, pin, sign | kill between the writes; two commands that both make a seed | what signs is what is pinned |
| Dependency graph and delivery gates (`internal/depgraph`, `icon_glyph_guard.go`) | a graph recorded per release | resolve, describe, decide, validate again | cyclic and dev packages; edits between plan and publication | a change that needs a release is never sent as a patch, and no other is refused |
| Freehand compilation pipeline (`freehand_*.go`) | baselines with kernels, maps and fingerprints; modules | build, diff, plan redirects, prune, compile, translate names | inlined copies, folds, values; the order of expansion and gates | nothing stale runs after a patch; nothing that did not change is redirected |
| Indexed iOS engine lane (`engine_lane_cmd.go`, `ios_engine_scaffold.go`, `ios_local_engine.go`, `soroqctl/ios_engine_*.go`) | manifest and Dart table of the patchable functions, the freshest `app.dill`, the baseline file, the release | resolve, write both files, build, identify, write the baseline, create; check, compile, publish | two files written one after the other and a build that other commands share; a build that fails late; a release that exists already | index *i* of a patch is the *i*-th function of every app it reaches |
| Signing of IPAs, project model and reports, other `soroqctl` lanes, shared types, `install.ps1` | files rewritten whole, or none | generate, report | none of order | not modelled |

**Interaction.** `soroq setup` fills the tool store, from which every build
takes its frontend and toolchain. A build prepares its resolution in the
project under the build lock, swaps the flavor's configuration in, compiles,
and a release writes a baseline that later patches are compared with. A patch
is generated into the artifact store, signed with a predicted version,
registered and uploaded; the gate then compares prediction and allocation.
Devices poll the control plane and apply what is served. `soroq update`
replaces the tools themselves.

The places where this can go wrong in ways a test would hardly reach are the
`hazards` of `PROJECT.json`, each at the line where it bites, with the
properties that watch it.

## 2. The modules and the code

| Module | Extends | What it is |
|---|---|---|
| `Publication` | | hosted publication and both rollbacks, several operators, control plane, device |
| `VersionLedger` | | abstract specification: numbers handed out, announcements that own one |
| `PublicationProofs` | `Publication`, TLAPS | theorems about publication: table, lane, one operator, refinement (section 4) |
| `SelfUpdate` | | `soroq update`, its repair, and `install.sh` |
| `BuildResolution` | | `prepareSoroqBuildResolution` and the build lock |
| `Kills` | both of these | builds or updates that are killed at any step |
| `KillsProofs` | `Kills`, TLAPS | theorems about both, and that the composition implements them |
| `ToolStore` | | setup, installs, pointers and `cache clean` |
| `ToolStoreProofs` | `ToolStore`, TLAPS | theorems about the store |
| `FlavorSwap` | | the effective `soroq.yaml` of a flavored build, and its repair |
| `IndexedLane` | | releases and patches of the indexed iOS engine lane |
| `AndroidRelease`, `AndroidPatch` | the second the first | `soroq release android` and `soroq patch android` on one set of records |
| `AndroidProofs` | `AndroidPatch`, TLAPS | theorems about the two commands |
| `AndroidDelta` | | the code delta: thirteen strategies, encoders, decoders |
| `DeltaProofs` | `AndroidDelta`, TLAPS | theorems about the code delta |
| `WriteOnceStore` | | abstract specification: a key is bound once |
| `FreehandRelease`, `FreehandPatch` | the second the first | iOS release and patch commands that share a project, and the two stores |
| `FreehandProofs` | `FreehandPatch`, `IndexedLane`, TLAPS | theorems about the two commands, refinement of `WriteOnceStore`; theorems about the indexed lane |
| `Catalog` | | which pair `soroq setup` installs |
| `DeliveryGates` | | what the two lanes of an Android patch compare, carry and refuse |
| `FreehandPlan` | | which declarations an iOS patch redirects, and how its artifact names them |
| `DependencyGate` | | the dependency graph of an iOS patch, its descriptor and its validations |
| `GatesProofs` | these four, `FlavorSwap`, TLAPS | their theorems, a part for each |
| `Login` | | login, logout, requests and what they store |
| `ProjectKeys` | | the project's signing key, from `init` to a signed patch |
| `LoginProofs` | both of these, TLAPS | their theorems |

The `MC` modules give the constants values for TLC, and symmetry. Four runs compose
modules that share no state, each behaviour being of one *subject* while the
others rest: `Kills` (builds, updates), `MCConfig` (flavors, the indexed
lane), `MCAndroid` (the records of releases and patches, the code delta) and
`MCGates` (graph, lanes, plan, setup, keys). A run so explores the sum of the
instances, not their product.

Definitions that a comment introduces with "Mutant:" are not part of a
specification. Each is a plausible bug in a definition that follows it, and
is used to check that a property notices it. `PROJECT.json` ("map") gives the
source lines of every definition that models code.

### Publication

*State.* `patches` is the control plane's append-only table; a row says what
its registrant signed (`artifact`, `version`), the number allocated, whether
the bundle is stored and whether it is rolled back. `allocated` is the counter
of each scope (runtime, channel). `op[o]` is the invocation an operator is
running, with a program counter at each request. `device` is what a device of
each scope runs; `announced` are the patches whose publication ended with
success.

*Actions.* `Plan` (flags), `ResolveVersion` (`resolveManifestVersion`: list,
predict or take `--patch-version`, validate; after it the manifest is signed),
`Register` (`POST /v1/patches`, its answer arriving or lost),
`RegisterRefused` (the patch id is a key), `Upload` (`POST .../bundle`),
`Report` (`assertAllocatedVersionMatches` and the final message),
`SignRollback` and `ResolveRollback`/`PostRollback` (the two rollbacks),
`Abandon` (a kill or a failed request at any point), `DevicePoll`. Every
request is a step of its own, since every other operator may run in between.

The scope of the listing is the baseline's channel while the registration uses
`--channel`: the code does that, so the model does.

### SelfUpdate

*State.* The files `soroq`, `soroqctl`, their `.bak` and `.new`, each with a
version, absent or cut short; the stable releases; one record per running
update with its phase and the binary it is at; whether `install.sh` is between
its two moves. `verified` is the newest version that was in place and checked.

*Actions.* One per file operation of `repairInterruptedUpdate` (`Repair`,
`Sweep`), `performSelfUpdate` (`Resolve`) and `installBinaries` (`Stage`,
`Backup`, `Unback`, `Install`, `Verify`, `Clean`, `RollbackRemove`,
`RollbackRestore`, `Discard`), `Kill` between any two of them,
`Release`/`Withdraw`, and `ScriptFirst`/`ScriptSecond` for `install.sh`. A
rename fails when its source is gone, and may fail otherwise up to `MaxFaults`.

### BuildResolution

*State.* `lock` (pubspec.lock), `guard` (the sidecar), `config`, `graph`,
`pinned` (the number of the build whose resolution the file holds, 0 for one
made by pub in the project), `kind` and `holder` of the build lock, one record
per build, pubs that outlived their build, and `intended`, the lock the
developer last wrote.

*Actions.* `Acquire`/`GiveUp` (the lock of Unix, and the file of Windows whose
wait is bounded), `RestoreInterruptedLock`/`DropInterruptedGuard`, `ParkLock`,
`PubGet`, `PutLockBack`, `ClearGuard`, `ResolveIsolated`, `InstallConfig`,
`InstallGraph`, `PinLock`, with their error returns (`Return` releases the
lock), `Kill`, `OrphanWrites`, and the developer's own edits.

### ToolStore and Catalog

`ToolStore`'s `dir` says of each version of the frontend and of every
platform's toolchain whether its directory is absent, whole or torn; `active`
and `temp` hold the two pointer files and their fixed temporary names, down to
truncated (`Empty`) and mixed (`Garbled`) contents. `Setup`, `Install` and
`CacheClean` start a command; `Check` is the offline re-verification,
`Fetch` the download and verification beside the store,
`Remove`/`Removed`/`Swap` the replacement (RemoveAll is not atomic, Rename
is), `Load`/`Open`/`Write`/`Publish` the recording, where a descriptor follows
the file that another command renames; `ReadFrontends`, `ReadToolchains`,
`Enumerate`, `Delete`/`Deleted` the clean; `Kill` a kill anywhere.

`Catalog` is the same setup seen from the registry. `catalog1` and `catalog2`
are the two signed documents, `registry` the manifest of each version string,
`gone` the archives that are not there; `setup` is the running command: which
pair it chose for each platform, by which route and from which document;
`disk` and `ready` are what it installed. `FetchCatalog`, `FetchCatalogV2`,
`Fallback`, `Preflight`, `InstallFrontend`, `InstallToolchain`, `Record` follow
`runSetup` and `runSetupV2`; the publisher's `PublishCatalog1`,
`PublishCatalog2`, `ReuseVersion` and `LoseArchive` may come between any two of
them, and a reply may be no reply, unsigned, or of another document.

### FlavorSwap

*State.* `file`: soroq.yaml and the generated preview asset; `swap`: the
directory `.soroq/flavor-channel-swap`, with its backups and `swap.json`; one
record per process. *Actions.* Every command first repairs (`Recover`,
`RestoreFile`, `RemoveEntry`, `RemoveDirectory`) and then reads the
configuration; a swapped build goes through `Mkdir`, `BackupYaml`,
`BackupAsset`, `WriteRecord`, `SwapYaml`, `BuildFlavor`, `EndBuild`, which restores.
`overtaken` marks a swap that the repair of another process ran into before
its record was written (section 5): the invariants except it.

### IndexedLane

*State.* `listed` is the list in soroq.yaml and the rest of the source;
`scaffold` the manifest and the generated Dart table; `dill` the freshest
`app.dill` under the project; `outFile` the baseline files; `created` the
releases of the control plane; `laneCmd` the commands at their steps.
*Actions.* `RunReleaseIOSEngineBuild` and `RunPatchIOSEngineScaffolded` begin;
`ResolvePatchableEntries`, `WritePatchTableAnew`, `WritePatchTableFile` and
`CrossCheckScaffold` are common to both; a release goes on with
`FlutterBuildIOS` (with its outcome, a late failure included),
`IdentifyBaseline`, `WriteBaseline`, `EnsureControlPlaneSetup` (answers and
listings may be lost); a patch with `AssertManifestMatchesBaseline`,
`VerifyPatchInputs`, `CompilePatchBytecode`, `PublishEngineBundle`. `EditTree`
and `KillLane` come anywhere. `apps`, `patched` and `strays` are history: a
release whose id was recorded anew in another file than its baseline's is the
exception of `IndicesLand`, since a baseline is only immutable within the file
that `--out` names.

### AndroidRelease and AndroidPatch

*State.* On the control plane `registered` and the uploaded artifacts; in the
project the source, version and build output; locally the snapshot of each
release, the names map and its record, the flavor record, `cli-state.json`
(`last`) and the pins of `soroq.lock`; one running command; the bounds in
`used`. An artifact is its version, flavor, source, toolchain and names.

*Actions.* `StartRelease`, `Preflight` (`Verdict`, `CollisionGuard`), `Build`,
`Inspect`, `CommitMap`, `CommitRecord`, `Create`, `Upload`, `Stash`,
`RecordFlavor`, `SaveState`, `PinLatest`, `PinFlavor`; `StartPatch`,
`EarlyBuild`, `Base`, `StashBase`, `Plan`, `PatchBuild`, `Verify`, `Publish`;
and what happens around them: `Edit`, `Checkout`, `Setup`, `FreshClone`,
`Kill`. `marks` (history) names the circumstances under which a guarantee is
known not to hold; each property says which it excepts.

### DeliveryGates and AndroidDelta

`DeliveryGates`: a release is built for the ABIs of its stack, sources change
in up to `MaxChanges` places, and a candidate is built. `NativeLibrariesMatch`,
`NativeBlockers` and `ToolNativeDrift` are the three comparisons of libraries;
`ChangedAssets`, `DifferingAssets` and `AssetDrift` those of assets;
`ChooseLane`, `CheckGlyphs`, `CheckDependencies`, `CheckAssetDrift`,
`BuildCodeBundle` and `BuildAssetBundle` are the command.

`AndroidDelta`: `phase` runs through the passes of a strategy. The search
(`ScanRun` and `ScanResync` of V1; `ScanByte` and `ScanCopy` of the anchors and the
suffix array) accepts one run, byte or copy a step; `EndPass`, `CoalesceOp` and
`NextPass` are what lies between two passes; `AddOp`, the sparse pass
(`SparseKeep`, `SparseKeepAll`, `SparseRun`, `SparseEnd`) and the reuse of output
(`ReuseKeep`, `ReuseByte`, `ReuseCopy`, `ReuseEnd`) rewrite one op at a time, or one
run or byte of it; `EncodeOp` and `Encode` write the format of the version, `Open*`
and `Decode` are its decoder with every refusal it has, and `VerifyDelta` compares.
What the code decides by compressed size is a free choice, so that the result holds
for every compressor. Thresholds are constants, scaled down for TLC (below), and so
is Go's `^` (`ByteXor`), of which only is assumed that it undoes itself. A number of the
control stream is one item, since nothing transforms that stream; in a sparse payload,
which travels in the transformed add stream, it is the bytes of `Uvarint`, of which
only is assumed that no two numbers begin alike and that none is empty, as of the
varints of `encoding/binary`.

### DependencyGate

`wants`, `pick` and `local` are pubspec, the releases pub chose, and path
packages; `lock` and `config` the two files the walk reads, which a pub run of
the developer may leave in disagreement (`Mixed`). The breadth-first walk is
the least set with the roots that is closed under the edges of what it can
resolve (`Walk`), and the resolver fails when one of these cannot be resolved
(`Resolves`). `Release` records the closure (`ResolveAt`); `Plan` describes the difference (`BuildDescriptor`),
classifies each package (`ClassifyDelivery`) and decides (`Assess`);
`CandidateBuild` and `Revalidate` resolve again and compare
(`MatchesCandidate`). A digest is the value it is a digest of. Nothing digests
the files of an SDK package beyond its pubspec: `DependencyAssumption` has one
of each version, since a patch is built by the toolchain its release is pinned
to. A package that comes from another source is another package for the code,
whatever its files, and so for the properties.

### FreehandRelease, FreehandPatch, FreehandPlan

The first two have commands that share one project: the activation file, the
staging files of map and graph under `.soroq/build`, the flutter build
directory, `build/ios`, the baseline store and the artifact store. Releases go
through `Prepare`, `Compile`, `Snapshot`, `Verify`, `SourceKernel`, `Persist`,
`Publish`, `Deliver`, `Adopt`, `ReadFonts`, `ClearFonts`, `CopyFonts`, `Sign`,
`Host`, `PutIPA`; patches through `Plan`,
`StartCandidateBuild`, `Prune`, `BuildForIcons`, `CheckIcons`, `CheckFolds`,
`Generate`, `Store`. `BuildFails`, `ReleaseFails` and `CandidateBuildFails` are
the error returns. The baseline store is shown to implement `WriteOnceStore`
(`BoundOnce`); the artifact store, whose directories are named by what is in
them, only grows in the model.

The fonts kept beside a baseline are replaced as the code does it: read from the
app, removed one after the other, written one after the other, with an error or a
kill possible between any two of these. `side[v].fonts` says which app they are of
and whether all of them are there. A version may be released again, so this
also happens to one that is hosted already. `marks` tells the two cases apart:
`cut` is a release that ended before its fonts were kept, and `bare` one that
ended between the removal and the first copy with the version shipped or about
to be; `FontsBeforeHosting` excepts only the second, `IconsShip` both (section 5).

`FreehandPlan` is the analysis of one patch: a base with inlined copies, folds
and literals, an edit of some declarations, and the steps in the order of the
code: diff, expansion over the dependency map, pruning by fingerprints,
engine redirects (R12), the ABI gates, the written entries, the translation of
names with the receipt of an obfuscated base, the artifact and its
verification. Bases differ in what their engine recorded (map, fingerprints,
calls, swaps), because each missing file has a rule of its own.

What the compiler folded into a declaration (`folds`) and which constants its
source writes (`literals`) are independent: a reader may have both, itself or in a
part that was inlined into it. The fold check sees only object pools and sources,
so `FoldedInto` lets a value pass (`LetPass`) when any part of the reader writes
the literal (`Explained`), and when it left its owner by a route that the owner's
source does not name (`quiet`). These are two of the residuals that
`freehand_foldcheck_patha.go:74` to `:79` states, the first of them pinned by
`TestPathAResidualSharedLiteralIsAccepted`. `NothingStale` excepts these two and
nothing else of what was folded (`HoldsOldValue`); both are reached in the run, and
without either exception it fails.

### Login and ProjectKeys

`Login` has `config.json` and the fixed temporary file, the keychain by
control plane, the tokens that are valid, and commands at their steps: the
wait at the loopback port with its timeout, exchange, keychain or file,
`Write`/`Rename`; revoke, forget and remove of a logout; refresh, reload and
send of a request. `SaveFails` and the second disjunct of `Remove` are the error
returns of `saveAuthConfig` and `os.Remove`: the keychain has changed by then. A
command that fails so is a *slip* (`last.slips`): until the next login or logout
succeeds, what config.json leads to may be the token that a slipped login put in
the keychain under the same control plane, or nothing, after a slipped logout;
`SessionIsLast` says that it is otherwise the last success's, and nothing else is
excepted of commands that run one at a time. `Revoke` sends the token to any
control plane, as `--api` has it, and records that it was sent: `sent` has for each
request and each revocation the token, the control plane it went to, and whether
`--api` named another than the credential's own (`named`). One that is sent
elsewhere, or whose sending fails, revokes nothing (`unrevoked`).

`ProjectKeys` has the seed file, `.gitignore`, the trusted keys of
`soroq.yaml`, the key pinned in the last base, and up to two commands of
`init`, `doctor`, release, patch and rollback, each at its write; a kill
leaves an empty seed, a cut `.gitignore` or an empty `soroq.yaml` where the code
writes in place. `.gitignore` is read, truncated and written in three steps.

## 3. Runs, bounds and fairness

Every run checks one question per property; most properties are conjunctions of
named parts, each commented where it is defined. `expect: violation` runs are
section 5.

| Run | Properties | Bounds |
|---|---|---|
| `pub_solo` (78 000 states) | `NothingServedMismatched`, `NoSilentNoOp`, `DeviceOnlyMovesForward`, `DeviceCatchesUp`: one operator, whatever is killed, lost or rolled back | 1 runtime, channel, release; 2 artifacts; 3 patches |
| `pub_race` (461 000) | `AnnouncedVersionsIncrease`, `SignedNotAhead`, `FreshAfterListing`, `GateNamesARealRace`, `ImplementsLedger` | 2 operators, 2 artifacts, 3 patches |
| `kills` (83 000) | `DeveloperLockKept`, `WaitEnds`; `BinariesKept`; `EndsWhole` of both | builds: 2 processes, 3 builds, 2 kills, 2 developer locks, both kinds of lock; updates: 1 process, 3 versions (0 to 2), 2 kills, 2 faults |
| `store` (2.3 M) | `RecordsHold`, `PlatformsCoexist`, `DamagedOnPurpose` | 2 processes, 3 commands of which the first 2 may overlap, 2 platforms, 2 generations, 1 pin, 1 kill |
| `config` (2.3 M) | `OriginalSafe`, `BuildsAsFlavored`, `RepairedBeforeUse`; `IndexedHolds` | flavors: 2 processes, 3 commands, 2 declared channels, 1 edit, 1 kill; indexed lane: 2 processes, 2 releases, 1 patch, 2 lists of the same two functions, 1 engine |
| `android` (2.8 M) | `BaseIsTrue`, `NamesSurvive`, `FlavorsApart`; `Lossless` | records: 3 commands, 2 versions, 2 flavors (one unnamed), 2 toolchains, 3 sources, 1 clone, 1 fault, and at most 3 edits, setups and faults together; delta: bases empty or of 3 bytes, candidates empty, of 2 and of 4, 13 strategies |
| `freehand` (1.6 M) | `OneBuild`, `PatchesFit`, `ActivationEnds`, `BoundOnce` | 2 releases, 1 patch, 2 sources, 2 versions; in turn with 2 edits and 2 faults, or 2 at a time with 1 edit and 1 fault |
| `login` (982 000) | `SessionHolds`, `OwnTokensOnly`, `LoginEnds` | 2 logins, a logout, a request, 2 control planes, 1 fault |
| `gates` (769 000) | `DescriptorIsTrue`, `DeliversWhatChanged`; `PatchIsComplete`, `GatesAgree`; `NothingStale`, `RedirectsAreExact`; `SetupIsTrue`; `KeysHold`, `SeedStays` | 3 packages, 2 edits; 2 ABIs, 2 changed places; 3 declarations of which 2 change, six kinds of engine; 2 platforms, 2 revisions, 1 publication, 1 bad reply; 2 key commands, 2 keys, 1 fault |

*Why these bounds are enough.* The defects these modules could have need few
actors: a race needs two operators and a third patch to show a device going
back; an interrupted update needs one kill to leave files, and a second to hit
the repair; a pointer race needs two commands, and its consequences one more.
Three patches give a served patch, one rolled back and one that replaces it.
Three Android commands are a release, a release of another version or flavor
that disturbs its records, and the patch that reads them; three sources let
the tree be neither the base's nor the last release's. Two iOS releases and a
patch are the pair that shares the staging files, and the reader of what they
left. What two commands leave one another when they come in turn takes more edits
and faults to show than what they do to one another at once, hence `MaxRacing`. Three declarations are
one that changed, its holder and the holder's holder, or two copies of one. Two platforms and two revisions are what
"from one catalog" and "for that revision" can fail on. A payload of four
bytes with scaled thresholds contains a copy, an insert between two copies, an
add, and a reuse of the output.
`RacingRuns` limits which commands of `store` overlap, so that a third
command that runs alone afterwards still meets what a race left. In `pub_race`
the device is left out of the state fingerprint (`OperatorView`): no operator
step and no invariant of that run reads it.

*Scaled constants of `AndroidDelta`.* The code has seeds of 16 bytes, minimal
copies of 32 and 40, 64 offsets per anchor and so on; the run has
`SeedBytes = 1`, `MinCopy = 1`, `MinCopyLong = 2`, `MaxOffsets = 1`,
`AnchorStride = 1`, `MinAnchor = 2`, `MinTailAnchor = 1`, `Lookahead = 3`,
`MinAdd = 1`, `MinSparse = 2`, `AddRadius = 1`, `MinReuse = 2`,
`ContextRadius = 1`, and bytes modulo 4 with the exclusive or of two bits
(`MCByteXor`) and varints with one bit of the number in each byte (`MCUvarint`), so
that an offset past 1 takes two bytes. The algorithms only compare with these
constants, and every comparison goes both ways in the instance.

*Bounds by name.* `MaxPatches`, `MaxVersion`, `MaxSource`, `MaxFaults`,
`MaxKills`, `MaxRuns`, `RacingRuns`, `MaxEdits`, `MaxCommands`, `MaxSetups`,
`MaxClones`, `MaxRunning`, `MaxRacing`, `MaxChanges`, `MaxChanged`, `MaxDepEdits`,
`MaxEvents`, `MaxBadReplies`, `MaxKeys`, `MaxKeyFaults`, `MaxUpdateKills`,
`MaxLaneReleases`, `MaxLanePatches`, `MaxDisturbances`. All of them are guards
of actions. Where they stop every behaviour in the end the cfg sets
`CHECK_DEADLOCK FALSE`: a command line tool that nobody runs is at rest, not
stuck. `android` and `gates` end in states that may be started over, and check
deadlock.

*Fairness.* `Publication!FairSpec` assumes weak fairness of `DevicePoll` only:
a device polls as long as it runs; no operator is obliged to go on.
`BuildResolution!FairSpec` (in `KillsSpec`) assumes that a build that can take
a step does, as the operating system's scheduler grants; nobody is obliged to
start a build, to kill one or to edit. The bounded wait of the Windows lock
ends by its own timeout, and the Unix lock is released by the kernel when its
holder dies. `Login!Fairness` is weak fairness of each command's own steps, the
timer of the wait among them; the browser and the operator owe nothing, and a
login ends all the same. After the wait this takes the control plane for one that
answers or drops the connection, since the client of the exchange has no timeout
of its own. The other modules have no liveness property: a command
that is killed owes nothing.

*Mutants.* For every property of a passing run one definition is replaced by a
mutated form, and TLC must find the property violated. They are bugs that could
be written: a rolled-back number used again, a repair that overwrites a binary
in place, a build lock that excludes nobody, a record of a swap written after
the swap, the pin of the latest release for any base, a staged map not removed
before a build, a keychain entry under another control plane's name, an index
that does not grow with the output, dev dependencies walked as runtime ones,
only direct holders added to a patch, gates run before the framework's
redirects, Dart revisions not compared, a seed created without O_EXCL.

## 4. What is proved

Every theorem holds for every value of the constants that its module's named
assumption allows: any number of processes, versions, flavors, kills, faults.
What a theorem assumes beyond that is in the second column; sections of the
code that it leaves out of its reach are listed after the table.

| Theorem | Under | States |
|---|---|---|
| `PublicationProofs!TypeCorrect` | | `Spec => []TypeOK` |
| `PublicationProofs!AnnouncedRise` | | `Spec => []AnnouncedVersionsIncrease` |
| `PublicationProofs!PublicationImplementsLedger` | | `Spec => Ledger!Spec` |
| `PublicationProofs!NeverAhead`, `Fresh`, `GateIsRight` | `DefaultFlags` | `SignedNotAhead`, `FreshAfterListing`, `GateNamesARealRace` |
| `PublicationProofs!NothingIsMismatched`, `NoPatchIsIgnored`, `DevicesMoveForward` | `DefaultFlags`, `OneOperator` | `NothingServedMismatched`, `NoSilentNoOp`, `DeviceOnlyMovesForward` |
| `KillsProofs!ResolutionInvHolds`, `InstallsAreWhole` | | the inductive invariant; `[][InstallsTogether]_vars` |
| `KillsProofs!DeveloperLockIsKept` | `~EditsAfterKill` | `Spec => []DeveloperLockKept` |
| `KillsProofs!BinariesAreKept`, `UpdatesEndClean` | `OneUpdater` | `BinariesKept`; `[][EndsClean]_updateVars` |
| `KillsProofs!WhatEndsIsWhole` | `OneUpdater` | `KillsSpec => EndsWhole` |
| `ToolStoreProofs!RecordsAreKept`, `PlatformsStay`, `OnlyOnPurpose` | | `RecordsHold`, `PlatformsCoexist`, `DamagedOnPurpose` |
| `GatesProofs!OriginalIsSafe`, `BuildsAreAsFlavored`, `RepairComesFirst` | | `OriginalSafe`, `BuildsAsFlavored`, `RepairedBeforeUse` |
| `FreehandProofs!IndexedLaneHolds` | | `IndexedSpec => []IndexedHolds` |
| `AndroidProofs!BasesAreTrue`, `NamesDoSurvive`, `FlavorsStayApart` | | `BaseIsTrue`, `NamesSurvive`, `FlavorsApart` |
| `DeltaProofs!DeltaIsLossless` | | `DeltaSpec => []Lossless` |
| `FreehandProofs!BuildsAreOne`, `PatchesDoFit`, `ActivationIsEnded` | | `OneBuild`, `PatchesFit`, `ActivationEnds` |
| `FreehandProofs!BaselinesBoundOnce` | | `Spec => BoundOnce`: the baseline store implements `WriteOnceStore` |
| `GatesProofs!SetupHolds` | | `CatalogSpec => []SetupIsTrue` |
| `GatesProofs!PatchesAreComplete`, `GatesDoAgree` | | `PatchIsComplete`, `GatesAgree` |
| `GatesProofs!NothingIsStale`, `RedirectsAreThePlan` | | `NothingStale`, `RedirectsAreExact` |
| `GatesProofs!DescriptorsAreTrue`, `PatchesDeliverWhatChanged` | | `DescriptorIsTrue`, `DepSpec => DeliversWhatChanged` |
| `LoginProofs!TokensAreOwn`, `TheSessionHolds` | | `OwnTokensOnly`, `SessionHolds` |
| `LoginProofs!TheKeyIsOne`, `TheSeedStays` | | `KeysHold`, `SeedStays` |

*Hypotheses, and why.* `DefaultFlags` and `OneOperator` are necessary: section 5
has what happens without. `OneUpdater`: nothing in the code excludes a second
`soroq update`, and it takes a running one for an interrupted one.
`~EditsAfterKill`: a lock that the developer writes while a killed build's
sidecar is there is overwritten. The exceptions that are part of a property
(`overtaken` of `FlavorSwap`, the refreshing request and the `named` logout of `OwnTokensOnly`, the
slips and the overlap of `SessionHolds`, the overlap of the tool store, `LetPass` and
`HoldsStoredAndEdited` of `NothingStale`, the `marks` of the Android and
the iOS commands, `Mixed` of the graph) are states of the model, so their
theorems say what holds until and besides them.

*Assumptions on constants.* Each module names its own, and TLC evaluates it on
the run. Besides bounds that are numbers and sets that are finite they say that
the value for "none" (`Nil`, `NoFile`, `Absent`, ...) is none of the values it
stands beside, which untyped logic does not know by itself. Assumptions about
the system are the two of `CatalogAssumption` and `DependencyAssumption` named
below; that of `PlanAssumption`: a base without a map has no copies that
anyone could know of, and its copies, folds and literals are of its own
declarations (of how they lie to one another nothing is assumed); and that of
`DeltaAssumption`: payloads consist of bytes, no varint of an offset in a base is the
beginning of another or empty (`Uvarint`, section 2), `ByteXor` undoes itself, thresholds are positive, and a seed is not longer than the
shortest match that is accepted.

*The table* (`TableInv`). `AnnouncedVersionsIncrease` speaks of announced
patches only, and is not inductive: to see that the next announcement is above
the previous ones one must know that the announcing operator's row carries the
number it was allocated, and that the numbers of a scope rise with the position
in the table. `TableInv` is therefore the conjunction of the type invariant;
`NumbersIncrease`; `CounterIsHighest` (the counter of a scope is its highest
number, and some patch has it); `AnnouncedPassedGate` (what is announced is a
patch whose version is its number); and `RowBound` (an operator past its
registration holds the row it created, with the version and the scope it
signed). Most actions leave the table alone and are covered by one lemma;
`Register` appends a row, `Upload` and `PostRollback` only set marks. With any
flags the gate is then enough: announced versions are numbers, and numbers
rise.

*The refinement.* Maps `allocated` to the numbers handed out and the announced
rows, under their signed versions, to the ledger. `Register` is `HandOut`,
`Report` is `Announce` when the gate passes (here `RowBound` and
`NumbersIncrease` show that no other announcement of the scope has that
version), and everything else stutters.

*The lane, and one operator.* Predictions are only right when the listing's
channel is the registration's and no version is forced ahead; `LaneInv` adds
what an operator knows from its listing until its gate: the version it signed
is above every listed number of its scope, at most one above the counter, and
either still exactly that or another registration of the scope came after the
listing. With one operator there is none, so `SoloInv` adds that every row's
version is its number, that a number is never of two contents, and which row a
device runs: what a device takes for its own patch is then its own patch, and it
goes back only where a rollback sends it.

*Setup* (`CatalogInv`). For any platforms, revisions and version strings and any
number of publications and bad replies, under `CatalogAssumption`: a version
string is not both a frontend's and a toolchain's, and the documents have pairs
for platforms (v2: for revisions). What setup promises of a finished machine is
not inductive: while the command runs nothing says so yet of what it is going to
install. `CatalogInv` is the conjunction of `MachineInv` (what is on the disk is
what the registry serves or a version string was used twice; a recorded platform
has its parts; each recorded pair fits what was asked for) and `CommandInv` (the
phases come in order; a chosen pair is of the revision, a checked one fits the
registry; between the installers of one platform the first part is there).

*The build lock* (`ResolutionInv`). Everything rests on `Exclusive`: a build
past the lock is its holder, of the flock and of the Windows file alike. What a
build has read or written is then still so when it goes on, until `PinLock`.
`LockInv` says where the developer's lock is (in place, or in the sidecar) and
what a build at each step knows of it; `OrphansMarked` keeps apart the pubs that
outlive their killed build, from which no lock protects.

*Both* (`KillsSpec`). Every step of the composition is a step or a stutter of
each module, so it implements both specifications, and what either promises of
its steps holds together (`EndsWhole`).

*Self update* (`UpdateInv`). `Doing` relates the phase of the one running update,
and the binary it is at, to the three files of each binary; without it nothing
says that the backup which a rollback restores is there. `Copies` and `Recent`
are what survives a kill at any step: a whole copy of each binary, not older
than the newest that was verified. The proof needs that a failed rollback leaves
neither both new nor both old, and the property says so.

*The tool store* (`StoreInv`). A directory is `Safe` if it is whole, if a
command that removed it has the replacement in hand, or if a command was killed
while it removed it. No install makes a safe directory unsafe; so what was safe
when a command put it in place is safe when a pointer names it, however long
the name is on its way through the command, the temporary file and the pointer,
and whoever renames that file. This needs no order among installs, and is lost
only when a clean ran beside another command (`NoBadClean`: what a clean knows
at each step of the pointers). That platforms coexist needs more: only with one
command at a time is what a command writes the pointer it read with its own
entry changed (`NoOverlap`). `DamagedOnPurpose` is a statement about steps: a
whole directory goes only by `--force`, or as unrecorded by a clean.

*The swap* (`SwapInv`). A build that owns the swap is alone with it (`Alone`),
and a command that only repairs changes things towards the original, so that any
number of repairs may overlap. `Guarded` says of each step which of the file, the
backup and the record are there; the property excepts `overtaken`, where a repair
ran into the swap of a live build.

*The indexed lane* (`IndexedInv`). A patch fits an app because the manifest it
indexes by is the one whose digest the baseline has, and the baseline's app.dill
the one the app was built from. `CmdOK` is what each command holds on its way
whatever the others do, `AloneOK` what it holds as long as no other command
wrote what it goes by, and the history invariants tie baselines to apps.

*Android* (`AndroidInv`). One command runs at a time, but it is killed anywhere,
and the next reads what it left. `Records`, `NamesOk` and `Apart` say that what
is on record of a release is true of it: the snapshot is what was uploaded, the
pin's toolchain built it, the names map and its record are those of the hosted
artifact, and of two releases with one runtime id at most one has a flavor on
record, which is what the collision guard sees to (`Alone`). `InHand` and
`OnBase` carry this through the steps of the command at work, from where a value
is read to where it is written. `Made` says of each published patch how it was
made. Each part excepts the `marks` under which it is known not to hold.

*The code delta* (`DeltaInv`). For any base, candidate, strategy, width of a byte and
thresholds, and whatever compressed sizes decide. `Lossless` says that the ops made
so far, what is pending and what is still to be read make up the candidate, and is
not inductive: it is about what the ops yield one after another (`Plain`), which
says nothing of a single op, and it takes one op to be joined, cut or encoded. So
`DeltaInv` says of each phase which ops stand for which stretch of the candidate
(`Covers`: the places `at` where each op's bytes begin, and of each op that it
`Fits` there: base bytes that are those of the candidate, a difference that gives
them, a sparse payload whose runs are those of such a difference, a stretch of
output that came before). Besides: that the pending bytes are the candidate's
(`Spells`); how far a sparse payload has come (`RunsAt`); that the buffer of the
reuse pass is a prefix of the candidate, and what has been cut from the op at work
(`Reusing`, `Cutting`); that each stream is the parts which the encoded ops put into
it (`Holds`); and, while decoding, that each reader stands where the rest of the ops
begins in its stream (`Reading`, `Decoding`). The lemmas below it say that adding
undoes subtracting, that a sparse payload restores its difference, and that each
transform of the add stream is undone and never refused by its decoder
(`DeltaRestored`, `XorRestored`, `BitplaneRestored`, `BitplaneFitsIt`,
`OneOtherRestored`, `OneOtherFitsIt`). A reader of a sparse payload finds the runs that
were written because it finds where each number ends (`NumberIs`, `RunOn`): this is all
that is needed of a varint. Nothing here is an induction over data by an
induction theorem: what a recursive function gives is stated by a function that
witnesses it (places, rests of a stream), and the least number for which it failed
would contradict its own predecessor (`LeastOf`).

*iOS commands* (`FreehandInv`). In any interleaving a command may rely on what is
recorded, since a baseline is bound once and nothing beside it goes away
(`Recorded`, `Records`); and as long as nobody was killed somebody still owes
each activation its end (`Owed`). The files of a build are shared by all
commands; only while commands ran one at a time is it known what they hold at
each step (`Doing`), that a baseline is of one build and what ships is of it
(`OfOneBuild`), that patches lead to the developer's tree (`OfTheTree`), and that every baseline
has the fonts of its build but by the release still at work (`FontsKept`; not once
one was `cut`). That a version which ships, or is about to, has fonts at all holds in any
interleaving (`AllCovered`): no release gets from its first copy to the registration
without them, and what another removes meanwhile it writes anew, or ends `bare`.

*The delivery gates* (`LaneInv`). Most of the work is in lemmas about any two
artifacts of any stacks: which paths a build has (`PathsOfBuilt`), what category
each falls in (`CategoriesOfBuilt`), that artifacts without drift agree wherever a
code patch carries nothing (`NoDriftIsSame`), that the planner's and the builder's
comparisons come to the same (`PlannersDoAgree`), and that a change of Dart code
alone passes them all (`OnlyDartPasses`). The invariant only carries from stage to
stage what was compared, and why the command was refused.

*The plan* (`PlanInv`). The expansion over the dependency map is the least set that
holds the edited declarations and every holder of a copy from it (`AbsorbersHold`,
`AbsorbersClosed`, `AbsorbersLeast`), which replaces induction along the chain of
copies. The invariant follows the changed set: `Diffed`, `Expanded`, `Pruned` (all
that the edit made stale is in it, and once code was compared nothing else but
what the framework's change calls for), `Honourable` (what the gates let through)
and, whatever becomes of the artifact's files, `Bound`: only a module that installs
the plan is published.

*The dependency graph* (`DepInv`). `BaseIsShipped`: the base's graph has the
packages that were compiled, each described by what was compiled of it.
`DifferenceShows` is the lemma it is for: of two copies of a package that may be
compiled, the graph's entries differ exactly when the copies do; this is where
pinning is needed, and the assumption about SDK packages. With one resolution the
packages found are those the compiler finds (`FoundIsCompiled`, from the closure
lemmas `ReachLeast` and `ReachAgrees`), so the changed packages are the differing
ones, and a descriptor without a forbidden package is one that can be delivered
(`ChangedIsDiffering`). `OwnDescriptorValid` holds of any two graphs.

*Keys* (`KeysInv`). Says for each step of a command where the key that it holds
is already, and where not yet: an `O_EXCL` creation makes at most one of two
commands the creator, so that a seed which is neither empty nor ignored has a
command that is about to ignore it.

*Login* (`LoginInv`). `Typed`; `Home`: whatever is stored or in hand, in
config.json, in the temporary file, in the keychain or in a request, says where
it belongs; `Unissued`: a login that was issued nothing is nobody's token, so
that a fresh token is nobody else's; `Alone` and `Revoked`: what is stored at
each step of a login or logout as long as no other command runs. While a login or
logout is between the keychain and config.json, `Phase` says that the session is as
it was, *with this command among the slips*: what it will be if the next step fails.

The lemmas state what the helper operators return (`NextIsOneAbove`,
`ListingHasTop`) and what steps may do to a part of the state
(`MarksKeepTable`, `RegisterAppends`); in each module one lemma per action shows
that it keeps the inductive invariant.

## 5. Where code and words disagree

Each of these is a run in which TLC finds a state that a comment of the
repository excludes. The counterexamples are short, and were read back against
the code.

| Run | What happens |
|---|---|
| `forced_caller` | "A caller that absorbed (inlined) a FORCED declaration is forced too" (`freehand_dependency_map.go:870`) is done for the callers that the expansion added, not for one that is in the diff on its own account. When that one's edit left its machine code alone it is pruned, and the copy of the stored value in it stays. |
| `one_generation` | "ONE verified document for the whole invocation" (`setup_cmd.go:130`): when v2 is not published, the fallback fetches the v1 catalog once for each platform, and a publication in between gives a pair of each generation. |
| `stale_dill` | "A genuine pre-app.dill compile failure returns (\"\", err)" (`ios_local_engine.go:456`): when the build fails before the compiler, the newest `app.dill` of any earlier build is found and taken for the one this build wrote, and the release records its digest. |

The following were found by runs or counterexamples of the same modules and are
kept as exceptions in the properties rather than as runs of their own:

* the gate that compares version and number runs after the upload and takes
  nothing back: with two operators a bundle with a mismatched version stays
  served, against "Nothing was served with a mismatched version"
  (`freehand_manifest_version.go:122`); and `--channel` changes the channel of
  the registration, not that of the listing, so that with one operator the
  gate blames a race;
* a kill between the two renames of an update, and the repair that decides for
  each binary alone, leave a new `soroq` with an old `soroqctl`, against
  "always both-new-or-both-old" (`selfupdate.go:390`); a second `soroq update`
  takes a running one for an interrupted one; a rollback in which a rename
  fails leaves neither; an update killed after `soroq`
  is backed up leaves no `soroq` to run the repair (the copy is in
  `.soroq.bak`);
* the lock a developer writes after a killed build is replaced by the sidecar's
  older one (`EditsAfterKill` is FALSE in `kills`); a pub that outlives its
  killed build rewrites the lock after the next build restored it; a project
  without a lock keeps the one that a failed pub get wrote;
* two setups at a time: the later write of `active.json` drops the platform the
  earlier one recorded, or leaves a file that does not parse; a setup whose
  second platform fails leaves the first recorded, against "never record a
  partial set"; a clean that read the pointers before an install recorded its
  version deletes that version; a torn frontend whose markers are still there
  passes the re-verification;
* a command that starts while a flavored build is backing up takes the swap
  directory for an abandoned one; a kill within the final RemoveAll can leave
  `swap.json` without its backups; an edit during a swap is overwritten;
* Android: a snapshot is taken from the build output again after the upload; a
  rerun whose listing failed overwrites the committed names; a release killed
  before its flavor was recorded accepts a patch of any flavor; a release
  killed between registration and upload can only be completed with
  `--artifact`; a fresh clone builds with the latest pin's toolchain and has
  no obfuscation record; whether a release is a rerun never depends on the
  current source;
* lanes: `classes.dex` is compared by no gate, although
  `android_dependency_gate.go:7` refuses plugin-registration changes;
  `--allow-asset-diffs`, which the refusal for a missing glyph recommends, is
  refused by the check right after it; assets that were removed stay on the
  device;
* dependencies: a package that leads back to the app's own package gives an
  edge that `Validate` refuses; a release with a lock and a package config of
  two resolutions passes a changed package;
* iOS: inputs are digested before the source kernel is compiled, so that an
  edit in between gives a baseline of two sources; a concurrent release that
  removes the staging files makes a build record an empty map; a release
  killed before its fonts are kept leaves a base that the icon check passes
  over; so does, against "A baseline without it predates tree-shaken icon fonts"
  (`icon_glyph_guard.go:104`), a second release of a version that is hosted already,
  when it is killed or fails between removing the fonts kept for the first (`:158`)
  and writing its own; one that ends while it writes them leaves a part, by
  which a patch may be refused for an icon that ships; a deferred removal of the
  activation file deactivates the build of another command; an obfuscated release
  killed after its publication cannot be repeated;
* redirects: what R12 adds is not expanded over the dependency map again, and
  expansion precedes pruning, so that a cosmetic change whose copy is in frozen
  code refuses the patch;
* the fold check lets pass what its header says that it cannot tell
  (`freehand_foldcheck_patha.go:74`): a reader into which an old value was folded
  and which, itself or in a part inlined into it, writes the same literal; and a
  value that left its owner by a route the owner's source does not name. The patch
  goes out and the reader keeps the old value;
* login: requests keep to "A STORED credential names the control plane it was issued
  for and must not travel anywhere else" (`auth_cmd.go:661`), but `soroq logout
  --api` (`auth_cmd.go:397`) sends the stored token to whatever base it is given,
  so that the control plane which issued it goes on accepting it while it is forgotten
  here; a request that refreshes while a login or logout runs writes an old
  token into the new login's file, or brings a removed one back; a second login
  does not revoke the first one's token; a login that cannot save config.json has
  replaced the token in the keychain, so that the old config.json leads to the
  token of a login that reported failure; a logout that cannot remove config.json
  leaves one whose token is gone, and says so as an error;
* keys: `init` takes an existing seed for an ignored and trusted one and never
  repairs what a kill left between these writes, an empty seed included; `.gitignore` is rewritten in place and a kill cuts it; an
  overridden seed, or a rollback after a fresh clone, signs with a key that
  devices reject; `init --force` renders `soroq.yaml` without the key;
* setup: installers fetch the manifests again after the preflight; v1 does not
  check that a pair is of one revision; nothing keeps an older signed catalog
  from being served again.

## 6. What is only model-checked, and what is not modelled

*Only model-checked.* Liveness (`DeviceCatchesUp`, `WaitEnds`, `LoginEnds`),
which is out of the prover's reach. Every other property of a passing run is stated by a theorem of section 4.
The hypotheses are the ones in its table, and each describes the circumstances
of the run that checks the property (one operator, one updater, no edit after a
kill).

*Not modelled*, by choice: cryptography and parsing (a signature or digest
check is a step that succeeds or ends the command); download and extraction
beside the place they end up in; output and argument handling; the compilers;
IPA signing and the bootstrap of the iOS engine lane (files generated whole
from templates), the project model, status and readiness, reports and the front
door (readers that write nothing shared), `soroqctl`'s benchmarks and
one-shot transformations, and the Windows installer. The reason is given for
each component in `PROJECT.json`.

Within the modelled components these are left out:

* Publication: `--emit-signed-manifest` and `--verify`; BuildResolution: the
  contents of locks and resolutions, and the compilation that reads the
  installed resolution after the lock was released; ToolStore: frontend
  candidates, temporary directories of killed installs (a clean skips them),
  I/O errors in RemoveAll, `uninstall`;
* Catalog: key rings and the external signer, the publisher's commands, the
  readable version beside a revision; reading the two manifests of a pair is
  one step;
* FlavorSwap: process ids that are used again, the fixed temporary name of
  `writeFileAtomic`, native frontends (they swap nothing);
* IndexedLane: which functions of the list are in the patch's library (all of
  them are indexed), the version of the manifest, its signature and key, the
  names and schemas that tell a baseline from a freehand one, releases without
  `--api`, the archive handoff and signed IPAs, the parsing of entries, the
  dynamic interface, the refusal of an obfuscated base, the `app.dill` of other
  build configurations, a baseline cut short by a kill;
* Android: several apps, explicit release ids and versions, builds of an IDE
  during a command, `--upload-artifact=false`, platforms after one another;
* AndroidDelta: V15 (bsdiff, a library) and the bundle archive;
* DeliveryGates and DependencyGate: edits of the pub cache; the candidate is
  read once, although each gate opens it again;
* freehand: several schemes, carried libraries, interface validation, whatever
  the kernel diff reports beyond declarations that changed, were added or
  removed; the hash of the object graph, which the code does not verify; of the
  fold check, what it falls back to when `app.dill` is missing or cannot be decoded
  (it only refuses more), and the third thing its header says that it does not
  catch: a patch that newly passes another value to a base member whose parameter
  was taken for a constant, or revives a call that was pruned;
* Login: credentials from the environment, several files (`--config`); ProjectKeys: edits of `.gitignore`, keys a developer adds.

## 7. Plan

Done: every component in which the order of steps matters has a module, and the
safety and action properties of all of them are proved. To come, in this order:

1. What is left of the guarantees when a hypothesis or an exception applies: two
   updates at a time still lose no copy of a binary or do, two setups at a time
   lose at most the other's platform, and so on, each as a property, a run and a
   theorem.
2. The abstract specifications that other modules could implement: a tool store
   whose versions appear and disappear whole, a session that is one value.
3. The components that are modelled in part (section 6), where a module would say
   something about the order of steps.
