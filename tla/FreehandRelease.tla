--------------------------- MODULE FreehandRelease --------------------------
(***************************************************************************)
(* `soroq release ios --engine --build' (freehand_release.go) and the      *)
(* baseline store under .soroq/releases (freehand_baseline.go): a flutter  *)
(* build, the records its gen_snapshot leaves, and the immutable baseline  *)
(* later patches are compiled against.  FreehandPatch extends this module  *)
(* with `soroq patch ios --engine' and the next-state relation.            *)
(*                                                                         *)
(* Several commands may run in one project; the code shares with all of    *)
(* them the activation file, the staging files under .soroq/build, the     *)
(* flutter build directory and build/ios.  Each command runs once and can  *)
(* be killed.  A source is a number; two builds of one source are equal,   *)
(* except that an obfuscated build picks names of its own.                 *)
(***************************************************************************)
EXTENDS Naturals, FiniteSets

CONSTANTS
    Nil,         \* no file, no record
    Releases,    \* the release commands
    Patches,     \* the patch commands
    Inlining,    \* the sources whose build inlines patchable code
    NewIcons,    \* the sources that draw an icon the others do not
    MaxSource,   \* bound on the sources of the project
    MaxVersion,  \* bound on the versions in pubspec.yaml
    MaxEdits,    \* bound on the developer's edits
    MaxFaults,   \* bound on kills and failed steps
    MaxRunning,  \* bound on the commands that run at once
    MaxRacing    \* bound on edits, and on faults, of a project in which two ran at once

Cmds == Releases \cup Patches
Sources == 1..MaxSource
Versions == 1..MaxVersion

(* What gen_snapshot makes of a source: the names are those of the command *)
(* that built it when it obfuscates, Nil when it does not.                 *)
Images == [source : Sources, names : Releases \cup {Nil}]

(* The dependency map of a build; its gen_snapshot writes the file at the  *)
(* first edge, so a build that inlines nothing leaves none.                *)
Edges(s) == IF s \in Inlining THEN s ELSE 0

Baselines == [dill : Sources, manifest : Sources, kernel : Sources,
              edges : {0} \cup Sources, names : Releases \cup {Nil}]

(* An app under build/ios or in an IPA, and the identity stamped in it.    *)
Apps == [image : Images, identity : Versions \cup {Nil}]

(* The icon fonts kept beside a baseline: the source of the app they were  *)
(* read from, and whether all of them are there.                           *)
Fonts == [of : Sources, whole : BOOLEAN]

(* What the engine lane records of a version.                              *)
LaneRecords == [dill : Sources, manifest : Sources]

ASSUME FreehandAssumption ==
    /\ Releases \cap Patches = {} /\ Nil \notin Releases \cup Patches \cup Nat
    /\ Nil \notin Images \cup Baselines \cup Apps \cup LaneRecords \cup Fonts
    /\ MaxSource \in Nat \ {0} /\ MaxVersion \in Nat \ {0}
    /\ MaxEdits \in Nat /\ MaxFaults \in Nat /\ MaxRunning \in Nat /\ MaxRacing \in Nat
    /\ Inlining \subseteq 1..MaxSource /\ NewIcons \subseteq 1..MaxSource

VARIABLES
    tree,       \* the project: its source and the version in pubspec.yaml
    activation, \* .soroq/freehand_config.json exists
    staged,     \* .soroq/build: the dependency map and the object graph
    kernel,     \* the app.dill of the flutter build and whether it was analysed
    app,        \* the .app under build/ios and the identity stamped in it
    base,       \* .soroq/releases: the baseline of each version
    side,       \* what is kept beside it: object graph and icon fonts
    lane,       \* the engine-lane record of each version
    hosted,     \* the versions registered with the control plane
    ipa,        \* the signed IPA of each version
    artifacts,  \* .soroq/patches
    cmd,        \* what each command is doing
    marks,      \* what has happened that a guarantee excepts (history)
    used        \* edits and faults so far (bounds)

shared == <<activation, staged, kernel, app>>
records == <<base, side, lane, hosted, ipa>>
vars == <<tree, activation, staged, kernel, app, base, side, lane, hosted, ipa,
          artifacts, cmd, marks, used>>

Fresh == [at |-> "idle", inputs |-> Nil, version |-> 1, obfuscate |-> FALSE,
          profile |-> FALSE, prunes |-> FALSE, dill |-> 0, kernel |-> 0, edges |-> 0,
          image |-> Nil, core |-> Nil, icons |-> 0, signed |-> Nil]

Init ==
    /\ tree = [source |-> 1, version |-> 1]
    /\ activation = FALSE
    /\ staged = [edges |-> Nil, graph |-> Nil]
    /\ kernel = Nil /\ app = Nil
    /\ base = [v \in Versions |-> Nil]
    /\ side = [v \in Versions |-> [graph |-> Nil, fonts |-> Nil]]
    /\ lane = [v \in Versions |-> Nil] /\ hosted = {}
    /\ ipa = [v \in Versions |-> Nil] /\ artifacts = {}
    /\ cmd = [c \in Cmds |-> Fresh]
    /\ marks = {} /\ used = [edits |-> 0, faults |-> 0]

-----------------------------------------------------------------------------
Ended == {"idle", "done", "noop", "failed", "killed"}
Active(c) == cmd[c].at \notin Ended
Running == Cardinality({c \in Cmds : Active(c)})
Go(c, step) == cmd' = [cmd EXCEPT ![c].at = step]
Set(c, r) == cmd' = [cmd EXCEPT ![c] = r]
At(c, step) == cmd[c].at = step

(* Bounds: how many commands run, and with how many edits and faults.      *)
MayStart ==
    /\ Running < MaxRunning
    /\ Running > 0 => used.edits <= MaxRacing /\ used.faults <= MaxRacing

(* What remains of a command that has ended.                               *)
Stop(c, how) ==
    cmd' = [cmd EXCEPT ![c] =
              IF how = "noop"
              THEN [Fresh EXCEPT !.at = how, !.inputs = cmd[c].inputs,
                                 !.version = cmd[c].version]
              ELSE [Fresh EXCEPT !.at = how]]

(* removeFreehandConfig is deferred: however the command ends, unless it   *)
(* is killed.                                                              *)
End(c, how) == Stop(c, how) /\ activation' = FALSE

CanFault == used.faults < MaxFaults /\ ("overlap" \in marks => used.faults < MaxRacing)
Fault == used' = [used EXCEPT !.faults = @ + 1]

Image(c) == [source |-> kernel.source,
             names |-> IF cmd[c].obfuscate THEN c ELSE Nil]

-----------------------------------------------------------------------------
(* The developer edits the source, perhaps back to what it was, and may    *)
(* raise the version (bound: not once two commands have run at a time).    *)
Edit ==
    /\ used.edits < MaxEdits
    /\ "overlap" \notin marks
    /\ \E t \in [source : Sources, version : Versions] :
        /\ t.source # tree.source
        /\ t.version >= tree.version
        /\ tree' = t
        /\ marks' = marks
             \cup {m \in {"undone"} : \E c \in Cmds : Active(c) /\ cmd[c].inputs = t}
             \cup {m \in {"late"} : \E c \in Releases : At(c, "kernel")}
             \cup {m \in {"during"} : \E c \in Patches : Active(c)}
    /\ used' = [used EXCEPT !.edits = @ + 1]
    /\ UNCHANGED <<shared, records, artifacts, cmd>>

(* A version that is hosted, or that a release is about to host.           *)
Shipping(v) ==
    \/ v \in hosted
    \/ \E d \in Releases : cmd[d].at \in {"register", "lane", "ipa"} /\ cmd[d].version = v

(* From the baseline to the fonts beside it.                               *)
Keeping == {"deliver", "adopt", "fonts", "clear", "copy"}

(* A release that ends before the fonts are kept is cut; one that ends     *)
(* between their removal and the first copy leaves the version bare.       *)
Cut(c) ==
    LET v == cmd[c].version IN
    {m \in {"cut"} : cmd[c].at \in Keeping}
      \cup {m \in {"bare"} : At(c, "copy") /\ side[v].fonts = Nil /\ Shipping(v)}

(* A kill: nothing that was deferred runs.                                 *)
Kill(c) ==
    /\ Active(c) /\ CanFault /\ Fault
    /\ Stop(c, "killed")
    /\ marks' = marks \cup {"killed"} \cup Cut(c)
    /\ UNCHANGED <<tree, shared, records, artifacts>>

Overlap(c) == marks \cup {m \in {"overlap"} : \E d \in Cmds \ {c} : Active(d)}

-----------------------------------------------------------------------------
(* Mutants: the dependency map, or the graph, of an earlier build is left  *)
(* in place.                                                               *)
PrepareKeepsMap(c) ==
    /\ c \in Releases /\ At(c, "idle") /\ MayStart
    /\ \E obfuscate \in BOOLEAN :
        Set(c, [Fresh EXCEPT !.at = "compile", !.inputs = tree, !.obfuscate = obfuscate])
    /\ staged' = [staged EXCEPT !.graph = Nil]
    /\ marks' = Overlap(c)
    /\ activation' = TRUE
    /\ kernel' = Nil
    /\ UNCHANGED <<tree, app, records, artifacts, used>>

(* runReleaseIOSEngineBuildFreehand up to the build: the activation, the   *)
(* stale staging files and the build cache removed, the inputs digested.   *)
(* A developer who passes a profile flag of their own keeps the graph that *)
(* is staged.                                                              *)
Prepare(c) ==
    /\ c \in Releases /\ At(c, "idle") /\ MayStart
    /\ \E obfuscate, profile \in BOOLEAN :
        /\ ~(obfuscate /\ profile)
        /\ Set(c, [Fresh EXCEPT !.at = "compile", !.inputs = tree,
                                !.obfuscate = obfuscate, !.profile = profile])
        /\ staged' = [edges |-> Nil, graph |-> IF profile THEN staged.graph ELSE Nil]
        /\ marks' = Overlap(c) \cup {m \in {"profile"} : profile /\ staged.graph # Nil}
    /\ activation' = TRUE
    /\ kernel' = Nil
    /\ UNCHANGED <<tree, app, records, artifacts, used>>

(* The front end compiles; the analysis runs when the project is           *)
(* activated.                                                              *)
Compile(c) ==
    /\ At(c, "compile")
    /\ kernel' = [source |-> tree.source, analysed |-> activation]
    /\ Go(c, "snapshot")
    /\ UNCHANGED <<tree, activation, staged, app, records, artifacts, marks, used>>

(* gen_snapshot reads the kernel that is there and writes the app, the     *)
(* dependency map and, for a release, the object graph.                    *)
Snapshot(c) ==
    /\ At(c, "snapshot") /\ kernel # Nil
    /\ app' = [image |-> Image(c), identity |-> Nil]
    /\ staged' = [edges |-> IF Edges(kernel.source) = 0 THEN staged.edges
                            ELSE Edges(kernel.source),
                  graph |-> IF c \in Releases /\ ~cmd[c].profile THEN Image(c)
                            ELSE staged.graph]
    /\ Set(c, [cmd[c] EXCEPT !.at = "collect", !.image = Image(c)])
    /\ UNCHANGED <<tree, activation, kernel, records, artifacts, marks, used>>

(* Mutant: a failed build leaves the project activated.                    *)
BuildFailsQuietly(c) ==
    /\ c \in Releases
    /\ cmd[c].at \in {"compile", "snapshot", "collect"} /\ CanFault /\ Fault
    /\ Stop(c, "failed")
    /\ UNCHANGED <<tree, shared, records, artifacts, marks>>

(* The build fails: nothing is persisted and nothing is registered.        *)
BuildFails(c) ==
    /\ c \in Releases
    /\ \/ At(c, "snapshot") /\ kernel = Nil /\ UNCHANGED used
       \/ cmd[c].at \in {"compile", "snapshot", "collect"} /\ CanFault /\ Fault
    /\ End(c, "failed")
    /\ UNCHANGED <<tree, staged, kernel, app, records, artifacts, marks>>

-----------------------------------------------------------------------------
(* The build a release is made of: its kernel, and the dependency map it   *)
(* staged; a missing one is empty, for the build's log shows the flag.     *)
Collected(c) ==
    [cmd[c] EXCEPT !.at = "kernel", !.dill = kernel.source,
                   !.edges = IF staged.edges = Nil THEN 0 ELSE staged.edges]

(* collectFreehandDependencyMap, verifyFreehandStagingStrict, then the     *)
(* second digest of the inputs: an edit since Prepare refuses the release. *)
Verify(c) ==
    /\ c \in Releases /\ At(c, "collect")
    /\ IF IF kernel = Nil THEN FALSE ELSE kernel.analysed /\ tree = cmd[c].inputs
       THEN Set(c, Collected(c)) /\ UNCHANGED activation
       ELSE End(c, "failed")
    /\ UNCHANGED <<tree, staged, kernel, app, records, artifacts, marks, used>>

(* buildFreehandSourceKernelRecipe and generateFreehandSourceKernel: the   *)
(* source is compiled again, the version read from pubspec.yaml.           *)
SourceKernel(c) ==
    /\ At(c, "kernel")
    /\ Set(c, [cmd[c] EXCEPT !.at = "persist", !.kernel = tree.source,
                             !.version = tree.version])
    /\ UNCHANGED <<tree, shared, records, artifacts, marks, used>>

(* What is about to be persisted: app.dill is hashed again, the obfuscation*)
(* map is the one of the command's own scratch directory.                  *)
Candidate(c) ==
    [dill |-> kernel.source, manifest |-> cmd[c].dill, kernel |-> cmd[c].kernel,
     edges |-> cmd[c].edges, names |-> cmd[c].image.names]

(* persistFreehandBaselineWithDependencyMap: a baseline that is there is   *)
(* reused if every immutable input is equal, else the release is refused;  *)
(* otherwise the new one is assembled in a directory of its own.           *)
Persist(c) ==
    LET v == cmd[c].version IN
    /\ At(c, "persist")
    /\ IF IF kernel = Nil THEN FALSE ELSE base[v] \in {Nil, Candidate(c)}
       THEN /\ Set(c, [cmd[c] EXCEPT !.core = Candidate(c),
                       !.at = IF base[v] = Nil THEN "publish" ELSE "deliver"])
            /\ UNCHANGED activation
       ELSE End(c, "failed")
    /\ UNCHANGED <<tree, staged, kernel, app, records, artifacts, marks, used>>

(* Mutant: the rename replaces what another writer published.              *)
PublishOver(c) ==
    /\ At(c, "publish")
    /\ base' = [base EXCEPT ![cmd[c].version] = cmd[c].core]
    /\ Go(c, "deliver")
    /\ UNCHANGED <<tree, activation, staged, kernel, app, side, lane, hosted, ipa,
                   artifacts, marks, used>>

(* The rename that publishes it; a concurrent writer's baseline is         *)
(* accepted if it is equal.                                                *)
Publish(c) ==
    LET v == cmd[c].version IN
    /\ At(c, "publish")
    /\ IF base[v] \in {Nil, cmd[c].core}
       THEN /\ base' = [base EXCEPT ![v] = cmd[c].core]
            /\ Go(c, "deliver") /\ UNCHANGED activation
       ELSE End(c, "failed") /\ UNCHANGED base
    /\ UNCHANGED <<tree, staged, kernel, app, side, lane, hosted, ipa, artifacts,
                   marks, used>>

-----------------------------------------------------------------------------
(* deliverFreehandBaseIdentity: the identity the baseline records is       *)
(* written into the app that is under build/ios.                           *)
Deliver(c) ==
    /\ At(c, "deliver")
    /\ IF app = Nil THEN End(c, "failed") /\ UNCHANGED app
       ELSE /\ app' = [app EXCEPT !.identity = cmd[c].version]
            /\ Go(c, "adopt") /\ UNCHANGED activation
    /\ UNCHANGED <<tree, staged, kernel, records, artifacts, marks, used>>

(* adoptFreehandObjectGraph: without a staged graph, or when it cannot be  *)
(* moved, only a notice.                                                   *)
Adopt(c) ==
    /\ At(c, "adopt")
    /\ \/ /\ staged.graph # Nil
          /\ side' = [side EXCEPT ![cmd[c].version].graph = staged.graph]
          /\ staged' = [staged EXCEPT !.graph = Nil]
          /\ UNCHANGED used
       \/ /\ UNCHANGED <<side, staged>>
          /\ \/ staged.graph = Nil /\ UNCHANGED used
             \/ CanFault /\ Fault
    /\ Go(c, "fonts")
    /\ UNCHANGED <<tree, activation, kernel, app, base, lane, hosted, ipa, artifacts, marks>>

(* keepFreehandBaseIconFonts, in steps.  The fonts of the app that is under*)
(* build/ios are read ...                                                  *)
ReadFonts(c) ==
    /\ At(c, "fonts") /\ app # Nil
    /\ Set(c, [cmd[c] EXCEPT !.at = "clear", !.icons = app.image.source])
    /\ UNCHANGED <<tree, shared, records, artifacts, marks, used>>

KeptFonts(c) == side[cmd[c].version].fonts
PutFonts(c, fonts) == side' = [side EXCEPT ![cmd[c].version].fonts = fonts]

(* ... those an earlier release kept are removed, one after the other ...  *)
ClearFonts(c) ==
    /\ At(c, "clear")
    /\ \/ /\ KeptFonts(c) # Nil
          /\ PutFonts(c, [KeptFonts(c) EXCEPT !.whole = FALSE])
          /\ UNCHANGED cmd
       \/ PutFonts(c, Nil) /\ Go(c, "copy")
    /\ UNCHANGED <<tree, shared, base, lane, hosted, ipa, artifacts, marks, used>>

(* What the directory may hold while the fonts are copied: if two releases *)
(* do it at once, some of each.                                            *)
Copies(c) ==
    [of : {cmd[c].icons} \cup
          {s \in Sources : "overlap" \in marks /\ KeptFonts(c) # Nil /\ KeptFonts(c).of = s},
     whole : BOOLEAN]

(* ... and the new ones are written, one after the other.                  *)
CopyFonts(c) ==
    /\ At(c, "copy")
    /\ \E fonts \in Copies(c) :
        /\ PutFonts(c, fonts)
        /\ \/ ~fonts.whole /\ UNCHANGED cmd
           \/ (fonts.whole \/ "overlap" \in marks) /\ Go(c, "register")
    /\ UNCHANGED <<tree, shared, base, lane, hosted, ipa, artifacts, marks, used>>

(* stageSignedIOSIPA: the app is signed into a file beside the IPA; an app  *)
(* without the identity is refused.                                        *)
Sign(c) ==
    /\ At(c, "register")
    /\ IF app.identity # Nil
       THEN Set(c, [cmd[c] EXCEPT !.at = "lane", !.signed = app]) /\ UNCHANGED activation
       ELSE End(c, "failed")
    /\ UNCHANGED <<tree, staged, kernel, app, records, artifacts, marks, used>>

(* runReleaseIOSEngine as its delegate: the lane record of the version is  *)
(* written from the app.dill of the build as it is now, unless one is there*)
(* that differs; the control plane registers the version, or the call fails*)
(* and the signed file is removed.                                         *)
Host(c) ==
    LET v == cmd[c].version
        entry == [dill |-> kernel.source, manifest |-> base[v].manifest]
    IN
    /\ At(c, "lane")
    /\ IF IF kernel = Nil THEN FALSE ELSE lane[v] \in {Nil, entry}
       THEN /\ lane' = [lane EXCEPT ![v] = entry]
            /\ \/ /\ hosted' = hosted \cup {v}
                  /\ Go(c, "ipa") /\ UNCHANGED <<activation, used>>
               \/ /\ CanFault /\ Fault
                  /\ End(c, "failed") /\ UNCHANGED hosted
       ELSE End(c, "failed") /\ UNCHANGED <<lane, hosted, used>>
    /\ UNCHANGED <<tree, staged, kernel, app, base, side, ipa, artifacts, marks>>

(* Mutant: a failure to keep the fonts is only a notice.                   *)
ReleaseGoesOn(c) ==
    /\ c \in Releases
    /\ cmd[c].at \in {"fonts", "clear", "copy"}
    /\ CanFault /\ Fault
    /\ Go(c, "register")
    /\ UNCHANGED <<tree, shared, records, artifacts, marks>>

(* A step of the release after the build returns an error.                 *)
ReleaseFails(c) ==
    /\ c \in Releases
    /\ cmd[c].at \in {"kernel", "persist", "publish", "deliver", "fonts", "clear", "copy",
                      "register", "lane", "ipa"}
    /\ CanFault /\ Fault
    /\ End(c, "failed")
    /\ marks' = marks \cup Cut(c)
    /\ UNCHANGED <<tree, staged, kernel, app, records, artifacts>>

(* The signed file becomes the IPA.                                        *)
PutIPA(c) ==
    /\ At(c, "ipa")
    /\ ipa' = [ipa EXCEPT ![cmd[c].version] = cmd[c].signed]
    /\ End(c, "done")
    /\ UNCHANGED <<tree, staged, kernel, app, base, side, lane, hosted, artifacts,
                   marks, used>>
=============================================================================
