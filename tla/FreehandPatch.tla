---------------------------- MODULE FreehandPatch ---------------------------
(***************************************************************************)
(* `soroq patch ios --engine' (freehand_patch.go): the candidate kernel of *)
(* the tree is diffed against the kernel of the baseline, declarations     *)
(* whose machine code did not change are dropped after a candidate build,  *)
(* icons and folded values are checked, and a module is generated and      *)
(* stored under .soroq/patches.  The hosted publication is in the module   *)
(* Publication.                                                            *)
(***************************************************************************)
EXTENDS FreehandRelease

Artifacts == [version : Versions, by : Patches, inputs : Sources, from : Sources,
              to : Sources, graph : Images]

(* computeFreehandPatchPlan up to the digest of the inputs: the base is the*)
(* one of the version in pubspec.yaml.                                     *)
Plan(c) ==
    /\ c \in Patches /\ At(c, "idle") /\ MayStart
    /\ base[tree.version] # Nil
    /\ Set(c, [Fresh EXCEPT !.at = "candidate", !.inputs = tree, !.version = tree.version])
    /\ marks' = Overlap(c)
    /\ UNCHANGED <<tree, shared, records, artifacts, used>>

(* The source kernel of the tree, compiled and diffed against the base's.  *)
DiffCandidate(c) ==
    /\ At(c, "candidate")
    /\ IF tree.source = base[cmd[c].version].kernel THEN Stop(c, "noop")
       ELSE Set(c, [cmd[c] EXCEPT !.at = "prune", !.kernel = tree.source])
    /\ UNCHANGED <<tree, shared, records, artifacts, marks, used>>

(* A candidate is built to compare machine code, when the base recorded its*)
(* fingerprints, and for the icons, when the base kept its fonts.  The     *)
(* flutter build directory and the staged graph stay as they are.          *)
StartCandidateBuild(c) ==
    /\ At(c, "prune")
    /\ \E fingerprints \in BOOLEAN :
        IF fingerprints \/ side[cmd[c].version].fonts # Nil
        THEN /\ Set(c, [cmd[c] EXCEPT !.at = "compile", !.prunes = fingerprints])
             /\ activation' = TRUE
             /\ staged' = [staged EXCEPT !.edges = Nil]
        ELSE Go(c, "fold") /\ UNCHANGED <<activation, staged>>
    /\ UNCHANGED <<tree, kernel, app, records, artifacts, marks, used>>

(* pruneFreehandUnchangedMachineCode: if every changed declaration compiles*)
(* to the code of the base there is nothing to patch.                      *)
Prune(c) ==
    /\ c \in Patches /\ At(c, "collect")
    /\ activation' = FALSE
    /\ IF cmd[c].prunes /\ cmd[c].image.source = base[cmd[c].version].dill
       THEN Stop(c, "noop") ELSE Go(c, "icons")
    /\ UNCHANGED <<tree, staged, kernel, app, records, artifacts, marks, used>>

(* A candidate build that fails only prunes nothing; the build that the    *)
(* icons need is then tried again.                                         *)
CandidateBuildFails(c) ==
    /\ c \in Patches
    /\ \/ At(c, "snapshot") /\ kernel = Nil /\ UNCHANGED used
       \/ cmd[c].at \in {"compile", "snapshot"} /\ CanFault /\ Fault
    /\ activation' = FALSE
    /\ Set(c, [cmd[c] EXCEPT !.prunes = FALSE,
               !.at = IF ~cmd[c].prunes THEN "failed"
                      ELSE IF side[cmd[c].version].fonts # Nil THEN "again" ELSE "fold"])
    /\ UNCHANGED <<tree, staged, kernel, app, records, artifacts, marks>>

(* freehandBuildCandidateApp.                                              *)
BuildForIcons(c) ==
    /\ At(c, "again")
    /\ Go(c, "compile")
    /\ activation' = TRUE
    /\ staged' = [staged EXCEPT !.edges = Nil]
    /\ UNCHANGED <<tree, kernel, app, records, artifacts, marks, used>>

(* assertFreehandIconGlyphs: the fonts of the app that is under build/ios  *)
(* against those kept beside the base; a base that kept none is taken for  *)
(* one that ships every glyph, and one that kept a part may lack any.      *)
CheckIcons(c) ==
    LET fonts == KeptFonts(c)
        lacking == app.image.source \in NewIcons /\ fonts \notin {Nil} \cup [of : NewIcons, whole : BOOLEAN]
        part == fonts \in [of : Sources, whole : {FALSE}]
    IN
    /\ At(c, "icons")
    /\ \/ /\ ~lacking
          /\ Go(c, "fold") /\ UNCHANGED activation
       \/ /\ lacking \/ part
          /\ End(c, "failed")
    /\ UNCHANGED <<tree, staged, kernel, app, records, artifacts, marks, used>>

(* assertFreehandNoFoldedValueForBase: without the object graph of the     *)
(* base the patch is refused.                                              *)
CheckFolds(c) ==
    /\ At(c, "fold")
    /\ IF side[cmd[c].version].graph = Nil THEN End(c, "failed")
       ELSE Go(c, "generate") /\ UNCHANGED activation
    /\ UNCHANGED <<tree, staged, kernel, app, records, artifacts, marks, used>>

(* generateAndPersistFreehandModule: the inputs are digested again, the    *)
(* module is synthesized from the candidate kernel and compiled.           *)
Generate(c) ==
    /\ At(c, "generate")
    /\ IF tree = cmd[c].inputs THEN Go(c, "store") ELSE Stop(c, "failed")
    /\ UNCHANGED <<tree, shared, records, artifacts, marks, used>>

Artifact(c) ==
    LET v == cmd[c].version IN
    [version |-> v, by |-> c, inputs |-> cmd[c].inputs.source, from |-> base[v].kernel,
     to |-> cmd[c].kernel, graph |-> side[v].graph]

(* Mutant: the inputs are digested once, before the synthesis.             *)
StoreUnchecked(c) ==
    /\ At(c, "store")
    /\ artifacts' = artifacts \cup {[Artifact(c) EXCEPT !.inputs = tree.source]}
    /\ Stop(c, "done")
    /\ UNCHANGED <<tree, shared, records, marks, used>>

(* ... and once more; then the artifact is assembled in a directory of its *)
(* own, verified and renamed into place under an id that binds its parts.  *)
Store(c) ==
    /\ At(c, "store")
    /\ IF tree = cmd[c].inputs
       THEN artifacts' = artifacts \cup {Artifact(c)} /\ Stop(c, "done")
       ELSE Stop(c, "failed") /\ UNCHANGED artifacts
    /\ UNCHANGED <<tree, shared, records, marks, used>>

-----------------------------------------------------------------------------
Release(c) ==
    \/ Prepare(c) \/ Verify(c) \/ SourceKernel(c) \/ Persist(c)
    \/ Publish(c) \/ Deliver(c) \/ Adopt(c) \/ ReadFonts(c) \/ ClearFonts(c)
    \/ CopyFonts(c) \/ Sign(c) \/ Host(c) \/ PutIPA(c) \/ BuildFails(c) \/ ReleaseFails(c)

Patch(c) ==
    \/ Plan(c) \/ DiffCandidate(c) \/ StartCandidateBuild(c) \/ Prune(c)
    \/ CandidateBuildFails(c) \/ BuildForIcons(c) \/ CheckIcons(c) \/ CheckFolds(c)
    \/ Generate(c) \/ Store(c)

Next ==
    \/ Edit
    \/ \E c \in Cmds : Kill(c) \/ Compile(c) \/ Snapshot(c) \/ Release(c) \/ Patch(c)

Spec == Init /\ [][Next]_vars

-----------------------------------------------------------------------------
Steps == Ended \cup {"compile", "snapshot", "collect", "kernel", "persist",
                     "publish", "deliver", "adopt", "fonts", "clear", "copy", "register",
                     "lane", "ipa", "candidate", "prune", "icons", "again", "fold",
                     "generate", "store"}

(* The records have the shape the code gives them; a version is hosted only *)
(* with a baseline and an engine-lane record.                              *)
TypeOK ==
    /\ base \in [Versions -> Baselines \cup {Nil}]
    /\ side \in [Versions -> [graph : Images \cup {Nil}, fonts : Fonts \cup {Nil}]]
    /\ lane \in [Versions -> LaneRecords \cup {Nil}] /\ ipa \in [Versions -> Apps \cup {Nil}]
    /\ \A c \in Cmds : cmd[c].at \in Steps /\ cmd[c].version \in Versions
    /\ artifacts \subseteq Artifacts
    /\ \A v \in hosted : base[v] # Nil /\ lane[v] # Nil

Quiet(excepted) == marks \cap excepted = {}

(* A baseline is of one build: the app.dill and the manifest that devices  *)
(* are matched with, the source kernel that patches are diffed against and *)
(* the dependency map that tells which callers inlined a changed           *)
(* declaration come from one source, whatever failed builds left staged.   *)
WholeBase ==
    Quiet({"overlap", "late", "undone"}) =>
        \A v \in Versions : base[v] # Nil =>
            /\ base[v].dill = base[v].manifest
            /\ base[v].dill = base[v].kernel
            /\ base[v].edges = Edges(base[v].dill)

(* The baseline of a version is bound once: the tree of records is a       *)
(* write-once store, whichever commands run side by side or are killed.    *)
Bound == INSTANCE WriteOnceStore
            WITH Keys <- Versions, Values <- Baselines, Unbound <- Nil, store <- base
BoundOnce == Bound!Spec

(* The object graph beside a baseline, by which folded values are found, is*)
(* that of the build the baseline records.                                 *)
GraphIsTheBases ==
    Quiet({"overlap", "profile"}) =>
        \A v \in Versions : base[v] # Nil /\ side[v].graph # Nil =>
            side[v].graph = [source |-> base[v].dill, names |-> base[v].names]

(* What is signed for the store is the build the baseline of the version   *)
(* records, and says so by its identity; the engine lane agrees.           *)
ShippedIsTheBase ==
    Quiet({"overlap"}) =>
        \A v \in Versions : ipa[v] # Nil =>
            /\ ipa[v].image = [source |-> base[v].dill, names |-> base[v].names]
            /\ ipa[v].identity = v
            /\ lane[v].dill = base[v].dill

(* Once a version can be shipped, the fonts its patches' icons are checked *)
(* against are kept, or a release is replacing them: later patches do not  *)
(* take it for a build from before there were any.  Excepted is a release  *)
(* of a version already shipped that ends between removing the fonts and   *)
(* writing the first one.                                                  *)
FontsBeforeHosting ==
    Quiet({"bare"}) =>
        \A v \in hosted :
            side[v].fonts # Nil \/ \E c \in Releases : At(c, "copy") /\ cmd[c].version = v

(* A build activates the freehand analysis for itself only: when every     *)
(* command has ended and none was killed, the next flutter build is plain. *)
ActivationEnds ==
    (\A c \in Cmds : ~Active(c)) /\ "killed" \notin marks => ~activation

(* A stored patch leads from what users of its version run to what the     *)
(* developer's tree was when the command started.                          *)
PatchFromShipped ==
    Quiet({"overlap", "late", "undone"}) =>
        \A a \in artifacts :
            /\ a.to = a.inputs
            /\ ipa[a.version] # Nil => a.from = ipa[a.version].image.source

(* No stored patch draws an icon that the fonts of the shipped app lack,   *)
(* unless a release ended before it had kept them.                         *)
IconsShip ==
    Quiet({"overlap", "undone", "cut"}) =>
        \A a \in artifacts : ipa[a.version] # Nil /\ a.to \in NewIcons =>
            ipa[a.version].image.source \in NewIcons

(* "Nothing to patch" is only said of a tree that is the base's, if nobody  *)
(* edits it meanwhile.                                                     *)
NoOpHonest ==
    Quiet({"overlap", "late", "undone", "during"}) =>
        \A c \in Cmds : At(c, "noop") =>
            cmd[c].inputs.source = base[cmd[c].version].dill

(* The baseline, its object graph and what is signed for the store are of  *)
(* one build (persistFreehandBaseline).                                    *)
OneBuild == TypeOK /\ WholeBase /\ GraphIsTheBases /\ ShippedIsTheBase

(* A patch leads from what users run to the developer's tree and draws no  *)
(* glyph they lack; "nothing to patch" is said of an unchanged tree.       *)
PatchesFit == FontsBeforeHosting /\ PatchFromShipped /\ IconsShip /\ NoOpHonest
=============================================================================
