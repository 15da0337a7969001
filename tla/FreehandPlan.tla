---------------------------- MODULE FreehandPlan ----------------------------
(***************************************************************************)
(* Which declarations an iOS freehand patch redirects.  The base's compiler*)
(* has copied declarations into others, folded results and renamed names;  *)
(* what it declared about that is recorded with the base.  The patch starts *)
(* from the declarations that the analyzer finds changed, adds those that  *)
(* hold copies of them (freehand_dependency_map.go), drops those that      *)
(* compile to the code of the base (freehand_code_fingerprints.go), adds    *)
(* those that the framework's changes reach (freehand_r12.go), asks whether*)
(* the base can honour all of it, and checks that the module that was made *)
(* redirects exactly these.  The commands around it are in FreehandRelease *)
(* and FreehandPatch; sources, edits and clean-up are left out here.       *)
(***************************************************************************)
EXTENDS FiniteSets, Naturals

CONSTANTS
    Absent,   \* no file
    Decls,    \* the declarations in the base's manifest
    Frozen,   \* code of the app that no patch can replace
    Swaps,    \* functions of the framework
    Bases,    \* what the builds compile: the engine, the shapes of the declarations, their copies
    MaxChanged  \* bound on the declarations that are edited

Holders == Decls \cup {Frozen}

ASSUME PlanAssumption ==
    /\ Frozen \notin Decls /\ IsFiniteSet(Swaps) /\ MaxChanged \in Nat
    /\ \A b \in Bases : /\ b.copies \cup b.folds \cup b.literals \subseteq Holders \X Decls
                        /\ b.renamed \in BOOLEAN
                        /\ "map" \notin b.engine => b.copies = {}

VARIABLES
    image,   \* what the store build compiled
    record, \* what its baseline recorded
    files,  \* what is in the baseline's files now
    edit,   \* what the developer changed: [change, moved]
    diff,   \* the changed set: [changed, forced]
    built,  \* a candidate was built and its code compared
    ripple, \* the R12 plan: [redirect, swap]
    module, \* the module that was made: its entries, and those that it will install on the device
    step    \* where the command is

planVars == <<image, record, files, edit, diff, built, ripple, module, step>>
shipment == <<image, record>>

Has(capability) == capability \in image.engine
Shape(d) == image.shape[d]
Receiver(d) == Shape(d).class # "none"

\* S and its holders, directly or through copies of copies: the least set that is closed.
Absorbers(edges, S) ==
    LET closed == {T \in SUBSET Holders : S \subseteq T /\ \A e \in edges : e[2] \in T => e[1] \in T}
    IN  {g \in Holders : \A T \in closed : g \in T}

\* What the machine code of g consists of.
Parts(g) == {d \in Decls : g \in Absorbers(image.copies, {d})} \cup {g}

(***************************************************************************)
(* The release: what the build wrote is recorded.                          *)
(***************************************************************************)

\* An engine that folds nothing leaves no map; that is told from a build that never received the
\* flag by the log.
Collected(reached, verbose) ==
    IF reached /\ image.copies # {} THEN image.copies
    ELSE IF reached /\ verbose THEN {} ELSE Absent

Recorded(map) ==
    [map |-> IF Has("map") THEN map ELSE Absent,
     prints |-> IF Has("prints") THEN "own" ELSE Absent,
     calls |-> IF Has("calls") THEN "own" ELSE Absent,
     graph |-> "own"]

RecordBase(reached, verbose) ==
    /\ step = "building"
    /\ IF Has("map") /\ Collected(reached, verbose) = Absent
       THEN step' = "refused" /\ UNCHANGED <<record, files>>
       ELSE /\ record' = Recorded(Collected(reached, verbose))
            /\ files' = record'
            /\ step' = "idle"
    /\ UNCHANGED <<image, edit, diff, built, ripple, module>>

\* A file of the baseline is lost, or is another build's.
Damage(file, content) ==
    /\ step \in {"idle", "diffed"} /\ files = record
    /\ record[file] # Absent /\ content # record[file]
    /\ files' = [files EXCEPT ![file] = content]
    /\ UNCHANGED <<shipment, edit, diff, built, ripple, module, step>>

MapVerified == files.map = record.map /\ (record.map = Absent <=> ~Has("map"))
PrintsVerified == files.prints = record.prints /\ (record.prints = Absent <=> ~Has("prints"))
CallsVerified == files.calls = record.calls /\ (record.calls = Absent <=> ~Has("calls"))

RefusePlan == step' = "refused" /\ UNCHANGED <<diff, built, ripple, module>>

(***************************************************************************)
(* The changed set.                                                        *)
(***************************************************************************)

\* "same": not in the diff.  "cosmetic": compiles to the same code.  "stored": so does this, but what
\* it loads changed, and the analyzer forces it.
Changes == {"same", "cosmetic", "stored", "material"}
EditedDecls(change) == {d \in Decls : change[d] # "same"}

Diff(change, moved) ==
    /\ step = "idle"
    /\ edit' = [change |-> change, moved |-> moved]
    /\ IF MapVerified /\ PrintsVerified /\ CallsVerified
       THEN /\ diff' = [changed |-> EditedDecls(change), forced |-> {d \in Decls : change[d] = "stored"}]
            /\ step' = IF EditedDecls(change) = {} THEN "noop" ELSE "diffed"
            /\ UNCHANGED <<built, ripple, module>>
       ELSE RefusePlan
    /\ UNCHANGED <<shipment, files>>

\* The holders that the map adds; one among them may be no declaration.
MapCallers(changed) == Absorbers(files.map, changed) \ changed
\* Of the added, those that hold a copy of a forced one.
Forced(changed, forced) == Absorbers({e \in files.map : e[1] \in MapCallers(changed)}, forced)

LayoutMoved(receivers) == edit.moved /\ \E d \in receivers : Receiver(d)

\* Mutant: only the direct holders are added.
ExpandOnce ==
    /\ step = "diffed"
    /\ LET added == {e[1] : e \in {x \in files.map : x[2] \in diff.changed}} \ diff.changed
       IN  IF ~Has("map") THEN step' = "expanded" /\ UNCHANGED <<diff, built, ripple, module>>
           ELSE IF ~MapVerified \/ Frozen \in added \/ LayoutMoved(added) THEN RefusePlan
           ELSE /\ diff' = [changed |-> diff.changed \cup added, forced |-> Forced(diff.changed, diff.forced)]
                /\ step' = "expanded"
                /\ UNCHANGED <<built, ripple, module>>
    /\ UNCHANGED <<shipment, files, edit>>

Expand ==
    /\ step = "diffed"
    /\ IF ~Has("map") THEN step' = "expanded" /\ UNCHANGED <<diff, built, ripple, module>>
       ELSE IF \/ ~MapVerified
               \/ Frozen \in MapCallers(diff.changed)
               \/ LayoutMoved(MapCallers(diff.changed) \ {Frozen})
       THEN RefusePlan
       ELSE /\ diff' = [changed |-> diff.changed \cup MapCallers(diff.changed),
                        forced |-> Forced(diff.changed, diff.forced)]
            /\ step' = "expanded"
            /\ UNCHANGED <<built, ripple, module>>
    /\ UNCHANGED <<shipment, files, edit>>

\* The code of a method may be the same and mean another field.
SameCode(d) ==
    \/ \A p \in Parts(d) : edit.change[p] # "material"
    \/ edit.moved /\ Receiver(d)
SameMachineCode == {d \in diff.changed : SameCode(d)}

Unchanged ==
    LET same == SameMachineCode \ diff.forced
    IN  IF LayoutMoved(same) THEN {} ELSE same

\* The candidate build may fail; then nothing is compared.
Prune(candidate) ==
    /\ step = "expanded"
    /\ candidate => Has("prints")
    /\ IF ~PrintsVerified THEN RefusePlan
       ELSE /\ built' = candidate
            /\ diff' = IF candidate THEN [diff EXCEPT !.changed = @ \ Unchanged] ELSE diff
            /\ step' = IF diff'.changed = {} THEN "noop" ELSE "pruned"
            /\ UNCHANGED <<ripple, module>>
    /\ UNCHANGED <<shipment, files, edit>>

\* What the analyzer finds that the framework's code changed under: nothing unless the app's did, and
\* with a declaration its holders.
Ripples ==
    IF \A d \in Decls : edit.change[d] # "material" THEN {{}}
    ELSE {R \in {Absorbers(image.copies, {d}) : d \in Decls} \cup {{}} : Frozen \notin R}

\* runFreehandR12Plan and applyFreehandR12Plan; refusals: what the analyzer cannot deliver.
ApplyR12Plan(redirect, swap, refusals) ==
    /\ step = "pruned"
    /\ IF ~Has("calls")
       THEN step' = "gates" /\ UNCHANGED <<diff, built, ripple, module>>
       ELSE IF ~CallsVerified \/ ~built \/ refusals \/ (swap # {} /\ ~Has("swap"))
       THEN RefusePlan
       ELSE /\ diff' = [diff EXCEPT !.changed = @ \cup redirect]
            /\ ripple' = [redirect |-> redirect, swap |-> swap]
            /\ step' = "gates"
            /\ UNCHANGED <<built, module>>
    /\ UNCHANGED <<shipment, files, edit>>

(***************************************************************************)
(* What the base's engine can honour.                                      *)
(***************************************************************************)
Honoured == {"function", "method", "static-method", "getter", "setter", "operator"}
            \cup IF Has("kinds") THEN {"constructor", "factory", "field-initializer"} ELSE {}

\* gen_snapshot sees a private name with its library's key; some engines take the class's off again.
Matched(d) == ~Shape(d).private /\ (Shape(d).class = "private" => Has("private"))

\* Called as the interpreter calls: its library is retained whole, or calls go by selector.
Tagged(d) ==
    LET s == Shape(d)
    IN  \/ Has("tagged")
        \/ s.class # "private" /\ ~s.private /\ s.whole
        \/ s.class # "none" /\ s.selector

Redirectable(d) == Matched(d) /\ Tagged(d) /\ Shape(d).kind \in Honoured

\* The constants of the object pools that both have: the one got it from the other, its source has it,
\* or both.  The pool does not tell; the source of any part of g is taken for the explanation.
InPools == image.folds \cup image.literals
SharedWith(g, d) == \E p \in Parts(g) : <<p, d>> \in InPools
HoldsValue(g, d) == \E p \in Parts(g) : <<p, d>> \in image.folds
Explained(g, d) == \E p \in Parts(g) : <<p, d>> \in image.literals

\* What Path A lets pass: a value of d that leaves by nothing which the source of d names, and one that
\* the holder writes too.
LetPass(g, d) == d \in image.quiet \/ Explained(g, d)
FoldedInto(g, d) == HoldsValue(g, d) /\ ~LetPass(g, d)

\* The engines before Path A fold more than annotations tell: any constant that two share counts.
NoFoldedValue(changed) ==
    /\ files.graph # Absent
    /\ \A d \in changed : \A g \in Holders \ {d} :
        IF Has("pathA") THEN FoldedInto(g, d) => g \in changed ELSE ~SharedWith(g, d)

\* Mutant: the gates run before the R12 plan.
GatesBeforeR12 ==
    /\ step = "gates"
    /\ LET changed == diff.changed \ ripple.redirect
       IN  IF (\A d \in changed : Redirectable(d)) /\ NoFoldedValue(changed)
           THEN step' = "planned" /\ UNCHANGED <<diff, built, ripple, module>>
           ELSE RefusePlan
    /\ UNCHANGED <<shipment, files, edit>>

Gates ==
    /\ step = "gates"
    /\ IF (\A d \in diff.changed : Redirectable(d)) /\ NoFoldedValue(diff.changed)
       THEN step' = "planned" /\ UNCHANGED <<diff, built, ripple, module>>
       ELSE RefusePlan
    /\ UNCHANGED <<shipment, files, edit>>

(***************************************************************************)
(* The module.  The analyzer that makes it is not in the repository: what  *)
(* it writes is checked.                                                   *)
(***************************************************************************)
ExpectABI(d) ==
    LET s == Shape(d)
    IN  IF s.kind \in {"method", "constructor"} THEN {"instance-member"}
        ELSE IF s.kind \in {"static-method", "factory"} THEN {"static-method"}
        ELSE IF s.class = "none" THEN {"function"}
        ELSE IF s.kind = "field-initializer" THEN {"static-method"}
        ELSE {"instance-member", "static-method"}

Entry(d) == [id |-> d, stable |-> d, kind |-> CHOOSE k \in ExpectABI(d) : TRUE]
Entries(S) == {Entry(d) : d \in S}

\* One right, one that leaves one out, one that adds one, one that mistakes one, one of another shape.
Written ==
    LET right == Entries(diff.changed)
    IN  {right} \cup {right \ {e} : e \in right} \cup {right \cup {Entry(d)} : d \in Decls}
        \cup {right \cup {[e EXCEPT !.stable = d]} : e \in right, d \in Decls}
        \cup {(right \ {e}) \cup {[e EXCEPT !.stable = d]} : e \in right, d \in Decls}
        \cup {(right \ {e}) \cup {[e EXCEPT !.kind = "factory"]} : e \in right}

ValidEntry(e) == e.id \in diff.changed /\ e.stable = e.id /\ e.kind \in ExpectABI(e.id)
ValidSwaps(swap) == swap \subseteq ripple.swap /\ Cardinality(swap) = Cardinality(ripple.swap)

ValidManifest(entries, swap) ==
    /\ \A e \in entries : ValidEntry(e)
    /\ \A e, f \in entries : e.id = f.id => e = f
    /\ \A d \in diff.changed : \E e \in entries : e.id = d
    /\ ValidSwaps(swap)

\* Synthesis may find that the module copies classes; the plan is then run again with them, and what
\* only the copies call for cannot be added any more.
Copies(redirect, swap) ==
    /\ step = "planned" /\ Has("calls") /\ swap # ripple.swap
    /\ IF redirect \subseteq diff.changed /\ (swap # {} => Has("swap"))
       THEN ripple' = [ripple EXCEPT !.swap = swap] /\ UNCHANGED <<diff, built, module, step>>
       ELSE RefusePlan
    /\ UNCHANGED <<shipment, files, edit>>

\* How the base's snapshot calls a declaration.
Runtime(d) == [name |-> d, renamed |-> image.renamed]
Receipt(names) == [map |-> "own", names |-> names]
Complete == Receipt({<<d, Runtime(d)>> : d \in diff.changed})

\* One right, one of another base's map, one that misses a name, one that gives two.
Receipts ==
    IF ~image.renamed THEN {Absent}
    ELSE {Complete, [Complete EXCEPT !.map = "other"]}
         \cup {[Complete EXCEPT !.names = @ \ {n}] : n \in Complete.names}
         \cup {[Complete EXCEPT !.names = @ \cup {<<d, [Runtime(d) EXCEPT !.name = Frozen]>>}] : d \in diff.changed}

ValidReceipt(r) ==
    /\ r.map = "own" /\ r.names # {}
    /\ \A m, n \in r.names : m[1] = n[1] => m = n

Lookup(r, d) == {n[2] : n \in {m \in r.names : m[1] = d}}

\* Absent: a name that the receipt does not cover.
Translate(entries, r) ==
    IF r = Absent THEN {[at |-> Runtime(e.id), to |-> e.stable] : e \in entries}
    ELSE IF \E e \in entries : Lookup(r, e.id) = {} THEN Absent
    ELSE {[at |-> CHOOSE n \in Lookup(r, e.id) : TRUE, to |-> e.stable] : e \in entries}

\* The plan and all that was made of it are bound.
ArtifactId(m) == <<diff.changed, m.entries, m.swap, m.receipt>>

Generate(entries, swap, receipt) ==
    /\ step = "planned"
    /\ IF /\ ValidManifest(entries, swap)
          /\ image.renamed => ValidReceipt(receipt)
          /\ Translate(entries, receipt) # Absent
       THEN LET m == [entries |-> entries, swap |-> swap, receipt |-> receipt,
                      device |-> Translate(entries, receipt)]
            IN  module' = [artifact |-> m, id |-> ArtifactId(m)]
                /\ step' = "stored" /\ UNCHANGED <<diff, built, ripple>>
       ELSE RefusePlan
    /\ UNCHANGED <<shipment, files, edit>>

\* The directory of the artifact outlives the command.
DamageArtifact(member) ==
    /\ step = "stored" /\ files = record
    /\ member \in {"receipt", "device"} => image.renamed
    /\ module' = [module EXCEPT !.artifact[member] = IF member = "receipt" THEN Receipt({}) ELSE {}]
    /\ module' # module
    /\ UNCHANGED <<shipment, files, edit, diff, built, ripple, step>>

ArtifactObfuscation(m) ==
    /\ image.renamed => m.receipt # Absent /\ ValidReceipt(m.receipt)
    /\ m.device = Translate(m.entries, m.receipt)

\* Hashed again from the files, and what they say is checked again.
SameArtifact == /\ ArtifactId(module.artifact) = module.id
                /\ ValidManifest(module.artifact.entries, module.artifact.swap)

VerifiedArtifact == SameArtifact /\ ArtifactObfuscation(module.artifact)

Publish ==
    /\ step = "stored"
    /\ IF VerifiedArtifact THEN step' = "published" /\ UNCHANGED <<diff, built, ripple, module>> ELSE RefusePlan
    /\ UNCHANGED <<shipment, files, edit>>

Fresh == [change |-> [d \in Decls |-> "same"], moved |-> FALSE]

\* The next patch of the base, or another build where none was recorded.
PatchOnceMore ==
    /\ step \in {"refused", "noop", "published"}
    /\ step' = IF record = Absent THEN "building" ELSE "idle"
    /\ edit' = Fresh /\ diff' = [changed |-> {}, forced |-> {}] /\ built' = FALSE
    /\ ripple' = [redirect |-> {}, swap |-> {}] /\ module' = Absent
    /\ UNCHANGED <<shipment, files>>

PlanReset ==
    /\ record = Absent /\ files = Absent /\ edit = Fresh /\ built = FALSE
    /\ diff = [changed |-> {}, forced |-> {}] /\ ripple = [redirect |-> {}, swap |-> {}]
    /\ module = Absent /\ step = "building"

PlanInit == image \in Bases /\ PlanReset

EditsOf == {f \in [Decls -> Changes] : Cardinality(EditedDecls(f)) <= MaxChanged}

PlanNext ==
    \/ \E reached, verbose \in BOOLEAN : RecordBase(reached, verbose)
    \/ \E file \in {"map", "prints", "calls", "graph"} : Damage(file, Absent)
    \/ \E file \in {"prints", "calls"} : Damage(file, "other")
    \/ Damage("map", {})
    \/ step = "idle" /\ \E change \in EditsOf, moved \in {m \in BOOLEAN : m => Has("map")} : Diff(change, moved)
    \/ Expand
    \/ \E candidate \in BOOLEAN : Prune(candidate)
    \/ step = "pruned" /\ \E R \in Ripples, S \in SUBSET Swaps, refusals \in BOOLEAN : ApplyR12Plan(R, S, refusals)
    \/ Gates
    \/ step = "planned" /\ \E R \in Ripples, S \in SUBSET Swaps : Copies(R, S)
    \/ step = "planned" /\ \E E \in Written, r \in Receipts : Generate(E, ripple.swap, r)
    \/ step = "planned" /\ \E S \in SUBSET Swaps, r \in Receipts : Generate(Entries(diff.changed), S, r)
    \/ \E member \in {"entries", "swap", "receipt", "device"} : DamageArtifact(member)
    \/ Publish \/ PatchOnceMore

(***************************************************************************)
(* Properties.                                                             *)
(***************************************************************************)

\* The files of a baseline, and a module with the name that binds it.
BaseFiles == [map : {Absent} \cup SUBSET (Holders \X Decls), prints : {"own", "other", Absent},
              calls : {"own", "other", Absent}, graph : {"own", Absent}]
EntryForms == [id : Decls, stable : Decls, kind : {"function", "static-method", "instance-member", "factory"}]
RuntimeNames == [name : Holders, renamed : BOOLEAN]
ReceiptForms == {Absent} \cup [map : {"own", "other"}, names : SUBSET (Decls \X RuntimeNames)]
ModuleForms ==
    [artifact : [entries : SUBSET EntryForms, swap : SUBSET Swaps, receipt : ReceiptForms,
                 device : SUBSET [at : RuntimeNames, to : Decls]],
     id : (SUBSET Decls) \X (SUBSET EntryForms) \X (SUBSET Swaps) \X ReceiptForms]

PlanTypeOK ==
    /\ image \in Bases
    /\ step \in {"building", "idle", "diffed", "expanded", "pruned", "gates", "planned", "stored",
                 "published", "noop", "refused"}
    /\ step \in {"building", "refused"} \/ (record \in BaseFiles /\ files \in BaseFiles)
    /\ diff.changed \subseteq Decls /\ diff.forced \subseteq diff.changed
    /\ step \in {"building", "idle"} => diff.changed = {} /\ module = Absent
    /\ ripple.redirect \subseteq Decls /\ ripple.swap \subseteq Swaps
    /\ step \in {"stored", "published"} => module \in ModuleForms
    /\ step \in {"planned", "stored", "published"} => diff.changed # {}

\* What runs old code if it is not redirected: it consists of changed declarations, or calls what the
\* framework's change reached.
Affected(g) ==
    \/ \E d \in Parts(g) : d # Frozen /\ edit.change[d] \in {"material", "stored"}
    \/ g \in ripple.redirect

\* What shows an old value if it is not redirected: the compiler folded into it what a changed
\* declaration used to be.  Left out is only what Path A says that it cannot tell.
HoldsOldValue(g) ==
    \E d \in Decls : edit.change[d] = "material" /\ HoldsValue(g, d) /\ ~(Has("pathA") /\ LetPass(g, d))

\* A declaration whose source was edited to the same code, and that holds a copy of one whose storage
\* changed: see StorageIsCurrent.
HoldsStoredAndEdited ==
    \E g \in Decls : /\ edit.change[g] = "cosmetic"
                     /\ \E d \in Parts(g) : edit.change[d] = "stored"

Redirected == IF step = "published" THEN {x.to : x \in module.artifact.device} ELSE {}

\* A patch that goes out leaves nothing of the base running that consists of code or storage which the
\* edit changed, or that a value which it changed was folded into; and "nothing to patch" is only said
\* when there is no such thing.
NothingStale ==
    step \in {"published", "noop"} /\ ~HoldsStoredAndEdited
        => \A g \in Holders \ Redirected : ~Affected(g) /\ ~HoldsOldValue(g)

\* A caller that absorbed a forced declaration is forced too, transitively.
StorageIsCurrent ==
    step \in {"published", "noop"}
        => \A g \in Holders \ Redirected : \A d \in Parts(g) \ {Frozen} : edit.change[d] # "stored"

\* Every redirect that goes out is of a declaration that the base's engine can match, calls as the
\* interpreter does, and honours.
RedirectsAreHonoured == step = "published" => \A d \in Redirected : Redirectable(d)

\* When the candidate's code was compared, a patch redirects nothing that runs right as it is: what was
\* only edited to the same code, and all that holds copies of it, stays native.
OnlyAffectedAreRedirected ==
    step = "published" /\ built /\ ~edit.moved => \A d \in Redirected : Affected(d)

\* What reaches the device are the changed declarations, each once, under the name that the base's own
\* snapshot has for it, and the swaps of the plan.
DeviceGetsThePlan ==
    step = "published" =>
        /\ module.artifact.device = {[at |-> Runtime(d), to |-> d] : d \in diff.changed}
        /\ module.artifact.swap = ripple.swap

\* The redirects of a patch are exactly those that are needed, and the device can honour them.
RedirectsAreExact ==
    PlanTypeOK /\ RedirectsAreHonoured /\ OnlyAffectedAreRedirected /\ DeviceGetsThePlan
=============================================================================
