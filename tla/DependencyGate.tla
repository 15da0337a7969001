--------------------------- MODULE DependencyGate ---------------------------
(***************************************************************************)
(* What an iOS freehand patch may do about the app's packages (internal/   *)
(* depgraph and its callers): the release records the graph of runtime     *)
(* packages, the patch resolves it again, describes the difference, decides*)
(* for each package whether its source may travel with the patch, may only *)
(* be referenced or rules the patch out, and resolves once more before the *)
(* module is generated and before it is published, while the developer     *)
(* edits the pubspec and the packages and runs pub of their own Flutter.   *)
(*                                                                         *)
(* A digest is the value it is a digest of.                                *)
(***************************************************************************)
EXTENDS FiniteSets, Naturals

CONSTANTS
    Nil,      \* no package, no graph, no descriptor
    Pkgs,     \* the packages
    App,      \* the application's own package
    Dev,      \* the packages that dev_dependencies ask for
    Releases, \* for each package, the releases pub may choose
    Bodies,   \* for each package, what its directory may hold while it is a path package
    MaxDepEdits  \* bound on what the developer does

Copy(r, b) == [ver |-> r.ver, src |-> r.src, body |-> b]

\* The files of a package of the SDK are read by nobody: the toolchain that the release is pinned
\* to has one of each version.
ASSUME DependencyAssumption ==
    /\ IsFiniteSet(Pkgs) /\ App \notin Pkgs /\ Dev \subseteq Pkgs
    /\ \A p \in Pkgs : Bodies[p] # {} /\ Nil \notin Releases[p]
    /\ \A p \in Pkgs : \A r \in Releases[p] : \A b \in Bodies[p] \cup {r.body} : Copy(r, b) # Nil
    /\ \A p \in Pkgs : \A r, t \in Releases[p] :
        r.src = "sdk" /\ t.src = "sdk" /\ r.ver = t.ver => r.body = t.body
    /\ MaxDepEdits \in Nat

VARIABLES
    wants,   \* the runtime dependencies in the app's pubspec
    pick,    \* the release that each package's constraints select
    local,   \* what is in each path package's directory
    lock,    \* the pinned pubspec.lock
    config,  \* package_config.json: the release whose directory it names; Nil: none that can be read
    base,    \* the graph recorded in the release baseline
    shipped, \* what the release was compiled from (history)
    plan,    \* the plan's descriptor and the sources the analyzer may carry
    stage,   \* where the patch is
    depEdits \* what the developer has done so far (bound)

project == <<wants, pick, local>>
resolution == <<lock, config>>
released == <<base, shipped>>
depVars == <<wants, pick, local, lock, config, base, shipped, plan, stage, depEdits>>

Body(p, r) == IF r.src = "path" THEN local[p] ELSE r.body
Closed(S, deps) == \A p \in S : deps[p] \cap Pkgs \subseteq S
Reach(from, deps) == {p \in Pkgs : \A S \in SUBSET Pkgs : from \subseteq S /\ Closed(S, deps) => p \in S}

\* What pub resolves: the closure of all that the app asks for, dev_dependencies included.
Resolution ==
    LET deps == [p \in Pkgs |-> Body(p, pick[p]).deps]
        all == Reach(wants \cup Dev, deps)
    IN  [p \in Pkgs |-> IF p \in all THEN pick[p] ELSE Nil]

(***************************************************************************)
(* capability.go: what a package declares against what it contains.        *)
(***************************************************************************)
DeclaresNative(b) == b.plugin = "native"
ScanFinds(b) == b.native


Classify(b, src) ==
    LET scanned == src # "sdk"
        undeclared == scanned /\ ScanFinds(b) /\ ~DeclaresNative(b)
        empty == scanned /\ DeclaresNative(b) /\ ~ScanFinds(b)
    IN  [eligible |-> ~(DeclaresNative(b) \/ b.assets \/ (scanned /\ b.hook) \/ undeclared),
         native |-> DeclaresNative(b) \/ undeclared, assets |-> b.assets,
         hook |-> scanned /\ b.hook, inconsistent |-> undeclared \/ empty]

(***************************************************************************)
(* depgraph.go: the graph of the runtime packages.                         *)
(***************************************************************************)
Sources == {"hosted", "git", "path", "sdk"}
NormalSource(r) == IF r.src \in Sources THEN r.src ELSE "unknown"

\* A hosted package must carry its archive's digest and a git package its commit.
Pinned(r) == /\ NormalSource(r) # "unknown"
             /\ r.src \in {"hosted", "git"} => r.pinned
SourceId(p, r) == [src |-> r.src, name |-> p, commit |-> IF r.src = "git" THEN r.body ELSE Nil]
SourceTree(p, r) == IF r.src \in {"path", "git"} THEN <<Body(p, config[p])>> ELSE <<>>

Package(p) ==
    LET r == lock[p]  b == Body(p, config[p])
    IN  [version |-> r.ver, source |-> NormalSource(r), id |-> SourceId(p, r),
         content |-> IF r.src = "hosted" THEN <<r.body>> ELSE <<>>,
         tree |-> SourceTree(p, r),
         pubspec |-> <<config[p].ver, b.deps, b.plugin, b.assets>>,
         deps |-> b.deps, capability |-> Classify(b, r.src)]

\* In the lock, in package_config.json, and from where it cannot change unnoticed.
Resolvable(p) == lock[p] # Nil /\ config[p] # Nil /\ Pinned(lock[p])

\* The walk over runtime edges, each package once; it ends at the first that it cannot resolve.
Walk(roots) == Reach(roots, [p \in Pkgs |-> IF Resolvable(p) THEN Package(p).deps ELSE {}])

\* Mutant: dev_dependencies are walked as well.
FoundWithDev == Walk(wants \cup Dev)

Found == Walk(wants)
Resolves == \A p \in Found : Resolvable(p)

ResolveAt == [roots |-> wants, lock |-> lock, config |-> config, packages |-> [p \in Found |-> Package(p)]]

Names(g) == DOMAIN g.packages
IdentityHash(k) == IF k.content # <<>> THEN k.content ELSE k.tree

ValidPackage(k) == k.source # "sdk" => IdentityHash(k) # <<>>
ValidGraph(g) ==
    /\ \A p \in Names(g) : ValidPackage(g.packages[p]) /\ g.packages[p].deps \subseteq Names(g)
    /\ g.roots \subseteq Names(g)

(***************************************************************************)
(* descriptor.go and delivery_mode.go: the difference of two graphs.       *)
(***************************************************************************)
IdentityChanged(k, l) ==
    \/ k.version # l.version \/ k.id # l.id
    \/ IdentityHash(k) # IdentityHash(l)
    \/ k.pubspec # l.pubspec \/ k.deps # l.deps

Upgrade(k, l) ==
    [from |-> k.version, to |-> l.version, fromId |-> k.id, toId |-> l.id,
     fromHash |-> IdentityHash(k), toHash |-> IdentityHash(l),
     fromPubspec |-> k.pubspec, toPubspec |-> l.pubspec, fromDeps |-> k.deps, toDeps |-> l.deps,
     eligible |-> l.capability.eligible, capability |-> l.capability]

Delivery(k, mode) ==
    [mode |-> mode, version |-> k.version, id |-> k.id, hash |-> IdentityHash(k), capability |-> k.capability]

Changed(g, h) == {p \in Names(g) \cap Names(h) : IdentityChanged(g.packages[p], h.packages[p])}

ClassifyDelivery(g, h) ==
    [p \in Names(g) \cup Names(h) |->
        IF p \notin Names(h) THEN Delivery(g.packages[p], "forbidden")
        ELSE IF p \in Names(g) \ Changed(g, h) THEN Delivery(h.packages[p], "base_reference_only")
        ELSE IF h.packages[p].capability.eligible THEN Delivery(h.packages[p], "carriable")
        ELSE Delivery(h.packages[p], "forbidden")]

BuildDescriptor(g, h) ==
    LET new == (Names(h) \ Names(g)) \cup Changed(g, h)
    IN  [base |-> g, candidate |-> h,
         added |-> [p \in Names(h) \ Names(g) |-> h.packages[p]],
         removed |-> [p \in Names(g) \ Names(h) |-> g.packages[p]],
         upgraded |-> [p \in Changed(g, h) |-> Upgrade(g.packages[p], h.packages[p])],
         unchanged |-> [p \in (Names(g) \cap Names(h)) \ Changed(g, h) |-> h.packages[p]],
         ineligible |-> {p \in new : ~h.packages[p].capability.eligible},
         delivery |-> ClassifyDelivery(g, h)]


SomethingChanged(u) ==
    \/ u.from # u.to \/ u.fromId # u.toId \/ u.fromHash # u.toHash
    \/ u.fromPubspec # u.toPubspec \/ u.fromDeps # u.toDeps

ValidRecords(d) ==
    /\ \A p \in DOMAIN d.added : ValidPackage(d.added[p])
    /\ \A p \in DOMAIN d.removed : ValidPackage(d.removed[p])
    /\ \A p \in DOMAIN d.upgraded : SomethingChanged(d.upgraded[p])
    /\ d.ineligible = {p \in DOMAIN d.added : ~d.added[p].capability.eligible}
                      \cup {p \in DOMAIN d.upgraded : ~d.upgraded[p].eligible}

Describes(e, k) ==
    e.version = k.version /\ e.id = k.id /\ e.hash = IdentityHash(k) /\ e.capability = k.capability

ModeOf(d, p) == d.delivery[p].mode
RightModes(d) ==
    /\ DOMAIN d.delivery = UNION {DOMAIN d.added, DOMAIN d.removed, DOMAIN d.upgraded, DOMAIN d.unchanged}
    /\ \A p \in DOMAIN d.unchanged : ModeOf(d, p) = "base_reference_only"
    /\ \A p \in DOMAIN d.added \cup DOMAIN d.upgraded : ModeOf(d, p) # "base_reference_only"
    /\ \A p \in DOMAIN d.removed \cup d.ineligible : ModeOf(d, p) = "forbidden"

RightIdentities(d) ==
    /\ \A p \in DOMAIN d.added : Describes(d.delivery[p], d.added[p])
    /\ \A p \in DOMAIN d.removed : Describes(d.delivery[p], d.removed[p])
    /\ \A p \in DOMAIN d.unchanged : Describes(d.delivery[p], d.unchanged[p])
    /\ \A p \in DOMAIN d.upgraded :
        LET u == d.upgraded[p]  e == d.delivery[p]
        IN  e.version = u.to /\ e.id = u.toId /\ e.hash = u.toHash /\ e.capability = u.capability

ValidDescriptor(d) == ValidRecords(d) /\ RightModes(d) /\ RightIdentities(d)

Assess(d) == \A p \in DOMAIN d.delivery : ModeOf(d, p) # "forbidden"
MatchesBase(d) == d.base = base
\* Mutant: only the two inputs are compared, not the graph that was read from them.
MatchesInputs(d, g) == d.candidate.lock = g.lock /\ d.candidate.config = g.config

MatchesCandidate(d, g) == d.candidate = g

Carriable(d) == {p \in DOMAIN d.delivery : ModeOf(d, p) = "carriable"}

(***************************************************************************)
(* The developer, and pub.                                                 *)
(***************************************************************************)
DevEdits == depEdits < MaxDepEdits /\ depEdits' = depEdits + 1 /\ UNCHANGED <<released, plan, stage>>

EditPubspec(p) ==
    /\ DevEdits
    /\ wants' = IF p \in wants THEN wants \ {p} ELSE wants \cup {p}
    /\ UNCHANGED <<pick, local, resolution>>

Repick(p, r) ==
    /\ DevEdits /\ r # pick[p]
    /\ pick' = [pick EXCEPT ![p] = r]
    /\ UNCHANGED <<wants, local, resolution>>

EditPackage(p, b) ==
    /\ DevEdits /\ b # local[p]
    /\ local' = [local EXCEPT ![p] = b]
    /\ UNCHANGED <<wants, pick, resolution>>

\* flutter pub get of the developer's own Flutter, which may choose another release or leave one
\* out: it writes package_config.json and the developer's lock, never the pinned one.
DeveloperPubGet(p, r) ==
    /\ DevEdits
    /\ config' = [Resolution EXCEPT ![p] = r]
    /\ UNCHANGED <<project, lock>>

\* prepareSoroqBuildResolution
Prepare == lock' = Resolution /\ config' = Resolution

(***************************************************************************)
(* The release and the patch.                                              *)
(***************************************************************************)
Compiled ==
    LET deps == [p \in Pkgs |-> IF config[p] = Nil THEN {} ELSE Body(p, config[p]).deps]
        closure == Reach(wants, deps)
    IN  [p \in Pkgs |-> IF p \in closure /\ config[p] # Nil
                        THEN Copy(config[p], Body(p, config[p])) ELSE Nil]

\* The release resolves, and what it records must be a graph a patch will accept.
Release ==
    /\ stage = "idle" /\ base = Nil
    /\ lock = Resolution /\ config = Resolution
    /\ Resolves /\ ValidGraph(ResolveAt)
    /\ base' = ResolveAt /\ shipped' = Compiled
    /\ UNCHANGED <<project, resolution, plan, stage, depEdits>>

Resolve ==
    /\ stage = "idle"
    /\ Prepare /\ stage' = IF base = Nil THEN "idle" ELSE "resolved"
    /\ UNCHANGED <<project, released, plan, depEdits>>

Plan ==
    /\ stage = "resolved"
    /\ IF ~Resolves THEN stage' = "refused" /\ UNCHANGED plan
       ELSE LET d == BuildDescriptor(base, ResolveAt)
            IN  /\ plan' = [descriptor |-> d, carried |-> Carriable(d)]
                /\ stage' = IF ValidDescriptor(d) /\ MatchesBase(d) /\ Assess(d) THEN "planned" ELSE "refused"
    /\ UNCHANGED <<project, resolution, released, depEdits>>

\* The candidate build that the plan may run resolves for itself.
CandidateBuild ==
    /\ stage = "planned"
    /\ Prepare
    /\ UNCHANGED <<project, released, plan, stage, depEdits>>

\* revalidateDependencyDescriptor, before the module is generated and before it is published.
Revalidate ==
    /\ stage \in {"planned", "generated"}
    /\ LET d == plan.descriptor
       IN  stage' = IF /\ ValidDescriptor(d) /\ Resolves
                       /\ MatchesCandidate(d, ResolveAt) /\ Assess(d)
                    THEN (IF stage = "planned" THEN "generated" ELSE "published") ELSE "refused"
    /\ UNCHANGED <<project, resolution, released, plan, depEdits>>

PatchAgain ==
    /\ stage \in {"refused", "published"}
    /\ stage' = "idle" /\ plan' = Nil
    /\ UNCHANGED <<project, resolution, released, depEdits>>

Writable(p) == {r \in Releases[p] : r.src = "path"} # {}

DepInit ==
    /\ wants \in SUBSET Pkgs
    /\ pick \in {f \in [Pkgs -> UNION {Releases[p] : p \in Pkgs}] : \A p \in Pkgs : f[p] \in Releases[p]}
    /\ local = [p \in Pkgs |-> CHOOSE b \in Bodies[p] : TRUE]
    /\ lock = Resolution /\ config = Resolution
    /\ base = Nil /\ shipped = Nil /\ plan = Nil /\ stage = "idle" /\ depEdits = 0

DepNext ==
    \/ \E p \in Pkgs : EditPubspec(p)
    \/ \E p \in Pkgs : \E r \in Releases[p] : Repick(p, r)
    \/ \E p \in Pkgs : Writable(p) /\ \E b \in Bodies[p] : EditPackage(p, b)
    \/ \E p \in Pkgs : \E r \in Releases[p] \cup {Nil} : DeveloperPubGet(p, r)
    \/ Release \/ Resolve \/ Plan \/ CandidateBuild \/ Revalidate \/ PatchAgain

DepSpec == DepInit /\ [][DepNext]_depVars

(***************************************************************************)
(* Properties.                                                             *)
(***************************************************************************)

DepTypeOK ==
    /\ wants \subseteq Pkgs /\ depEdits \in 0..MaxDepEdits
    /\ \A p \in Pkgs : local[p] \in Bodies[p]
    /\ \A p \in Pkgs : pick[p] \in Releases[p] /\ lock[p] \in Releases[p] \cup {Nil}
                       /\ config[p] \in Releases[p] \cup {Nil}
    /\ stage \in {"idle", "resolved", "planned", "generated", "published", "refused"}
    /\ stage \in {"resolved", "planned", "generated", "published"} => base # Nil
    /\ stage \in {"idle", "resolved"} => plan = Nil

\* The graph that a release records is the closure of the app's runtime dependencies, cycles and
\* diamonds included, and no package only the developer's tools need.
GraphIsTheClosure == base # Nil => Names(base) = {p \in Pkgs : shipped[p] # Nil}

\* The native code of a package of the SDK belongs to the engine.
PlainDart(b, src) == b.plugin # "native" /\ ~b.assets /\ (src # "sdk" => ~b.native /\ ~b.hook)

\* The packages of the patch that are not what the release shipped; one that comes from somewhere
\* else is another package, whatever its files.
Differing == {p \in Pkgs : Compiled[p] # Nil /\ Compiled[p] # shipped[p]}
Deliverable ==
    /\ \A p \in Pkgs : shipped[p] # Nil => Compiled[p] # Nil
    /\ \A p \in Differing : PlainDart(Compiled[p].body, Compiled[p].src)

Passes == stage' \in {"generated", "published"} /\ stage' # stage

\* A graph read from the pinned lock and from a package_config that another pub wrote after the
\* command resolved: it may take the directory of one release for another.  The guarantees
\* below hold for all other graphs.
Mixed == plan.descriptor.candidate.lock # plan.descriptor.candidate.config

\* Whatever the developer edits in between, a patch that passes changes only packages that are
\* plain Dart and drops none that the release shipped.
OnlyDartIsDelivered == Passes /\ ~Mixed => Deliverable

\* The sources that travel with a patch that passes are the packages that are not what the
\* release shipped: one more would shadow the base's, one less runs the base's old code.
CarriesWhatChanged == Passes /\ ~Mixed => plan.carried = Differing

\* Two graphs that are valid always have a descriptor that its own reader accepts, whatever
\* changed between them.
OwnDescriptorIsValid == plan # Nil => ValidDescriptor(plan.descriptor)

Unresolvable == \E p \in Pkgs : lock[p] # Nil /\ ~Pinned(lock[p])
Moved == lock # Resolution \/ config # Resolution

\* A patch is refused only when a package cannot be pinned, the change cannot be delivered, or
\* something moved since the command resolved.
RefusedForCause ==
    stage' = "refused" /\ stage = "resolved" => Unresolvable \/ Moved \/ ~Deliverable

\* The graph that is recorded and the descriptor that is written say what there is.
DescriptorIsTrue == DepTypeOK /\ GraphIsTheClosure /\ OwnDescriptorIsValid

\* A patch is delivered with all that changed, when that is Dart code, and else refused: the
\* three rules of a step of the gate.
DeliversWhatChanged == [][OnlyDartIsDelivered /\ CarriesWhatChanged /\ RefusedForCause]_depVars
=============================================================================
