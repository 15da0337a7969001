------------------------------ MODULE Catalog -------------------------------
(***************************************************************************)
(* How `soroq setup` chooses what to install.  The publisher signs two     *)
(* documents, the v1 catalog with one pair of a frontend and a toolchain   *)
(* for every platform, and the v2 catalog with a pair for every revision   *)
(* of Flutter; and a manifest for every version of a frontend or toolchain.*)
(* A setup fetches a document, resolves the pair of every platform it was  *)
(* asked for, verifies all of them against their manifests, and only then  *)
(* runs the installers, which fetch the manifests again.  The publisher    *)
(* may publish, or replace a manifest, at any of these points.             *)
(*                                                                         *)
(* The registry and the publisher are not part of the repository: what     *)
(* they serve is a choice.  Abstracted: the cryptography, a reply being    *)
(* signed or not; the readable Flutter version beside the revision; sizes  *)
(* and digests of archives, of which one is there or gone.  Directories,   *)
(* pointer files and their races are those of ToolStore.                   *)
(***************************************************************************)
EXTENDS Naturals, FiniteSets

CONSTANTS
    SetupPlatforms,
    Revisions,     \* of Flutter
    Frontends,     \* the version strings of frontends
    Toolchains,    \* and of toolchains
    ManifestsOf,   \* what a version string may stand for, by version string
    LegacyPairs,   \* <<frontend, toolchain, its Dart>> that name one Dart in two forms
    Catalogs1,     \* the documents that may be published as v1
    Catalogs2,     \* and as v2
    Missing,       \* nothing there
    Version,       \* a dart_revision that is a version and no commit
    MaxEvents,     \* bound on what the publisher does
    MaxBadReplies  \* bound on replies that are not what is published

ToolVersions == Frontends \cup Toolchains

Pairs == [fe : Frontends, tc : Toolchains]
Selection == [fe : Frontends, tc : Toolchains, rev : Revisions \cup {Missing}]

(* A v2 document has for a platform the pairs of some revisions. *)
ASSUME CatalogAssumption ==
    /\ Frontends \cap Toolchains = {}
    /\ Missing \notin SetupPlatforms \cup Revisions \cup Pairs \cup Selection
    /\ \A n \in ToolVersions : \E m \in ManifestsOf[n] : m # Missing
    /\ Catalogs1 \subseteq [SetupPlatforms -> Pairs \cup {Missing}]
    /\ \A d \in Catalogs2 : \A p \in SetupPlatforms :
           d[p] = Missing \/ d[p] \subseteq [rev : Revisions, fe : Frontends, tc : Toolchains]
    /\ MaxEvents \in Nat /\ MaxBadReplies \in Nat

VARIABLES
    catalog1, catalog2, \* what is published
    registry,           \* the manifest behind every version string
    gone,               \* the versions whose archive is not there
    disk,               \* the manifest of every version installed
    ready,              \* the pair each platform was last set up with
    setup,              \* the command
    asked,              \* the revision each platform was set up for (history)
    reused,             \* the version strings that changed their manifest (history)
    events, badReplies

catalogVars == <<catalog1, catalog2, registry, gone, disk, ready, setup, asked, reused,
                 events, badReplies>>
published == <<catalog1, catalog2, registry, gone, reused, events>>
machine == <<disk, ready, asked>>

(* todo: the platforms the present phase has yet to treat; platform: the   *)
(* one being installed; chosen: what was resolved, source: by which route, *)
(* and from (history) the document it comes from; absent (history): no v2  *)
(* was published when it was asked for; checked (history): the platforms   *)
(* whose pair was verified.                                                *)
SetupPhases == {"none", "catalog", "fallback", "preflight", "frontend", "toolchain", "record"}
SetupCommand == [at : SetupPhases, v2 : BOOLEAN, rev : Revisions \cup {Missing}, force : BOOLEAN,
                 platforms : SUBSET SetupPlatforms, todo : SUBSET SetupPlatforms,
                 platform : SetupPlatforms \cup {Missing},
                 chosen : [SetupPlatforms -> Selection \cup {Missing}],
                 source : {"none", "v1", "v2", "v1-fallback"},
                 from : SUBSET (({"v1"} \X Catalogs1) \cup ({"v2"} \X Catalogs2)),
                 absent : BOOLEAN, checked : SUBSET SetupPlatforms]
NoSetup == [at |-> "none", v2 |-> FALSE, rev |-> Missing, force |-> FALSE, platforms |-> {},
            todo |-> {}, platform |-> Missing, chosen |-> [p \in SetupPlatforms |-> Missing],
            source |-> "none", from |-> {}, absent |-> FALSE, checked |-> {}]

CatalogTypeOK ==
    /\ catalog1 \in Catalogs1 /\ catalog2 \in Catalogs2 \cup {Missing}
    /\ DOMAIN registry = ToolVersions /\ DOMAIN disk = ToolVersions
    /\ \A n \in ToolVersions : registry[n] \in ManifestsOf[n] /\ disk[n] \in ManifestsOf[n] \cup {Missing}
    /\ gone \subseteq ToolVersions /\ reused \subseteq ToolVersions
    /\ ready \in [SetupPlatforms -> Pairs \cup {Missing}]
    /\ asked \in [SetupPlatforms -> Revisions \cup {Missing}]
    /\ setup \in SetupCommand /\ (setup.v2 <=> setup.rev # Missing)
    /\ setup.todo \cup setup.checked \subseteq setup.platforms
    /\ setup.at \in {"preflight", "frontend", "toolchain", "record"} =>
           \A p \in setup.platforms : setup.chosen[p] # Missing
    /\ events \in 0 .. MaxEvents /\ badReplies \in 0 .. MaxBadReplies

-----------------------------------------------------------------------------
(* The publisher. *)
Happens == events < MaxEvents /\ events' = events + 1

PublishCatalog1 ==
    /\ Happens
    /\ catalog1' \in Catalogs1 \ {catalog1}
    /\ UNCHANGED <<catalog2, registry, gone, reused, machine, setup, badReplies>>

PublishCatalog2 ==
    /\ Happens
    /\ catalog2' \in (Catalogs2 \cup {Missing}) \ {catalog2}
    /\ UNCHANGED <<catalog1, registry, gone, reused, machine, setup, badReplies>>

ReuseVersion(n) ==
    /\ Happens
    /\ \E m \in ManifestsOf[n] \ {registry[n]} : registry' = [registry EXCEPT ![n] = m]
    /\ reused' = reused \cup {n}
    /\ UNCHANGED <<catalog1, catalog2, gone, machine, setup, badReplies>>

LoseArchive(n) ==
    /\ Happens /\ n \notin gone
    /\ gone' = gone \cup {n}
    /\ UNCHANGED <<catalog1, catalog2, registry, reused, machine, setup, badReplies>>

-----------------------------------------------------------------------------
(* What a manifest must say before it is used for anything *)
LegacyNames == UNION {{x[1], x[2]} : x \in LegacyPairs}

CheckFrontendIdentity(n, m) ==
    /\ m.rev # Missing /\ m.compatible # {}
    /\ m.dart # Missing /\ (m.dart = Version => n \in LegacyNames)

CheckToolchainIdentity(m) == m.platform \in SetupPlatforms /\ m.rev # Missing /\ m.dart # Missing

Registered(fe, tc) ==
    /\ registry[fe] # Missing /\ CheckFrontendIdentity(fe, registry[fe])
    /\ registry[tc] # Missing /\ CheckToolchainIdentity(registry[tc])

AllowsLegacyDart(fe, tc) ==
    /\ registry[fe].dart = Version
    /\ <<fe, tc, registry[tc].dart>> \in LegacyPairs

(* The pair as v1 verifies it, and as v2 does *)
BoundPair(p, s) == registry[s.tc].platform = p /\ s.tc \in registry[s.fe].compatible

\* Mutant: the Dart revisions are not compared.
ValidateWithoutDart(p, s) ==
    BoundPair(p, s) /\ (s.rev # Missing => registry[s.fe].rev = s.rev /\ registry[s.tc].rev = s.rev)

ValidatePairIdentity(p, s) ==
    /\ BoundPair(p, s)
    /\ s.rev # Missing => registry[s.fe].rev = s.rev /\ registry[s.tc].rev = s.rev
    /\ registry[s.fe].dart = registry[s.tc].dart \/ AllowsLegacyDart(s.fe, s.tc)

(* A v2 document is refused whole for one bad or ambiguous entry *)
Validate(doc) ==
    /\ \E p \in SetupPlatforms : doc[p] # Missing
    /\ \A p \in SetupPlatforms : doc[p] # Missing =>
           doc[p] # {} /\ \A e, o \in doc[p] : e.rev = o.rev => e = o

-----------------------------------------------------------------------------
AtPhase(phase) == setup.at = phase
RefuseSetup == setup' = NoSetup

Begin(v2, rev, platforms, force) ==
    /\ AtPhase("none")
    /\ setup' = [NoSetup EXCEPT !.at = "catalog", !.v2 = v2, !.rev = rev, !.force = force,
                                !.platforms = platforms]
    /\ UNCHANGED <<published, machine, badReplies>>

RunSetup(platforms, force) == Begin(FALSE, Missing, platforms, force)
RunSetupV2(rev, platforms, force) == Begin(TRUE, rev, platforms, force)

(* A reply of a catalog route: the document published there and its        *)
(* signature, or "not found".  Or a bad one: a failure, a document that    *)
(* goes with another signature, as when it was published between the two   *)
(* requests, or a signed one of another schema.                            *)
Reply(doc) == [found |-> doc # Missing, ok |-> TRUE, signed |-> TRUE, schema |-> TRUE, doc |-> doc]
BadReplies(doc) ==
    {[Reply(doc) EXCEPT !.ok = FALSE], [Reply(doc) EXCEPT !.signed = FALSE],
     [Reply(doc) EXCEPT !.schema = FALSE]}
Replies(doc) == {Reply(doc)} \cup IF badReplies < MaxBadReplies /\ doc # Missing
                                  THEN BadReplies(doc) ELSE {}

Received(reply, doc) ==
    badReplies' = IF reply = Reply(doc) THEN badReplies ELSE badReplies + 1

Verified(reply) == reply.found /\ reply.ok /\ reply.signed /\ reply.schema

(* Every platform resolved from one document: the preflight begins *)
Resolved(doc, source, selected) ==
    setup' = [setup EXCEPT !.at = "preflight", !.todo = setup.platforms,
                           !.from = {<<source, doc>>}, !.source = source,
                           !.chosen = [p \in SetupPlatforms |-> IF p \in setup.platforms
                                                           THEN selected[p] ELSE Missing]]

FetchCatalog ==
    /\ AtPhase("catalog") /\ ~setup.v2
    /\ \E reply \in Replies(catalog1) :
           /\ Received(reply, catalog1)
           /\ IF Verified(reply) /\ \A p \in setup.platforms : reply.doc[p] # Missing
              THEN Resolved(reply.doc, "v1", [p \in setup.platforms |->
                       [fe |-> reply.doc[p].fe, tc |-> reply.doc[p].tc, rev |-> Missing]])
              ELSE RefuseSetup
    /\ UNCHANGED <<published, machine>>

(* A revision that is not in the document is refused as well *)
Select(doc, p) == {e \in doc[p] : e.rev = setup.rev}
Selectable(doc) == Validate(doc) /\ \A p \in setup.platforms : doc[p] # Missing /\ Select(doc, p) # {}

FallsBack(reply) == ~reply.found

FetchCatalogV2 ==
    /\ AtPhase("catalog") /\ setup.v2
    /\ \E reply \in Replies(catalog2) :
           /\ Received(reply, catalog2)
           /\ IF FallsBack(reply)
              THEN setup' = [setup EXCEPT !.at = "fallback", !.todo = setup.platforms,
                                          !.source = "v1-fallback", !.absent = catalog2 = Missing]
              ELSE IF Verified(reply) /\ Selectable(reply.doc)
              THEN Resolved(reply.doc, "v2", [p \in setup.platforms |->
                                            CHOOSE e \in Select(reply.doc, p) : TRUE])
              ELSE RefuseSetup
    /\ UNCHANGED <<published, machine>>

(* The pair of v1 serves a setup for a revision if both manifests are of   *)
(* that revision.  Every platform fetches the document for itself.         *)
ServesRevision(s) ==
    /\ Registered(s.fe, s.tc)
    /\ registry[s.fe].rev = setup.rev /\ registry[s.tc].rev = setup.rev

TodoAfter(p) == IF setup.todo = {p} THEN setup.platforms ELSE setup.todo \ {p}
AfterFallback(p) == IF setup.todo = {p} THEN "preflight" ELSE "fallback"

Fallback(p) ==
    /\ AtPhase("fallback") /\ p \in setup.todo
    /\ \E reply \in Replies(catalog1) :
           /\ Received(reply, catalog1)
           /\ IF Verified(reply) /\ reply.doc[p] # Missing /\ ServesRevision(reply.doc[p])
              THEN setup' = [setup EXCEPT
                       !.chosen[p] = [fe |-> reply.doc[p].fe, tc |-> reply.doc[p].tc, rev |-> setup.rev],
                       !.from = @ \cup {<<"v1", reply.doc>>}, !.at = AfterFallback(p), !.todo = TodoAfter(p)]
              ELSE RefuseSetup
    /\ UNCHANGED <<published, machine>>

(* Nothing is installed before the pair of every platform is verified *)
AfterPreflight(p) == IF setup.todo = {p} THEN "frontend" ELSE "preflight"

Preflight(p) ==
    /\ AtPhase("preflight") /\ p \in setup.todo
    /\ LET s == setup.chosen[p] IN
       IF /\ Registered(s.fe, s.tc)
          /\ IF setup.v2 THEN ValidatePairIdentity(p, s) ELSE BoundPair(p, s)
          /\ {s.fe, s.tc} \cap gone = {}
       THEN setup' = [setup EXCEPT !.checked = @ \cup {p}, !.at = AfterPreflight(p), !.todo = TodoAfter(p)]
       ELSE RefuseSetup
    /\ UNCHANGED <<published, machine, badReplies>>

(* A request for a manifest or an archive fails *)
RequestFails ==
    /\ setup.at \in {"fallback", "preflight", "frontend", "toolchain"} /\ badReplies < MaxBadReplies
    /\ badReplies' = badReplies + 1 /\ RefuseSetup
    /\ UNCHANGED <<published, machine>>

(* An installer: what is installed is verified against its own manifest    *)
(* and stays; else the manifest is fetched, and its archive.               *)
Obtain(n, valid, next) ==
    IF ~setup.force /\ disk[n] # Missing
    THEN setup' = next /\ UNCHANGED disk
    ELSE IF registry[n] # Missing /\ valid /\ n \notin gone
    THEN setup' = next /\ disk' = [disk EXCEPT ![n] = registry[n]]
    ELSE RefuseSetup /\ UNCHANGED disk

InstallFrontend(p) ==
    /\ AtPhase("frontend") /\ p \in setup.todo
    /\ LET fe == setup.chosen[p].fe IN
       Obtain(fe, CheckFrontendIdentity(fe, registry[fe]),
              [setup EXCEPT !.at = "toolchain", !.platform = p])
    /\ UNCHANGED <<published, ready, asked, badReplies>>

InstallToolchain ==
    /\ AtPhase("toolchain")
    /\ LET tc == setup.chosen[setup.platform].tc IN
       Obtain(tc, CheckToolchainIdentity(registry[tc]), [setup EXCEPT !.at = "record"])
    /\ UNCHANGED <<published, ready, asked, badReplies>>

Record ==
    /\ AtPhase("record")
    /\ LET p == setup.platform IN
       /\ ready' = [ready EXCEPT ![p] = [fe |-> setup.chosen[p].fe, tc |-> setup.chosen[p].tc]]
       /\ asked' = [asked EXCEPT ![p] = setup.rev]
       /\ setup' = IF setup.todo = {p} THEN NoSetup
                   ELSE [setup EXCEPT !.at = "frontend", !.todo = @ \ {p}, !.platform = Missing]
    /\ UNCHANGED <<published, disk, badReplies>>

-----------------------------------------------------------------------------
CatalogReset ==
    /\ registry = [n \in ToolVersions |-> CHOOSE m \in ManifestsOf[n] : m # Missing]
    /\ gone = {} /\ disk = [n \in ToolVersions |-> Missing] /\ ready = [p \in SetupPlatforms |-> Missing]
    /\ setup = NoSetup /\ asked = [p \in SetupPlatforms |-> Missing] /\ reused = {}
    /\ events = 0 /\ badReplies = 0

CatalogInit == catalog1 \in Catalogs1 /\ catalog2 \in Catalogs2 \cup {Missing} /\ CatalogReset

CatalogNext ==
    \/ PublishCatalog1 \/ PublishCatalog2
    \/ \E n \in ToolVersions : ReuseVersion(n) \/ LoseArchive(n)
    \/ \E platforms \in SUBSET SetupPlatforms \ {{}}, force \in BOOLEAN :
           \/ RunSetup(platforms, force)
           \/ \E rev \in Revisions : RunSetupV2(rev, platforms, force)
    \/ FetchCatalog \/ FetchCatalogV2
    \/ \E p \in SetupPlatforms : Fallback(p) \/ Preflight(p) \/ InstallFrontend(p)
    \/ InstallToolchain \/ Record \/ RequestFails

CatalogSpec == CatalogInit /\ [][CatalogNext]_catalogVars

-----------------------------------------------------------------------------
(* The tools a platform was set up with for a revision of Flutter are      *)
(* built from that revision, agree on Dart, and are meant for each other   *)
(* and for the platform, as they are on the disk; unless a version string  *)
(* of theirs was used again.  (catalog_v2_client.go: "the wrong engine")   *)
Fits(p, rev, f, t, legacy) ==
    /\ f.rev = rev /\ t.rev = rev /\ t.platform = p
    /\ f.dart = t.dart \/ legacy

InstalledAsAsked ==
    \A p \in SetupPlatforms :
        asked[p] # Missing /\ {ready[p].fe, ready[p].tc} \cap reused = {} =>
            /\ Fits(p, asked[p], disk[ready[p].fe], disk[ready[p].tc],
                    \E x \in LegacyPairs : x[1] = ready[p].fe /\ x[2] = ready[p].tc)
            /\ ready[p].tc \in disk[ready[p].fe].compatible

(* A setup for a revision takes a pair of v1 only if no v2 was published   *)
(* when it asked, however its requests fail.                               *)
FallbackOnlyWhenAbsent ==
    setup.source = "v1-fallback" => setup.absent

(* A setup comes to its installers and to active.json only once the pair   *)
(* of each of its platforms is verified.                                   *)
InstallsAfterAllChecks ==
    setup.at \in {"frontend", "toolchain", "record"} => setup.checked = setup.platforms

(* What setup checks before it installs, and what it leaves: the pair that *)
(* was asked for, of every platform or of none, from the catalog in force. *)
SetupIsTrue ==
    CatalogTypeOK /\ InstalledAsAsked /\ FallbackOnlyWhenAbsent /\ InstallsAfterAllChecks

(* "ONE verified document for the whole invocation, so android and ios     *)
(* cannot come from different catalog generations if a publish lands       *)
(* mid-setup" (setup_cmd.go:130).                                          *)
OneGeneration == Cardinality(setup.from) <= 1
=============================================================================
