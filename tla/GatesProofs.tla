---------------------------- MODULE GatesProofs -----------------------------
(***************************************************************************)
(* Proofs about what is decided before anything is built, installed or     *)
(* published, for any constants. Part 1, Catalog: setup ends with the pair *)
(* that it was asked for. Part 2, DeliveryGates: what either lane          *)
(* publishes is complete, and the gates agree. Part 3, FreehandPlan: a     *)
(* patch redirects all that the edit made stale and nothing else. Part 4,  *)
(* DependencyGate: a patch carries the packages that changed, or is        *)
(* refused for a cause. Part 5, FlavorSwap: a build goes by the soroq.yaml *)
(* of its flavor, and the developer's comes back.                          *)
(***************************************************************************)
EXTENDS Catalog, DeliveryGates, FreehandPlan, DependencyGate, FlavorSwap, FiniteSetTheorems, TLAPS

(***************************************************************************)
(* Part 1.  Catalog, for every set of platforms, revisions and             *)
(* versions, whatever the publisher's documents and manifests say and      *)
(* however often they change: what setup checks before it installs, and    *)
(* that what it leaves is the pair it was asked for.                       *)
(*                                                                         *)
(* SetupIsTrue is not inductive: an installer believes what the preflight  *)
(* found out about a manifest that it fetches again.  CatalogInv adds why  *)
(* it may: the manifest behind a version is what was checked, and what is  *)
(* on the disk, unless the version string was used twice.                  *)
(***************************************************************************)

(* What is installed is what the registry serves. *)
DiskIsRegistry == \A n \in ToolVersions \ reused : disk[n] = Missing \/ disk[n] = registry[n]

(* What a platform was set up with is there, and a revision was asked for  *)
(* only where something was set up.                                        *)
ReadyIsThere ==
    \A p \in SetupPlatforms :
        /\ asked[p] # Missing => ready[p] # Missing
        /\ ready[p] # Missing => disk[ready[p].fe] # Missing /\ disk[ready[p].tc] # Missing

MachineInv == DiskIsRegistry /\ ReadyIsThere /\ InstalledAsAsked

(* What is still to do is what is not done, phase by phase. *)
Progresses ==
    /\ setup.at \in {"catalog", "fallback"} => setup.checked = {}
    /\ setup.at = "fallback" => \A p \in setup.platforms \ setup.todo : setup.chosen[p] # Missing
    /\ setup.at = "preflight" => setup.platforms \subseteq setup.checked \cup setup.todo
    /\ setup.at \in {"toolchain", "record"} => setup.platform \in setup.todo

(* Under a revision, only pairs of that revision are chosen. *)
ChosenOfRevision ==
    setup.v2 => \A p \in setup.platforms :
        setup.chosen[p] # Missing => setup.chosen[p].rev = setup.rev

(* The pair of a checked platform fits as long as no version is reused. *)
CheckedFits ==
    setup.v2 => \A p \in setup.checked :
        {setup.chosen[p].fe, setup.chosen[p].tc} \cap reused = {} =>
            ValidatePairIdentity(p, setup.chosen[p])

(* An installer that is through leaves what it was for. *)
InstallersLeave ==
    /\ setup.at \in {"toolchain", "record"} => disk[setup.chosen[setup.platform].fe] # Missing
    /\ setup.at = "record" => disk[setup.chosen[setup.platform].tc] # Missing

CommandInv ==
    /\ FallbackOnlyWhenAbsent /\ InstallsAfterAllChecks
    /\ Progresses /\ ChosenOfRevision /\ CheckedFits /\ InstallersLeave

CatalogInv == CatalogTypeOK /\ MachineInv /\ CommandInv

-----------------------------------------------------------------------------
LEMMA NoSetupTyped == NoSetup \in SetupCommand
BY CatalogAssumption DEF NoSetup, SetupCommand, SetupPhases

(* Where no command is, there is nothing to keep. *)
LEMMA NoSetupInv == ASSUME setup = NoSetup PROVE CommandInv
<1>1. /\ setup.at = "none" /\ setup.v2 = FALSE /\ setup.source = "none" /\ setup.checked = {}
  BY DEF NoSetup
<1> QED
  BY <1>1 DEF CommandInv, FallbackOnlyWhenAbsent, InstallsAfterAllChecks, Progresses,
      ChosenOfRevision, CheckedFits, InstallersLeave

LEMMA InitInv == CatalogInit => CatalogInv
<1> SUFFICES ASSUME CatalogInit PROVE CatalogInv
  OBVIOUS
<1> USE DEF CatalogInit, CatalogReset
<1>1. CatalogTypeOK
  <2>1. \A n \in ToolVersions : registry[n] \in ManifestsOf[n]
    <3> TAKE n \in ToolVersions
    <3>1. \E m \in ManifestsOf[n] : m # Missing
      BY CatalogAssumption
    <3> QED
      BY <3>1
  <2>2. /\ setup.at = "none" /\ setup.v2 = FALSE /\ setup.rev = Missing
        /\ setup.todo = {} /\ setup.checked = {}
    BY DEF NoSetup
  <2> QED
    BY <2>1, <2>2, NoSetupTyped, CatalogAssumption DEF CatalogTypeOK
<1>2. MachineInv
  BY CatalogAssumption DEF MachineInv, DiskIsRegistry, ReadyIsThere, InstalledAsAsked
<1>3. CommandInv
  BY NoSetupInv
<1> QED
  BY <1>1, <1>2, <1>3 DEF CatalogInv

(* A checked pair still fits while the registry says the same of it.       *)
LEMMA FitsKept ==
    ASSUME CheckedFits, UNCHANGED <<registry, reused>>, setup'.v2 = setup.v2,
           setup'.chosen = setup.chosen, setup'.checked \subseteq setup.checked
    PROVE  CheckedFits'
<1> SUFFICES ASSUME setup'.v2, NEW q \in setup'.checked,
                    {(setup.chosen[q])'.fe, (setup.chosen[q])'.tc} \cap reused' = {}
             PROVE  ValidatePairIdentity(q, setup.chosen[q])'
  BY DEF CheckedFits
<1>1. (setup.chosen[q])' = setup.chosen[q] /\ registry' = registry
  OBVIOUS
<1>2. ValidatePairIdentity(q, setup.chosen[q])
  BY <1>1 DEF CheckedFits
<1> QED
  BY <1>1, <1>2 DEF ValidatePairIdentity, BoundPair, AllowsLegacyDart

-----------------------------------------------------------------------------
(* The publisher *)

(* Documents and archives are looked at when a command asks for them. *)
LEMMA DocumentsKeepInv ==
    ASSUME CatalogInv,
           \/ PublishCatalog1 \/ PublishCatalog2
           \/ \E n \in ToolVersions : LoseArchive(n)
    PROVE CatalogInv'
<1>1. UNCHANGED <<registry, reused, disk, ready, asked, setup, badReplies>>
  BY DEF PublishCatalog1, PublishCatalog2, LoseArchive, machine
<1>2. CatalogTypeOK'
  BY <1>1, CatalogAssumption
  DEF CatalogInv, CatalogTypeOK, PublishCatalog1, PublishCatalog2, LoseArchive, Happens
<1>3. MachineInv'
  BY <1>1 DEF CatalogInv, MachineInv, DiskIsRegistry, ReadyIsThere, InstalledAsAsked, Fits
<1>4. CommandInv'
  BY <1>1 DEF CatalogInv, CommandInv, FallbackOnlyWhenAbsent, InstallsAfterAllChecks, Progresses,
      ChosenOfRevision, CheckedFits, InstallersLeave, ValidatePairIdentity, BoundPair, AllowsLegacyDart
<1> QED
  BY <1>2, <1>3, <1>4 DEF CatalogInv

(* A version that is used again is excepted from then on. *)
LEMMA ReuseKeepsInv ==
    ASSUME CatalogInv, NEW n \in ToolVersions, ReuseVersion(n)
    PROVE CatalogInv'
<1>1. /\ UNCHANGED <<disk, ready, asked, setup, catalog1, catalog2, gone, badReplies>>
      /\ reused' = reused \cup {n} /\ reused' \subseteq ToolVersions
      /\ events < MaxEvents /\ events' = events + 1
  BY DEF ReuseVersion, machine, Happens, CatalogInv, CatalogTypeOK
<1>2. /\ DOMAIN registry' = ToolVersions
      /\ \A k \in ToolVersions : registry'[k] \in ManifestsOf[k]
      /\ \A k : k # n => registry'[k] = registry[k]
  <2>1. PICK m \in ManifestsOf[n] : registry' = [registry EXCEPT ![n] = m]
    BY DEF ReuseVersion
  <2> QED
    BY <2>1 DEF CatalogInv, CatalogTypeOK
<1>3. CatalogTypeOK'
  BY <1>1, <1>2, CatalogAssumption DEF CatalogInv, CatalogTypeOK
<1>4. MachineInv'
  BY <1>1, <1>2 DEF CatalogInv, MachineInv, DiskIsRegistry, ReadyIsThere, InstalledAsAsked, Fits
<1>5. CommandInv'
  <2>1. CheckedFits'
    BY SMTT(30), <1>1, <1>2 DEF CatalogInv, CommandInv, CheckedFits, ValidatePairIdentity, BoundPair, AllowsLegacyDart
  <2> QED
    BY <1>1, <2>1 DEF CatalogInv, CommandInv, FallbackOnlyWhenAbsent, InstallsAfterAllChecks,
        Progresses, ChosenOfRevision, InstallersLeave
<1> QED
  BY <1>3, <1>4, <1>5 DEF CatalogInv

-----------------------------------------------------------------------------
(* The command: most of its steps leave the machine as it is *)

LEMMA MachineKept ==
    ASSUME CatalogInv, UNCHANGED <<registry, reused, disk, ready, asked>>
    PROVE MachineInv'
BY DEF CatalogInv, MachineInv, DiskIsRegistry, ReadyIsThere, InstalledAsAsked, Fits

(* A step of the command is typed if the command it leaves is. *)
LEMMA CommandTyped ==
    ASSUME CatalogInv, UNCHANGED <<published, machine>>, badReplies' \in 0 .. MaxBadReplies,
           setup' \in SetupCommand, setup'.v2 <=> setup'.rev # Missing,
           setup'.todo \cup setup'.checked \subseteq setup'.platforms,
           setup'.at \in {"preflight", "frontend", "toolchain", "record"} =>
               \A p \in setup'.platforms : setup'.chosen[p] # Missing
    PROVE CatalogTypeOK'
BY DEF CatalogInv, CatalogTypeOK, published, machine

(* Every refusal ends the command and nothing else. *)
LEMMA RefusalKeepsInv ==
    ASSUME CatalogInv, setup' = NoSetup, UNCHANGED <<published, machine>>,
           badReplies' \in 0 .. MaxBadReplies
    PROVE CatalogInv'
<1>1. CommandInv'
  BY NoSetupInv DEF CommandInv, FallbackOnlyWhenAbsent, InstallsAfterAllChecks, Progresses,
      ChosenOfRevision, CheckedFits, InstallersLeave, NoSetup
<1>2. CatalogTypeOK'
  <2>1. /\ setup'.v2 = FALSE /\ setup'.rev = Missing /\ setup'.at = "none"
        /\ setup'.todo = {} /\ setup'.checked = {} /\ setup' \in SetupCommand
    BY NoSetupTyped DEF NoSetup
  <2> QED
    BY <2>1, CommandTyped
<1>3. MachineInv'
  BY MachineKept DEF published, machine
<1> QED
  BY <1>1, <1>2, <1>3 DEF CatalogInv

(* A reply, good or bad, is counted within the bound. *)
LEMMA ReceivedTyped ==
    ASSUME CatalogInv, NEW doc, NEW reply \in Replies(doc), Received(reply, doc)
    PROVE badReplies' \in 0 .. MaxBadReplies /\ reply.doc = doc /\ (reply.found <=> doc # Missing)
<1>1. CASE reply = Reply(doc)
  BY <1>1 DEF Received, Reply, CatalogInv, CatalogTypeOK
<1>2. CASE reply # Reply(doc)
  <2>1. badReplies < MaxBadReplies /\ doc # Missing /\ reply \in BadReplies(doc)
    BY <1>2 DEF Replies
  <2>2. reply.doc = doc /\ (reply.found <=> doc # Missing)
    BY <2>1 DEF BadReplies, Reply
  <2>3. badReplies' \in 0 .. MaxBadReplies
    BY <1>2, <2>1, CatalogAssumption DEF Received, CatalogInv, CatalogTypeOK
  <2> QED
    BY <2>2, <2>3
<1> QED
  BY <1>1, <1>2

LEMMA BeginKeepsInv ==
    ASSUME CatalogInv, NEW v2 \in BOOLEAN, NEW rev \in Revisions \cup {Missing},
           v2 <=> rev # Missing, NEW platforms \in SUBSET SetupPlatforms, NEW force \in BOOLEAN,
           Begin(v2, rev, platforms, force)
    PROVE CatalogInv'
<1>1. /\ setup' \in SetupCommand /\ setup'.at = "catalog" /\ setup'.v2 = v2 /\ setup'.rev = rev
      /\ setup'.platforms = platforms /\ setup'.todo = {} /\ setup'.checked = {}
      /\ setup'.source = "none" /\ \A p \in SetupPlatforms : setup'.chosen[p] = Missing
  <2>1. setup' = [at |-> "catalog", v2 |-> v2, rev |-> rev, force |-> force, platforms |-> platforms,
                  todo |-> {}, platform |-> Missing, chosen |-> [p \in SetupPlatforms |-> Missing],
                  source |-> "none", from |-> {}, absent |-> FALSE, checked |-> {}]
    BY DEF Begin, NoSetup
  <2> QED
    BY <2>1 DEF SetupCommand, SetupPhases
<1>2. CatalogTypeOK'
  <2>1. badReplies' \in 0 .. MaxBadReplies /\ UNCHANGED <<published, machine>>
    BY DEF Begin, CatalogInv, CatalogTypeOK
  <2> QED
    BY <1>1, <2>1, CommandTyped
<1>3. MachineInv'
  BY MachineKept DEF Begin, published, machine
<1>4. CommandInv'
  BY <1>1 DEF CommandInv, FallbackOnlyWhenAbsent, InstallsAfterAllChecks, Progresses,
      ChosenOfRevision, CheckedFits, InstallersLeave
<1> QED
  BY <1>2, <1>3, <1>4 DEF CatalogInv

Documents == ({"v1"} \X Catalogs1) \cup ({"v2"} \X Catalogs2)

(* Every platform's pair comes from one document. *)
LEMMA ResolvedKeepsInv ==
    ASSUME CatalogInv, AtPhase("catalog"), NEW doc, NEW version \in {"v1", "v2"}, NEW selected,
           <<version, doc>> \in Documents, Resolved(doc, version, selected),
           \A p \in setup.platforms :
               selected[p] \in Selection /\ (setup.v2 => selected[p].rev = setup.rev),
           UNCHANGED <<published, machine>>, badReplies' \in 0 .. MaxBadReplies
    PROVE CatalogInv'
<1> DEFINE chosen == [p \in SetupPlatforms |-> IF p \in setup.platforms THEN selected[p] ELSE Missing]
<1>1. setup \in SetupCommand /\ setup.checked = {} /\ setup.platforms \subseteq SetupPlatforms
  BY DEF CatalogInv, CatalogTypeOK, CommandInv, Progresses, AtPhase, SetupCommand
<1>2. chosen \in [SetupPlatforms -> Selection \cup {Missing}]
  OBVIOUS
<1>3. setup' = [setup EXCEPT !.at = "preflight", !.todo = setup.platforms, !.from = {<<version, doc>>},
                             !.source = version, !.chosen = chosen]
  BY DEF Resolved
<1> HIDE DEF chosen
<1>4. /\ setup'.at = "preflight" /\ setup'.todo = setup.platforms /\ setup'.platforms = setup.platforms
      /\ setup'.checked = {} /\ setup'.source = version /\ setup'.chosen = chosen
      /\ setup'.v2 = setup.v2 /\ setup'.rev = setup.rev
  BY <1>1, <1>3 DEF SetupCommand
<1>5. setup' \in SetupCommand
  BY ZenonT(30), <1>1, <1>2, <1>3 DEF SetupCommand, SetupPhases, Documents
<1>6. \A p \in setup.platforms : chosen[p] # Missing /\ (setup.v2 => chosen[p].rev = setup.rev)
  BY <1>1, CatalogAssumption DEF chosen
<1>7. CatalogTypeOK'
  <2>1. setup.v2 <=> setup.rev # Missing
    BY DEF CatalogInv, CatalogTypeOK
  <2> QED
    BY <1>4, <1>5, <1>6, <2>1, CommandTyped
<1>8. MachineInv'
  BY MachineKept DEF published, machine
<1>9. CommandInv'
  BY <1>4, <1>6 DEF CommandInv, FallbackOnlyWhenAbsent, InstallsAfterAllChecks, Progresses,
      ChosenOfRevision, CheckedFits, InstallersLeave
<1> QED
  BY <1>7, <1>8, <1>9 DEF CatalogInv

LEMMA FetchKeepsInv == ASSUME CatalogInv, FetchCatalog PROVE CatalogInv'
<1>1. PICK reply \in Replies(catalog1) :
          /\ Received(reply, catalog1)
          /\ IF Verified(reply) /\ \A p \in setup.platforms : reply.doc[p] # Missing
             THEN Resolved(reply.doc, "v1", [p \in setup.platforms |->
                      [fe |-> reply.doc[p].fe, tc |-> reply.doc[p].tc, rev |-> Missing]])
             ELSE RefuseSetup
  BY DEF FetchCatalog
<1>2. UNCHANGED <<published, machine>> /\ AtPhase("catalog") /\ ~setup.v2
  BY DEF FetchCatalog
<1>3. badReplies' \in 0 .. MaxBadReplies /\ reply.doc = catalog1
  BY <1>1, ReceivedTyped
<1>4. CASE Verified(reply) /\ \A p \in setup.platforms : reply.doc[p] # Missing
  <2> DEFINE selected == [p \in setup.platforms |->
                             [fe |-> catalog1[p].fe, tc |-> catalog1[p].tc, rev |-> Missing]]
  <2>1. catalog1 \in Catalogs1 /\ setup.platforms \subseteq SetupPlatforms
    BY DEF CatalogInv, CatalogTypeOK, SetupCommand
  <2>2. \A p \in setup.platforms : catalog1[p] \in Pairs
    BY <1>3, <1>4, <2>1, CatalogAssumption
  <2>3. \A p \in setup.platforms : selected[p] \in Selection
    BY <2>2 DEF Pairs, Selection
  <2>4. Resolved(catalog1, "v1", selected) /\ <<"v1", catalog1>> \in Documents
    BY <1>1, <1>3, <1>4, <2>1 DEF Documents
  <2> HIDE DEF selected
  <2> QED
    BY <1>2, <1>3, <2>3, <2>4, ResolvedKeepsInv
<1>5. CASE ~(Verified(reply) /\ \A p \in setup.platforms : reply.doc[p] # Missing)
  BY <1>1, <1>2, <1>3, <1>5, RefusalKeepsInv DEF RefuseSetup
<1> QED
  BY <1>4, <1>5

LEMMA FetchV2KeepsInv == ASSUME CatalogInv, FetchCatalogV2 PROVE CatalogInv'
<1>1. PICK reply \in Replies(catalog2) :
          /\ Received(reply, catalog2)
          /\ IF FallsBack(reply)
             THEN setup' = [setup EXCEPT !.at = "fallback", !.todo = setup.platforms,
                                         !.source = "v1-fallback", !.absent = catalog2 = Missing]
             ELSE IF Verified(reply) /\ Selectable(reply.doc)
             THEN Resolved(reply.doc, "v2", [p \in setup.platforms |->
                                           CHOOSE e \in Select(reply.doc, p) : TRUE])
             ELSE RefuseSetup
  BY DEF FetchCatalogV2
<1>2. UNCHANGED <<published, machine>> /\ AtPhase("catalog") /\ setup.v2
  BY DEF FetchCatalogV2
<1>3. badReplies' \in 0 .. MaxBadReplies /\ reply.doc = catalog2 /\ (reply.found <=> catalog2 # Missing)
  BY <1>1, ReceivedTyped
<1>4. /\ setup \in SetupCommand /\ setup.platforms \subseteq SetupPlatforms /\ setup.rev \in Revisions
      /\ setup.checked = {} /\ setup.rev # Missing
  BY <1>2 DEF CatalogInv, CatalogTypeOK, CommandInv, Progresses, AtPhase, SetupCommand
<1>5. CASE FallsBack(reply)
  <2>1. setup' = [setup EXCEPT !.at = "fallback", !.todo = setup.platforms,
                               !.source = "v1-fallback", !.absent = catalog2 = Missing]
    BY <1>1, <1>5
  <2>2. /\ setup'.at = "fallback" /\ setup'.todo = setup.platforms /\ setup'.platforms = setup.platforms
        /\ setup'.checked = {} /\ setup'.absent /\ setup'.chosen = setup.chosen
        /\ setup'.v2 = setup.v2 /\ setup'.rev = setup.rev
    BY <1>3, <1>4, <1>5, <2>1 DEF SetupCommand, FallsBack
  <2>3. setup' \in SetupCommand
    BY ZenonT(30), <1>4, <2>1 DEF SetupCommand, SetupPhases
  <2>4. CatalogTypeOK'
    BY <1>2, <1>3, <1>4, <2>2, <2>3, CommandTyped
  <2>5. MachineInv'
    BY <1>2, MachineKept DEF published, machine
  <2>6. CommandInv'
    BY <2>2 DEF CatalogInv, CommandInv, FallbackOnlyWhenAbsent, InstallsAfterAllChecks, Progresses,
        ChosenOfRevision, CheckedFits, InstallersLeave
  <2> QED
    BY <2>4, <2>5, <2>6 DEF CatalogInv
<1>6. CASE ~FallsBack(reply) /\ Verified(reply) /\ Selectable(reply.doc)
  <2> DEFINE selected == [p \in setup.platforms |-> CHOOSE e \in Select(catalog2, p) : TRUE]
  <2>1. catalog2 \in Catalogs2
    BY <1>3, <1>6 DEF FallsBack, CatalogInv, CatalogTypeOK
  <2>2. ASSUME NEW p \in setup.platforms
        PROVE selected[p] \in Selection /\ selected[p].rev = setup.rev
    <3>1. selected[p] \in Select(catalog2, p)
      BY <1>3, <1>6 DEF Selectable
    <3>2. catalog2[p] # Missing /\ p \in SetupPlatforms
      BY <1>3, <1>4, <1>6 DEF Selectable
    <3>3. catalog2[p] \subseteq [rev : Revisions, fe : Frontends, tc : Toolchains]
      BY <2>1, <3>2, CatalogAssumption
    <3> QED
      BY <3>1, <3>3 DEF Select, Selection
  <2>3. Resolved(catalog2, "v2", selected) /\ <<"v2", catalog2>> \in Documents
    BY <1>1, <1>3, <1>6, <2>1 DEF Documents
  <2> HIDE DEF selected
  <2> QED
    BY <1>2, <1>3, <2>2, <2>3, ResolvedKeepsInv
<1>7. CASE ~FallsBack(reply) /\ ~(Verified(reply) /\ Selectable(reply.doc))
  BY <1>1, <1>2, <1>3, <1>7, RefusalKeepsInv DEF RefuseSetup
<1> QED
  BY <1>5, <1>6, <1>7

LEMMA FallbackKeepsInv == ASSUME CatalogInv, NEW p \in SetupPlatforms, Fallback(p) PROVE CatalogInv'
<1>1. PICK reply \in Replies(catalog1) :
          /\ Received(reply, catalog1)
          /\ IF Verified(reply) /\ reply.doc[p] # Missing /\ ServesRevision(reply.doc[p])
             THEN setup' = [setup EXCEPT
                      !.chosen[p] = [fe |-> reply.doc[p].fe, tc |-> reply.doc[p].tc, rev |-> setup.rev],
                      !.from = @ \cup {<<"v1", reply.doc>>},
                      !.at = AfterFallback(p), !.todo = TodoAfter(p)]
             ELSE RefuseSetup
  BY DEF Fallback
<1>2. UNCHANGED <<published, machine>> /\ setup.at = "fallback" /\ p \in setup.todo
  BY DEF Fallback, AtPhase
<1>3. badReplies' \in 0 .. MaxBadReplies /\ reply.doc = catalog1
  BY <1>1, ReceivedTyped
<1>4. CASE Verified(reply) /\ reply.doc[p] # Missing /\ ServesRevision(reply.doc[p])
  <2> DEFINE pair == [fe |-> catalog1[p].fe, tc |-> catalog1[p].tc, rev |-> setup.rev]
             chosen == [setup.chosen EXCEPT ![p] = pair]
  <2>1. /\ setup \in SetupCommand /\ setup.checked = {} /\ setup.todo \subseteq setup.platforms
        /\ setup.platforms \subseteq SetupPlatforms /\ (setup.v2 <=> setup.rev # Missing)
        /\ catalog1 \in Catalogs1 /\ setup.rev \in Revisions \cup {Missing}
        /\ setup.chosen \in [SetupPlatforms -> Selection \cup {Missing}]
    BY <1>2 DEF CatalogInv, CatalogTypeOK, CommandInv, Progresses, SetupCommand
  <2>2. pair \in Selection /\ pair.rev = setup.rev /\ pair # Missing
    <3>1. catalog1[p] \in Pairs
      BY <1>3, <1>4, <2>1, CatalogAssumption
    <3> QED
      BY <3>1, <2>1, CatalogAssumption DEF Pairs, Selection
  <2>3. setup' = [setup EXCEPT !.chosen = chosen, !.from = @ \cup {<<"v1", catalog1>>},
                               !.at = AfterFallback(p), !.todo = TodoAfter(p)]
    BY <1>1, <1>3, <1>4
  <2>4. /\ chosen \in [SetupPlatforms -> Selection \cup {Missing}] /\ chosen[p] = pair
        /\ \A q \in SetupPlatforms \ {p} : chosen[q] = setup.chosen[q]
    BY <2>1, <2>2
  <2> HIDE DEF pair, chosen
  <2>5. /\ setup'.at = AfterFallback(p) /\ setup'.todo = TodoAfter(p) /\ setup'.chosen = chosen
        /\ setup'.platforms = setup.platforms /\ setup'.checked = {} /\ setup'.v2 = setup.v2
        /\ setup'.rev = setup.rev /\ setup'.source = setup.source /\ setup'.absent = setup.absent
    BY <2>1, <2>3 DEF SetupCommand
  <2>6. AfterFallback(p) \in {"preflight", "fallback"} /\ TodoAfter(p) \subseteq setup.platforms
    BY <2>1 DEF AfterFallback, TodoAfter
  <2>7. setup' \in SetupCommand
    <3>1. setup.from \cup {<<"v1", catalog1>>} \in SUBSET Documents
      BY <2>1 DEF SetupCommand, Documents
    <3>2. AfterFallback(p) \in SetupPhases /\ TodoAfter(p) \in SUBSET SetupPlatforms
      BY <2>1, <2>6 DEF SetupPhases
    <3> QED
      BY <2>1, <2>3, <2>4, <3>1, <3>2 DEF SetupCommand, Documents
  <2>8. \A q \in setup.platforms \ setup.todo : setup.chosen[q] # Missing
    BY <1>2 DEF CatalogInv, CommandInv, Progresses
  <2>9. \/ /\ setup.todo = {p} /\ AfterFallback(p) = "preflight" /\ TodoAfter(p) = setup.platforms
           /\ \A q \in setup.platforms : chosen[q] # Missing
        \/ /\ AfterFallback(p) = "fallback" /\ TodoAfter(p) = setup.todo \ {p}
           /\ \A q \in setup.platforms \ TodoAfter(p) : chosen[q] # Missing
    BY <2>1, <2>2, <2>4, <2>8 DEF AfterFallback, TodoAfter
  <2>10. CatalogTypeOK'
    BY <1>2, <1>3, <2>1, <2>5, <2>6, <2>7, <2>9, CommandTyped
  <2>11. MachineInv'
    BY <1>2, MachineKept DEF published, machine
  <2>12. CommandInv'
    <3>1. ChosenOfRevision'
      BY <2>1, <2>2, <2>4, <2>5 DEF CatalogInv, CommandInv, ChosenOfRevision
    <3>2. Progresses' /\ InstallsAfterAllChecks' /\ InstallersLeave'
      BY <2>5, <2>6, <2>9 DEF Progresses, InstallsAfterAllChecks, InstallersLeave
    <3>3. FallbackOnlyWhenAbsent' /\ CheckedFits'
      BY <2>5 DEF CatalogInv, CommandInv, FallbackOnlyWhenAbsent, CheckedFits
    <3> QED
      BY <3>1, <3>2, <3>3 DEF CommandInv
  <2> QED
    BY <2>10, <2>11, <2>12 DEF CatalogInv
<1>5. CASE ~(Verified(reply) /\ reply.doc[p] # Missing /\ ServesRevision(reply.doc[p]))
  BY <1>1, <1>2, <1>3, <1>5, RefusalKeepsInv DEF RefuseSetup
<1> QED
  BY <1>4, <1>5

LEMMA PreflightKeepsInv == ASSUME CatalogInv, NEW p \in SetupPlatforms, Preflight(p) PROVE CatalogInv'
<1> DEFINE s == setup.chosen[p]
           valid == /\ Registered(s.fe, s.tc)
                    /\ IF setup.v2 THEN ValidatePairIdentity(p, s) ELSE BoundPair(p, s)
                    /\ {s.fe, s.tc} \cap gone = {}
<1>1. /\ setup.at = "preflight" /\ p \in setup.todo /\ UNCHANGED <<published, machine, badReplies>>
      /\ IF valid
         THEN setup' = [setup EXCEPT !.checked = @ \cup {p}, !.at = AfterPreflight(p), !.todo = TodoAfter(p)]
         ELSE RefuseSetup
  BY DEF Preflight, AtPhase
<1>2. setup.v2 /\ valid => ValidatePairIdentity(p, s)
  OBVIOUS
<1> HIDE DEF valid
<1>3. badReplies' \in 0 .. MaxBadReplies /\ UNCHANGED <<registry, reused, disk, ready, asked>>
  BY <1>1 DEF CatalogInv, CatalogTypeOK, published, machine
<1>4. CASE ~valid
  BY <1>1, <1>3, <1>4, RefusalKeepsInv DEF RefuseSetup
<1>5. CASE valid
  <2>1. /\ setup \in SetupCommand /\ setup.todo \cup setup.checked \subseteq setup.platforms
        /\ setup.platforms \subseteq setup.checked \cup setup.todo
        /\ (setup.v2 <=> setup.rev # Missing) /\ setup.platforms \subseteq SetupPlatforms
        /\ \A q \in setup.platforms : setup.chosen[q] # Missing
    BY <1>1 DEF CatalogInv, CatalogTypeOK, CommandInv, Progresses, SetupCommand
  <2>2. setup' = [setup EXCEPT !.checked = @ \cup {p}, !.at = AfterPreflight(p), !.todo = TodoAfter(p)]
    BY <1>1, <1>5
  <2>3. /\ setup'.at = AfterPreflight(p) /\ setup'.todo = TodoAfter(p)
        /\ setup'.checked = setup.checked \cup {p} /\ setup'.chosen = setup.chosen
        /\ setup'.platforms = setup.platforms /\ setup'.v2 = setup.v2 /\ setup'.rev = setup.rev
        /\ setup'.source = setup.source /\ setup'.absent = setup.absent
    BY <2>1, <2>2 DEF SetupCommand
  <2>4. \/ /\ setup.todo = {p} /\ AfterPreflight(p) = "frontend" /\ TodoAfter(p) = setup.platforms
           /\ setup.checked \cup {p} = setup.platforms
        \/ AfterPreflight(p) = "preflight" /\ TodoAfter(p) = setup.todo \ {p}
    BY <1>1, <2>1 DEF AfterPreflight, TodoAfter
  <2>5. setup' \in SetupCommand
    BY <2>1, <2>2, <2>4 DEF SetupCommand, SetupPhases
  <2>6. CatalogTypeOK'
    BY <1>1, <1>3, <2>1, <2>3, <2>4, <2>5, CommandTyped
  <2>7. MachineInv'
    BY <1>3, MachineKept
  <2>8. CommandInv'
    <3>1. CheckedFits'
      <4>1. setup.v2 => ValidatePairIdentity(p, setup.chosen[p])
        BY <1>2, <1>5
      <4>2. ASSUME NEW q PROVE ValidatePairIdentity(q, setup.chosen[q])' <=> ValidatePairIdentity(q, setup.chosen[q])
        <5>1. registry' = registry /\ (setup.chosen[q])' = setup.chosen[q]
          BY <1>3, <2>3
        <5> QED
          BY <5>1 DEF ValidatePairIdentity, BoundPair, AllowsLegacyDart
      <4>3. \A q : {(setup.chosen[q])'.fe, (setup.chosen[q])'.tc} \cap reused' = {setup.chosen[q].fe, setup.chosen[q].tc} \cap reused
        BY <1>3, <2>3
      <4>4. \A q \in setup.checked : setup.v2 /\ {setup.chosen[q].fe, setup.chosen[q].tc} \cap reused = {} =>
                ValidatePairIdentity(q, setup.chosen[q])
        <5>1. CheckedFits
          BY DEF CatalogInv, CommandInv
        <5> QED
          BY <5>1 DEF CheckedFits
      <4> QED
        BY <1>3, <2>3, <4>1, <4>2, <4>3, <4>4 DEF CheckedFits
    <3>2. Progresses' /\ InstallsAfterAllChecks' /\ InstallersLeave'
      BY <2>1, <2>3, <2>4 DEF Progresses, InstallsAfterAllChecks, InstallersLeave
    <3>3. FallbackOnlyWhenAbsent' /\ ChosenOfRevision'
      BY <2>3 DEF CatalogInv, CommandInv, FallbackOnlyWhenAbsent, ChosenOfRevision
    <3> QED
      BY <3>1, <3>2, <3>3 DEF CommandInv
  <2> QED
    BY <2>6, <2>7, <2>8 DEF CatalogInv
<1> QED
  BY <1>4, <1>5

LEMMA RequestFailsKeepsInv == ASSUME CatalogInv, RequestFails PROVE CatalogInv'
<1>1. badReplies' \in 0 .. MaxBadReplies
  BY CatalogAssumption DEF RequestFails, CatalogInv, CatalogTypeOK
<1> QED
  BY <1>1, RefusalKeepsInv DEF RequestFails, RefuseSetup

-----------------------------------------------------------------------------
(* The installers *)

(* What an installer leaves on the disk: what it found, or what the        *)
(* registry serves; nothing that was there goes.                           *)
LEMMA ObtainLeaves ==
    ASSUME CatalogInv, NEW n \in ToolVersions, NEW valid \in BOOLEAN, NEW next, Obtain(n, valid, next)
    PROVE /\ DOMAIN disk' = ToolVersions
          /\ \A k \in ToolVersions : disk'[k] \in {disk[k], registry[k]}
          /\ \A k \in ToolVersions : disk[k] # Missing => disk'[k] # Missing
          /\ setup' = NoSetup \/ (setup' = next /\ disk'[n] # Missing)
<1>1. CASE ~setup.force /\ disk[n] # Missing
  BY <1>1 DEF Obtain, CatalogInv, CatalogTypeOK
<1>2. CASE ~(~setup.force /\ disk[n] # Missing) /\ registry[n] # Missing /\ valid /\ n \notin gone
  BY <1>2 DEF Obtain, CatalogInv, CatalogTypeOK
<1>3. CASE ~(~setup.force /\ disk[n] # Missing) /\ ~(registry[n] # Missing /\ valid /\ n \notin gone)
  BY <1>3 DEF Obtain, RefuseSetup, CatalogInv, CatalogTypeOK
<1> QED
  BY <1>1, <1>2, <1>3

(* Such a step leaves what other platforms run as it was. *)
LEMMA ObtainKeepsMachine ==
    ASSUME CatalogInv, UNCHANGED <<registry, reused, ready, asked>>,
           \A k \in ToolVersions : disk'[k] \in {disk[k], registry[k]},
           \A k \in ToolVersions : disk[k] # Missing => disk'[k] # Missing
    PROVE MachineInv'
<1>1. \A p \in SetupPlatforms : ready[p] # Missing =>
          ready[p].fe \in ToolVersions /\ ready[p].tc \in ToolVersions
  BY DEF CatalogInv, CatalogTypeOK, Pairs, ToolVersions
<1>2. DiskIsRegistry' /\ ReadyIsThere'
  BY <1>1 DEF CatalogInv, MachineInv, DiskIsRegistry, ReadyIsThere
<1>3. InstalledAsAsked'
  <2> SUFFICES ASSUME NEW p \in SetupPlatforms, asked[p] # Missing,
                      {ready[p].fe, ready[p].tc} \cap reused = {}
               PROVE /\ disk'[ready[p].fe] = disk[ready[p].fe]
                     /\ disk'[ready[p].tc] = disk[ready[p].tc]
    BY DEF CatalogInv, MachineInv, InstalledAsAsked, Fits
  <2>1. /\ ready[p].fe \in ToolVersions \ reused /\ disk[ready[p].fe] # Missing
        /\ ready[p].tc \in ToolVersions \ reused /\ disk[ready[p].tc] # Missing
    BY <1>1 DEF CatalogInv, MachineInv, ReadyIsThere
  <2> QED
    BY <2>1 DEF CatalogInv, MachineInv, DiskIsRegistry
<1> QED
  BY <1>2, <1>3 DEF MachineInv

(* Between the preflight and the record, everything asked for is checked   *)
(* and chosen.                                                             *)
LEMMA Installing ==
    ASSUME CatalogInv, setup.at \in {"frontend", "toolchain", "record"}
    PROVE /\ setup \in SetupCommand /\ (setup.v2 <=> setup.rev # Missing)
          /\ setup.checked = setup.platforms /\ setup.todo \subseteq setup.platforms
          /\ setup.platforms \subseteq SetupPlatforms
          /\ \A q \in setup.platforms :
                 /\ setup.chosen[q] # Missing /\ setup.chosen[q] \in Selection
                 /\ setup.chosen[q].fe \in ToolVersions /\ setup.chosen[q].tc \in ToolVersions
<1>1. /\ setup \in SetupCommand /\ (setup.v2 <=> setup.rev # Missing)
      /\ setup.checked = setup.platforms /\ setup.todo \subseteq setup.platforms
      /\ setup.platforms \subseteq SetupPlatforms
      /\ \A q \in setup.platforms : setup.chosen[q] # Missing
      /\ setup.chosen \in [SetupPlatforms -> Selection \cup {Missing}]
  BY DEF CatalogInv, CatalogTypeOK, CommandInv, InstallsAfterAllChecks, SetupCommand
<1>2. \A q \in setup.platforms : setup.chosen[q] \in Selection
  BY <1>1
<1> QED
  BY <1>1, <1>2 DEF Selection, ToolVersions

(* A step of an installer to the next one. *)
LEMMA InstallerKeepsInv ==
    ASSUME CatalogInv, setup.at \in {"frontend", "toolchain"}, NEW n \in ToolVersions,
           NEW valid \in BOOLEAN, NEW next \in SetupCommand, Obtain(n, valid, next),
           UNCHANGED <<published, ready, asked, badReplies>>,
           next.at \in {"toolchain", "record"}, next.platform \in setup.todo,
           \A f \in {"v2", "rev", "platforms", "todo", "chosen", "source", "absent", "checked"} :
               next[f] = setup[f],
           disk[next.chosen[next.platform].fe] # Missing \/ n = next.chosen[next.platform].fe,
           next.at = "record" => n = next.chosen[next.platform].tc
    PROVE CatalogInv'
<1>1. UNCHANGED <<catalog1, catalog2, registry, gone, reused, events, ready, asked, badReplies>>
  BY DEF published
<1>2. /\ DOMAIN disk' = ToolVersions
      /\ \A k \in ToolVersions : disk'[k] \in {disk[k], registry[k]}
      /\ \A k \in ToolVersions : disk[k] # Missing => disk'[k] # Missing
      /\ setup' = NoSetup \/ (setup' = next /\ disk'[n] # Missing)
  BY ObtainLeaves
<1>3. MachineInv'
  BY <1>1, <1>2, ObtainKeepsMachine
<1>4. /\ (setup.v2 <=> setup.rev # Missing) /\ setup.checked = setup.platforms
      /\ setup.todo \subseteq setup.platforms
      /\ \A q \in setup.platforms : setup.chosen[q] # Missing /\ setup.chosen[q].fe \in ToolVersions
  BY Installing
<1>5. /\ DOMAIN registry' = ToolVersions
      /\ \A k \in ToolVersions : /\ registry'[k] \in ManifestsOf[k]
                                  /\ disk'[k] \in ManifestsOf[k] \cup {Missing}
  BY <1>1, <1>2 DEF CatalogInv, CatalogTypeOK
<1>6. CASE setup' = NoSetup
  <2>1. CommandInv'
    BY <1>6, NoSetupInv DEF CommandInv, FallbackOnlyWhenAbsent, InstallsAfterAllChecks, Progresses,
        ChosenOfRevision, CheckedFits, InstallersLeave, NoSetup
  <2>2. /\ setup'.v2 = FALSE /\ setup'.rev = Missing /\ setup'.at = "none"
        /\ setup'.todo = {} /\ setup'.checked = {} /\ setup' \in SetupCommand
    BY <1>6, NoSetupTyped DEF NoSetup
  <2>3. CatalogTypeOK'
    BY <1>1, <1>2, <1>5, <2>2 DEF CatalogInv, CatalogTypeOK
  <2> QED
    BY <1>3, <2>1, <2>3 DEF CatalogInv
<1>7. CASE setup' = next /\ disk'[n] # Missing
  <2>1. /\ setup'.v2 = setup.v2 /\ setup'.rev = setup.rev /\ setup'.platforms = setup.platforms
        /\ setup'.todo = setup.todo /\ setup'.chosen = setup.chosen /\ setup'.source = setup.source
        /\ setup'.absent = setup.absent /\ setup'.checked = setup.checked
        /\ setup'.at \in {"toolchain", "record"} /\ setup'.platform \in setup.todo
        /\ setup' \in SetupCommand
    BY <1>7
  <2>2. CatalogTypeOK'
    BY <1>1, <1>2, <1>4, <1>5, <2>1 DEF CatalogInv, CatalogTypeOK
  <2>3. CommandInv'
    <3>1. FallbackOnlyWhenAbsent' /\ InstallsAfterAllChecks' /\ Progresses' /\ ChosenOfRevision'
      BY <1>4, <2>1 DEF CatalogInv, CommandInv, FallbackOnlyWhenAbsent, InstallsAfterAllChecks,
          Progresses, ChosenOfRevision
    <3>2. CheckedFits'
      <4>1. CheckedFits
        BY DEF CatalogInv, CommandInv
      <4> QED
        BY <1>1, <2>1, <4>1, FitsKept
    <3>3. InstallersLeave'
      BY <1>2, <1>4, <1>7, <2>1 DEF InstallersLeave
    <3> QED
      BY <3>1, <3>2, <3>3 DEF CommandInv
  <2> QED
    BY <1>3, <2>2, <2>3 DEF CatalogInv
<1> QED
  BY <1>2, <1>6, <1>7

LEMMA InstallFrontendKeepsInv ==
    ASSUME CatalogInv, NEW p \in SetupPlatforms, InstallFrontend(p)
    PROVE CatalogInv'
<1> DEFINE fe == setup.chosen[p].fe
           next == [setup EXCEPT !.at = "toolchain", !.platform = p]
<1>1. /\ setup.at = "frontend" /\ p \in setup.todo /\ UNCHANGED <<published, ready, asked, badReplies>>
      /\ Obtain(fe, CheckFrontendIdentity(fe, registry[fe]), next)
  BY DEF InstallFrontend, AtPhase
<1>2. setup \in SetupCommand /\ fe \in ToolVersions
  BY <1>1, Installing
<1>3. /\ next \in SetupCommand /\ next.at = "toolchain" /\ next.platform = p
      /\ \A f \in {"v2", "rev", "platforms", "todo", "chosen", "source", "absent", "checked"} :
             next[f] = setup[f]
  BY <1>2 DEF SetupCommand, SetupPhases
<1>4. next.chosen = setup.chosen
  BY <1>3
<1>5. CheckFrontendIdentity(fe, registry[fe]) \in BOOLEAN
  BY DEF CheckFrontendIdentity
<1> HIDE DEF next
<1> QED
  BY <1>1, <1>2, <1>3, <1>4, <1>5, InstallerKeepsInv

LEMMA InstallToolchainKeepsInv == ASSUME CatalogInv, InstallToolchain PROVE CatalogInv'
<1> DEFINE tc == setup.chosen[setup.platform].tc
           next == [setup EXCEPT !.at = "record"]
<1>1. /\ setup.at = "toolchain" /\ UNCHANGED <<published, ready, asked, badReplies>>
      /\ Obtain(tc, CheckToolchainIdentity(registry[tc]), next)
  BY DEF InstallToolchain, AtPhase
<1>2. /\ setup.platform \in setup.todo
      /\ disk[setup.chosen[setup.platform].fe] # Missing
  BY <1>1 DEF CatalogInv, CommandInv, Progresses, InstallersLeave
<1>3. setup \in SetupCommand /\ tc \in ToolVersions
  BY <1>1, <1>2, Installing
<1>4. /\ next \in SetupCommand /\ next.at = "record" /\ next.platform = setup.platform
      /\ \A f \in {"v2", "rev", "platforms", "todo", "chosen", "source", "absent", "checked"} :
             next[f] = setup[f]
  BY <1>3 DEF SetupCommand, SetupPhases
<1>5. next.chosen = setup.chosen
  BY <1>4
<1>6. CheckToolchainIdentity(registry[tc]) \in BOOLEAN
  BY DEF CheckToolchainIdentity
<1> HIDE DEF next
<1> QED
  BY <1>1, <1>2, <1>3, <1>4, <1>5, <1>6, InstallerKeepsInv

(* What is recorded for a revision was checked against the manifests that  *)
(* are on the disk.                                                        *)
LEMMA RecordKeepsInv == ASSUME CatalogInv, Record PROVE CatalogInv'
<1> DEFINE p == setup.platform
           s == setup.chosen[p]
<1>1. /\ setup.at = "record" /\ UNCHANGED <<published, disk, badReplies>>
      /\ ready' = [ready EXCEPT ![p] = [fe |-> s.fe, tc |-> s.tc]]
      /\ asked' = [asked EXCEPT ![p] = setup.rev]
      /\ setup' = IF setup.todo = {p} THEN NoSetup
                  ELSE [setup EXCEPT !.at = "frontend", !.todo = @ \ {p}, !.platform = Missing]
  BY DEF Record, AtPhase
<1>2. UNCHANGED <<catalog1, catalog2, registry, gone, reused, events>>
  BY <1>1 DEF published
<1>3. /\ setup \in SetupCommand /\ (setup.v2 <=> setup.rev # Missing)
      /\ setup.checked = setup.platforms /\ setup.todo \subseteq setup.platforms
      /\ setup.platforms \subseteq SetupPlatforms
      /\ \A q \in setup.platforms : setup.chosen[q] # Missing
  BY <1>1, Installing
<1>4. p \in setup.todo /\ p \in setup.checked /\ p \in SetupPlatforms
  BY <1>1, <1>3 DEF CatalogInv, CommandInv, Progresses
<1>5. /\ s \in Selection /\ s.fe \in ToolVersions /\ s.tc \in ToolVersions
      /\ s.fe \in Frontends /\ s.tc \in Toolchains
      /\ disk[s.fe] # Missing /\ disk[s.tc] # Missing
  BY <1>1, <1>4, Installing DEF CatalogInv, CommandInv, InstallersLeave, Selection
<1>6. [fe |-> s.fe, tc |-> s.tc] \in Pairs /\ [fe |-> s.fe, tc |-> s.tc] # Missing
  BY <1>5, CatalogAssumption DEF Pairs
<1>7. /\ ready'[p] = [fe |-> s.fe, tc |-> s.tc] /\ asked'[p] = setup.rev
      /\ \A q \in SetupPlatforms \ {p} : ready'[q] = ready[q] /\ asked'[q] = asked[q]
      /\ ready' \in [SetupPlatforms -> Pairs \cup {Missing}]
      /\ asked' \in [SetupPlatforms -> Revisions \cup {Missing}]
  BY <1>1, <1>3, <1>4, <1>6 DEF CatalogInv, CatalogTypeOK, SetupCommand
<1>8. MachineInv'
  <2>1. DiskIsRegistry' /\ ReadyIsThere'
    BY <1>1, <1>2, <1>5, <1>6, <1>7 DEF CatalogInv, MachineInv, DiskIsRegistry, ReadyIsThere
  <2>2. ASSUME setup.rev # Missing, {s.fe, s.tc} \cap reused = {}
        PROVE /\ Fits(p, setup.rev, disk[s.fe], disk[s.tc],
                       \E x \in LegacyPairs : x[1] = s.fe /\ x[2] = s.tc)
              /\ s.tc \in disk[s.fe].compatible
    <3>1. disk[s.fe] = registry[s.fe] /\ disk[s.tc] = registry[s.tc]
      BY <1>5, <2>2 DEF CatalogInv, MachineInv, DiskIsRegistry
    <3>2. ValidatePairIdentity(p, s) /\ s.rev = setup.rev
      BY <1>3, <1>4, <2>2 DEF CatalogInv, CommandInv, CheckedFits, ChosenOfRevision
    <3> QED
      BY <2>2, <3>1, <3>2 DEF ValidatePairIdentity, BoundPair, AllowsLegacyDart, Fits
  <2>3. InstalledAsAsked'
    <3>u. disk' = disk /\ reused' = reused
      BY <1>1, <1>2
    <3> SUFFICES ASSUME NEW q \in SetupPlatforms, asked'[q] # Missing,
                        {ready'[q].fe, ready'[q].tc} \cap reused' = {}
                 PROVE /\ Fits(q, asked'[q], disk'[ready'[q].fe], disk'[ready'[q].tc],
                                \E x \in LegacyPairs : x[1] = ready'[q].fe /\ x[2] = ready'[q].tc)
                       /\ ready'[q].tc \in disk'[ready'[q].fe].compatible
      BY ZenonT(30) DEF InstalledAsAsked, Fits
    <3>1. CASE q = p
      <4>1. ready'[q].fe = s.fe /\ ready'[q].tc = s.tc /\ asked'[q] = setup.rev
        BY <1>7, <3>1
      <4> QED
        BY <2>2, <3>u, <3>1, <4>1 DEF Fits
    <3>2. CASE q # p
      <4>1. ready'[q] = ready[q] /\ asked'[q] = asked[q]
        BY <1>7, <3>2
      <4>2. InstalledAsAsked
        BY DEF CatalogInv, MachineInv
      <4> QED
        BY <3>u, <4>1, <4>2 DEF InstalledAsAsked, Fits
    <3> QED
      BY <3>1, <3>2
  <2> QED
    BY <2>1, <2>3 DEF MachineInv
<1>9. CASE setup.todo = {p}
  <2>1. setup' = NoSetup
    BY <1>1, <1>9
  <2>2. CommandInv'
    BY <2>1, NoSetupInv DEF CommandInv, FallbackOnlyWhenAbsent, InstallsAfterAllChecks, Progresses,
        ChosenOfRevision, CheckedFits, InstallersLeave, NoSetup
  <2>3. /\ setup'.v2 = FALSE /\ setup'.rev = Missing /\ setup'.at = "none"
        /\ setup'.todo = {} /\ setup'.checked = {} /\ setup' \in SetupCommand
    BY <2>1, NoSetupTyped DEF NoSetup
  <2>4. CatalogTypeOK'
    BY <1>1, <1>2, <1>7, <2>3 DEF CatalogInv, CatalogTypeOK
  <2> QED
    BY <1>8, <2>2, <2>4 DEF CatalogInv
<1>10. CASE setup.todo # {p}
  <2>1. setup' = [setup EXCEPT !.at = "frontend", !.todo = @ \ {p}, !.platform = Missing]
    BY <1>1, <1>10
  <2>2. /\ setup'.v2 = setup.v2 /\ setup'.rev = setup.rev /\ setup'.platforms = setup.platforms
        /\ setup'.todo \subseteq setup.todo /\ setup'.chosen = setup.chosen
        /\ setup'.source = setup.source /\ setup'.absent = setup.absent
        /\ setup'.checked = setup.checked /\ setup'.at = "frontend"
    BY <1>3, <2>1 DEF SetupCommand
  <2>3. setup' \in SetupCommand
    BY <1>3, <2>1 DEF SetupCommand, SetupPhases
  <2>4. CatalogTypeOK'
    <3>1. CatalogTypeOK
      BY DEF CatalogInv
    <3>2. UNCHANGED <<catalog1, catalog2, registry, disk, gone, reused, events, badReplies>>
      BY <1>1, <1>2
    <3>3. /\ setup' \in SetupCommand /\ (setup'.v2 <=> setup'.rev # Missing)
          /\ setup'.todo \cup setup'.checked \subseteq setup'.platforms
      BY <1>3, <2>2, <2>3
    <3>4. \A q \in setup'.platforms : setup'.chosen[q] # Missing
      BY <1>3, <2>2
    <3> QED
      BY <1>7, <3>1, <3>2, <3>3, <3>4 DEF CatalogTypeOK
  <2>5. CommandInv'
    <3>1. CheckedFits'
      <4>1. CheckedFits
        BY DEF CatalogInv, CommandInv
      <4> QED
        BY <1>2, <2>2, <4>1, FitsKept
    <3> QED
      BY <1>3, <2>2, <3>1 DEF CatalogInv, CommandInv, FallbackOnlyWhenAbsent, InstallsAfterAllChecks,
          Progresses, ChosenOfRevision, InstallersLeave
  <2> QED
    BY <1>8, <2>4, <2>5 DEF CatalogInv
<1> QED
  BY <1>9, <1>10

-----------------------------------------------------------------------------
LEMMA NextKeepsInv == CatalogInv /\ [CatalogNext]_catalogVars => CatalogInv'
<1> SUFFICES ASSUME CatalogInv, [CatalogNext]_catalogVars PROVE CatalogInv'
  OBVIOUS
<1>1. CASE PublishCatalog1 \/ PublishCatalog2
  BY <1>1, DocumentsKeepInv
<1>2. ASSUME NEW n \in ToolVersions, ReuseVersion(n) \/ LoseArchive(n) PROVE CatalogInv'
  BY <1>2, DocumentsKeepInv, ReuseKeepsInv
<1>3. ASSUME NEW platforms \in SUBSET SetupPlatforms, NEW force \in BOOLEAN, RunSetup(platforms, force)
      PROVE CatalogInv'
  BY <1>3, BeginKeepsInv DEF RunSetup
<1>4. ASSUME NEW platforms \in SUBSET SetupPlatforms, NEW force \in BOOLEAN, NEW rev \in Revisions,
             RunSetupV2(rev, platforms, force)
      PROVE CatalogInv'
  <2>1. rev # Missing /\ Begin(TRUE, rev, platforms, force)
    BY <1>4, CatalogAssumption DEF RunSetupV2
  <2> QED
    BY <2>1, BeginKeepsInv
<1>5. CASE FetchCatalog \/ FetchCatalogV2
  BY <1>5, FetchKeepsInv, FetchV2KeepsInv
<1>6. ASSUME NEW p \in SetupPlatforms, Fallback(p) \/ Preflight(p) \/ InstallFrontend(p)
      PROVE CatalogInv'
  BY <1>6, FallbackKeepsInv, PreflightKeepsInv, InstallFrontendKeepsInv
<1>7. CASE InstallToolchain \/ Record \/ RequestFails
  BY <1>7, InstallToolchainKeepsInv, RecordKeepsInv, RequestFailsKeepsInv
<1>8. CASE UNCHANGED catalogVars
  <2>1. UNCHANGED <<published, machine, setup, badReplies>>
    BY <1>8 DEF catalogVars, published, machine
  <2>2. CatalogTypeOK'
    BY <2>1 DEF CatalogInv, CatalogTypeOK, published, machine
  <2>3. MachineInv'
    BY <2>1, MachineKept DEF published, machine
  <2>4. CommandInv'
    BY <2>1 DEF CatalogInv, CommandInv, FallbackOnlyWhenAbsent, InstallsAfterAllChecks, Progresses,
        ChosenOfRevision, CheckedFits, InstallersLeave, ValidatePairIdentity, BoundPair,
        AllowsLegacyDart, published, machine
  <2> QED
    BY <2>2, <2>3, <2>4 DEF CatalogInv
<1> QED
  BY <1>1, <1>2, <1>3, <1>4, <1>5, <1>6, <1>7, <1>8 DEF CatalogNext

(***************************************************************************)
(* Whatever is published, replaced or lost while it runs, and whichever of *)
(* its requests fail, `soroq setup` (setup_cmd.go, catalog_v2_client.go)   *)
(* reaches its installers only with the pair of every platform verified,   *)
(* takes v1 for v2 only when v2 is not published, and leaves for each      *)
(* platform the pair of the revision it was asked for, unless a version    *)
(* string was published twice.                                             *)
(***************************************************************************)
THEOREM SetupHolds == CatalogSpec => []SetupIsTrue
<1>1. CatalogInv => SetupIsTrue
  BY DEF CatalogInv, MachineInv, CommandInv, SetupIsTrue
<1> QED
  BY InitInv, NextKeepsInv, <1>1, PTL DEF CatalogSpec

(***************************************************************************)
(* Part 2.  DeliveryGates.  Both properties speak of a candidate that was  *)
(* compared stage by stage; LaneInv keeps what each stage found out, so that *)
(* what is published, or refused, is known to have passed, or failed.  The *)
(* comparisons themselves are lemmas about any two artifacts.              *)
(***************************************************************************)

LaneSpec == LaneInit /\ [][LaneNext]_laneVars

(* What lies where in an artifact that was built for the ABIs P.           *)
LibNames == {LibApp, "libflutter.so", "libjni.so"}
AlwaysNames == {"soroq/soroq_metadata.json", "NOTICES.Z", "kernel_blob.bin", "AssetManifest.bin",
                "fonts/Icons.otf", "assets/App"}
IsLib(p) == \E x \in ABIs : \E n \in LibNames : p = Lib(x, n)
IsAsset(p) == \E n \in AlwaysNames \cup {"assets/logo.png"} : p = Asset(n)

BuiltFor(a, P) ==
    /\ P # {} /\ P \subseteq ABIs
    /\ \A p \in DOMAIN a.files : IsLib(p) \/ IsAsset(p) \/ p = <<"classes.dex">>
    /\ \A x \in P : Lib(x, LibApp) \in DOMAIN a.files /\ Lib(x, "libflutter.so") \in DOMAIN a.files
    /\ \A x \in ABIs : Lib(x, LibApp) \in DOMAIN a.files => x \in P
    /\ \A n \in AlwaysNames : Asset(n) \in DOMAIN a.files
    /\ <<"classes.dex">> \in DOMAIN a.files

LEMMA Paths ==
  /\ \A x, n : Lib(x, n)[1] = "lib" /\ Lib(x, n)[2] = x /\ Name(Lib(x, n)) = n
  /\ \A n : Asset(n)[1] = "flutter_assets" /\ Name(Asset(n)) = n
  /\ <<"classes.dex">>[1] = "classes.dex" /\ Name(<<"classes.dex">>) = "classes.dex"
  BY DEF Lib, Asset, Name

LEMMA BuildIsFor ==
  ASSUME NEW src, NEW s, NEW P \in SUBSET ABIs, P # {}
  PROVE  BuiltFor(Build(src, s, P), P)
<1> DEFINE pluginABIs == IF s.multi THEN P ELSE ABIs
           libs == {Lib(x, n) : x \in P, n \in {LibApp, "libflutter.so"}}
                   \cup {Lib(x, "libjni.so") : x \in pluginABIs}
           logo == IF src.image = 0 THEN {} ELSE {Asset("assets/logo.png")}
           always == {Asset(n) : n \in AlwaysNames}
           D == libs \cup logo \cup always \cup {<<"classes.dex">>}
<1>1. DOMAIN Build(src, s, P).files = D
  BY DEF Build, AlwaysNames
<1>2. pluginABIs \subseteq ABIs
  OBVIOUS
<1>3. \A p \in libs : IsLib(p)
  BY <1>2 DEF IsLib, LibNames
<1>4. \A p \in logo \cup always : IsAsset(p)
  BY DEF IsAsset
<1>5. \A x \in P : Lib(x, LibApp) \in D /\ Lib(x, "libflutter.so") \in D
  OBVIOUS
<1>6. \A x \in ABIs : Lib(x, LibApp) \in D => x \in P
  <2> SUFFICES ASSUME NEW x \in ABIs, Lib(x, LibApp) \in D PROVE x \in P
    OBVIOUS
  <2>1. Lib(x, LibApp) \in libs
    BY Paths DEF LibApp
  <2>2. CASE \E y \in P : \E n \in {LibApp, "libflutter.so"} : Lib(x, LibApp) = Lib(y, n)
    BY <2>2, Paths
  <2>3. CASE \E y \in pluginABIs : Lib(x, LibApp) = Lib(y, "libjni.so")
    BY <2>3, Paths DEF LibApp
  <2> HIDE DEF pluginABIs
  <2> QED
    BY <2>1, <2>2, <2>3
<1>7. \A n \in AlwaysNames : Asset(n) \in D
  OBVIOUS
<1> HIDE DEF libs, logo, always
<1> QED
  BY <1>1, <1>3, <1>4, <1>5, <1>6, <1>7 DEF BuiltFor

LEMMA ABIsOfBuilt ==
  ASSUME NEW a, NEW P, BuiltFor(a, P)
  PROVE  DeriveABIs(a) = P
  BY DEF DeriveABIs, BuiltFor

(* What the names say of the paths of an artifact.                         *)
LEMMA PathsOfBuilt ==
  ASSUME NEW a, NEW P, BuiltFor(a, P), NEW p \in DOMAIN a.files
  PROVE  \/ p[1] = "lib" /\ Name(p) \in LibNames /\ ~IsFont(p) /\ p # <<"classes.dex">> /\ p \notin NotRendered
         \/ /\ p[1] = "flutter_assets" /\ p = Asset(Name(p))
            /\ Name(p) \in AlwaysNames \cup {"assets/logo.png"}
         \/ p = <<"classes.dex">> /\ p[1] = "classes.dex" /\ Name(p) = "classes.dex"
<1>1. CASE IsLib(p)
  <2>1. p[1] = "lib" /\ Name(p) \in LibNames
    BY <1>1, Paths DEF IsLib
  <2> QED
    BY <2>1, Paths DEF IsFont, LibNames, LibApp, NotRendered
<1>2. CASE IsAsset(p)
  BY <1>2, Paths DEF IsAsset
<1>3. CASE p = <<"classes.dex">>
  BY <1>3, Paths
<1> QED
  BY <1>1, <1>2, <1>3 DEF BuiltFor

(* The comparisons, of any two artifacts.                                  *)
LEMMA PlannersDoAgree ==
  ASSUME NEW b, NEW c
  PROVE  CodePlanReady(b, c) <=> ToolPlanReady(b, c)
<1>1. NativeBlockers(b, c) = ToolNativeDrift(b, c) \cup ToolInventoryDrift(b, c)
  BY DEF NativeBlockers, ToolNativeDrift, ToolInventoryDrift
<1> QED
  BY <1>1 DEF CodePlanReady, ToolPlanReady

LEMMA ContentsOrBytes ==
  ASSUME NEW f, NEW g
  PROVE  /\ ContentsMatch(f, g) => f = g \/ MatchIgnoringBuildID(f, g)
         /\ f = g \/ MatchIgnoringBuildID(f, g) => ContentsMatch(f, g)
  BY DEF ContentsMatch, MatchIgnoringBuildID

LEMMA MatchHasNoBlockers ==
  ASSUME NEW b, NEW c, NativeLibrariesMatch(b, c)
  PROVE  NativeBlockers(b, c) = {} /\ ToolNativeDrift(b, c) = {}
  BY ContentsOrBytes DEF NativeLibrariesMatch, NativeBlockers, ToolNativeDrift

LEMMA NoBlockersNoChange ==
  ASSUME NEW b, NEW c, NativeBlockers(b, c) = {}
  PROVE  ChangedNative(b, c) = {}
<1> SUFFICES ASSUME NEW p \in ChangedNative(b, c) PROVE FALSE
  OBVIOUS
<1>1. /\ p \in DOMAIN b.files /\ p \in DOMAIN c.files /\ Category(p) = "native"
      /\ ~ContentsMatch(b.files[p], c.files[p])
  BY DEF ChangedNative, InBoth
<1>2. p[1] = "lib" /\ Name(p) # LibApp
  BY <1>1 DEF Category
<1>3. p \in NativePaths(b) /\ p \in NativePaths(c)
  BY <1>1, <1>2 DEF NativePaths
<1> QED
  BY <1>1, <1>2, <1>3, ContentsOrBytes DEF NativeBlockers

(* What the files of two artifacts may differ in, for a patch that carries *)
(* the libraries of the app.                                               *)
SameFile(b, c, p) ==
    /\ p \in DOMAIN b.files /\ p \in DOMAIN c.files
    /\ \/ b.files[p] = c.files[p]
       \/ p[1] = "lib" /\ MatchIgnoringBuildID(b.files[p], c.files[p])
       \/ FontCovered(p, b.files[p], c.files[p])

LEMMA CategoriesOfBuilt ==
  ASSUME NEW a, NEW P, BuiltFor(a, P), NEW p \in DOMAIN a.files
  PROVE  /\ p[1] = "lib" /\ Name(p) # LibApp => Category(p) = "native"
         /\ p[1] = "flutter_assets" /\ p \notin NotRendered /\ Name(p) # "assets/App" => Category(p) = "asset"
         /\ Category(p) = "native" => p[1] = "lib" /\ Name(p) # LibApp
         /\ Category(p) = "asset" => p[1] = "flutter_assets" /\ p \notin NotRendered
         /\ Name(p) = "assets/App" => Category(p) = "dart-code" /\ p[1] # "lib"
<1>1. \A q \in NotRendered : Name(q) \in {"NOTICES.Z", "soroq/soroq_metadata.json", "kernel_blob.bin"}
  BY Paths DEF NotRendered
<1>2. CASE p[1] = "lib" /\ Name(p) \in LibNames
  BY <1>2 DEF Category, DartCode, LibNames, LibApp
<1>3. CASE /\ p[1] = "flutter_assets" /\ p = Asset(Name(p))
           /\ Name(p) \in AlwaysNames \cup {"assets/logo.png"}
  <2>1. p \notin NotRendered => Name(p) \in {"AssetManifest.bin", "fonts/Icons.otf", "assets/App", "assets/logo.png"}
    BY <1>3 DEF NotRendered, AlwaysNames
  <2>2. CASE Name(p) \in {"AssetManifest.bin", "fonts/Icons.otf", "assets/logo.png"}
    BY <1>1, <1>3, <2>2 DEF Category, DartCode, LibApp
  <2>3. CASE Name(p) = "assets/App"
    BY <1>3, <2>3 DEF Category, DartCode, LibApp
  <2>4. CASE Name(p) \in {"NOTICES.Z", "soroq/soroq_metadata.json", "kernel_blob.bin"}
    BY <1>3, <2>1, <2>4 DEF Category, DartCode, LibApp
  <2> QED
    BY <1>3, <2>2, <2>3, <2>4 DEF AlwaysNames
<1>4. CASE p = <<"classes.dex">> /\ p[1] = "classes.dex" /\ Name(p) = "classes.dex"
  BY <1>4 DEF Category, DartCode, LibApp
<1> QED
  BY <1>2, <1>3, <1>4, PathsOfBuilt

(* Where the gate of the dependencies sees no drift, all is in both but    *)
(* what the patch carries, and Dart code that is called like an asset.     *)
LEMMA NoDriftIsSame ==
  ASSUME NEW b, NEW c, NEW P, NEW Q, BuiltFor(b, P), BuiltFor(c, Q),
         NativeBlockers(b, c) = {}, ~HasNativeOrAssetDrift(b, c),
         NEW p \in DOMAIN b.files \cup DOMAIN c.files, p \notin NotRendered \cup OutsideDart
  PROVE  /\ p \in DOMAIN b.files /\ p \in DOMAIN c.files
         /\ SameFile(b, c, p) \/ p \in CodePayloads(b, c) \/ (Name(p) = "assets/App" /\ p[1] = "flutter_assets")
<1>1. b.type = c.type
  <2> SUFFICES ASSUME b.type # c.type PROVE FALSE
    OBVIOUS
  <2>1. PICK x \in P : Lib(x, "libflutter.so") \in DOMAIN b.files
    BY DEF BuiltFor
  <2>2. Category(Lib(x, "libflutter.so")) = "native"
    BY <2>1, CategoriesOfBuilt, Paths DEF LibApp
  <2> QED
    BY <2>1, <2>2 DEF HasNativeOrAssetDrift, Removed, InBoth
<1>2. CASE p[1] = "lib" /\ Name(p) \in LibNames
  <2>1. p \in NativePaths(b) /\ p \in NativePaths(c)
    BY <1>2 DEF NativeBlockers, NativePaths
  <2>2. p \in DOMAIN b.files /\ p \in DOMAIN c.files
    BY <2>1 DEF NativePaths
  <2> QED
    BY <1>2, <2>1, <2>2 DEF SameFile, NativeBlockers, CodePayloads
<1>3. CASE p[1] = "flutter_assets" /\ Name(p) # "assets/App"
  <2>1. Category(p) = "asset"
    BY <1>3, CategoriesOfBuilt
  <2>2. InBoth(b, c, p) /\ p \notin ChangedAssets(b, c)
    BY <2>1 DEF HasNativeOrAssetDrift, Added, Removed
  <2> QED
    BY <2>1, <2>2 DEF InBoth, ChangedAssets, SameFile
<1>4. CASE p[1] = "flutter_assets" /\ Name(p) = "assets/App" /\ p = Asset(Name(p))
  BY <1>4 DEF BuiltFor, AlwaysNames
<1> QED
  BY <1>2, <1>3, <1>4, PathsOfBuilt DEF OutsideDart

(* Where only Dart changed, every gate of the code lane lets it pass.      *)
OnlyDart(b, c) ==
    /\ b.type = c.type /\ b.identity = c.identity
    /\ Lib(Primary, LibApp) \in DOMAIN b.files
    /\ b.files[Lib(Primary, LibApp)] # c.files[Lib(Primary, LibApp)]
    /\ DOMAIN b.files = DOMAIN c.files
    /\ \A p \in DOMAIN b.files \ NotRendered : SameFile(b, c, p) \/ Name(p) = LibApp

LEMMA OnlyDartPasses ==
  ASSUME NEW b, NEW c, NEW P, BuiltFor(b, P), OnlyDart(b, c)
  PROVE  /\ CodePlanReady(b, c)
         /\ MissingGlyphs(b, c) = {}
         /\ ~HasNativeOrAssetDrift(b, c)
         /\ AssetDrift(b, c) = {}
<1>1. NativePaths(b) = NativePaths(c) /\ AssetPaths(b) = AssetPaths(c)
  BY DEF OnlyDart, NativePaths, AssetPaths
<1>2. \A p \in NativePaths(b) : p \notin NotRendered /\ ~IsFont(p)
  BY PathsOfBuilt DEF NativePaths
<1>3. \A p \in NativePaths(b) : Name(p) # LibApp =>
          b.files[p] = c.files[p] \/ MatchIgnoringBuildID(b.files[p], c.files[p])
  BY <1>2 DEF OnlyDart, SameFile, FontCovered, NativePaths
<1>4. NativeBlockers(b, c) = {}
  BY <1>1, <1>3 DEF NativeBlockers
<1>5. Lib(Primary, LibApp) \in CodePayloads(b, c)
  BY <1>1, Paths DEF OnlyDart, CodePayloads, NativePaths
<1>6. CodePlanReady(b, c)
  BY <1>4, <1>5 DEF CodePlanReady, OnlyDart, IdentityMatches
<1>7. \A p \in AssetPaths(b) : p \notin NotRendered =>
          b.files[p] = c.files[p] \/ FontCovered(p, b.files[p], c.files[p])
  BY PathsOfBuilt DEF OnlyDart, SameFile, AssetPaths, AlwaysNames, LibApp
<1>8. \A p \in AssetPaths(b) : IsFont(p) => p \notin NotRendered
  BY Paths DEF IsFont, NotRendered
<1>9. MissingGlyphs(b, c) = {}
  BY <1>1, <1>7, <1>8 DEF MissingGlyphs, FontCovered
<1>10. ~HasNativeOrAssetDrift(b, c)
  <2>1. Added(b, c) = {} /\ Removed(b, c) = {}
    BY DEF OnlyDart, Added, Removed, InBoth
  <2>2. ChangedNative(b, c) = {}
    BY <1>4, NoBlockersNoChange
  <2>3. ChangedAssets(b, c) = {}
    <3> SUFFICES ASSUME NEW p \in ChangedAssets(b, c) PROVE FALSE
      OBVIOUS
    <3>1. p \in DOMAIN b.files /\ Category(p) = "asset" /\ b.files[p] # c.files[p]
          /\ ~FontCovered(p, b.files[p], c.files[p])
      BY DEF ChangedAssets, InBoth
    <3>2. p \in AssetPaths(b) /\ p \notin NotRendered
      BY <3>1, CategoriesOfBuilt DEF AssetPaths
    <3> QED
      BY <1>7, <3>1, <3>2
  <2> QED
    BY <2>1, <2>2, <2>3 DEF HasNativeOrAssetDrift
<1>11. AssetDrift(b, c) = {}
  <2>1. RemovedOverlay(b, c) = {}
    BY <1>1 DEF RemovedOverlay, DifferingAssets
  <2>2. ASSUME NEW p \in DifferingAssets(b, c), ~Ignored(p), Name(p) # "kernel_blob.bin",
               ~CoveredByBase(b, c, p)
        PROVE  FALSE
    <3>1. p \in AssetPaths(b) /\ p \in AssetPaths(c) /\ b.files[p] # c.files[p]
      BY <1>1, <2>2 DEF DifferingAssets
    <3>2. p \notin NotRendered
      BY <2>2, Paths DEF NotRendered, Ignored
    <3> QED
      BY <1>7, <2>2, <3>1, <3>2 DEF CoveredByBase
  <2> QED
    BY <2>1, <2>2 DEF AssetDrift, Overlay, Unsupported
<1> QED
  BY <1>6, <1>9, <1>10, <1>11

(* The command, from stage to stage: what it has compared, and how the     *)
(* lane was chosen.                                                        *)
CodeLane == {"glyphs", "dependencies", "asset drift", "code bundle"}
AssetLane == {"asset plan", "asset bundle"}
Comparing == {"plan", "published"} \cup CodeLane \cup AssetLane

LaneTyped ==
    /\ stack \in Stacks /\ source \in BuildSources /\ request \in Requests
    /\ at \in {"start", "build", "refused"} \cup Comparing
    /\ at \in {"start", "build"} => candidate = NoApk
    /\ at # "start" => apk # NoApk
    /\ at # "published" => patch = NoApk

(* The two artifacts were built for the same ABIs. *)
BuiltAlike ==
    /\ apk # NoApk => \E P : BuiltFor(apk, P)
    /\ candidate # NoApk \/ at \in Comparing => BuiltFor(candidate, DeriveABIs(apk))

Passed ==
    /\ at \in {"asset drift", "code bundle"} => ~HasNativeOrAssetDrift(apk, candidate)
    /\ at = "code bundle" => request.kind = "code" \/ AssetDrift(apk, candidate) = {}
    /\ at \in CodeLane => request.kind # "asset"
    /\ at \in AssetLane => request.kind = "asset" \/ ~CodePlanReady(apk, candidate)
    /\ at = "asset bundle" => NativeLibrariesMatch(apk, candidate)

(* What is published, and what had been compared when it was. *)
AsCode ==
    /\ patch = [lane |-> "code", files |-> [p \in CodePayloads(apk, candidate) |-> candidate.files[p]]]
    /\ CodePlanReady(apk, candidate) /\ ~HasNativeOrAssetDrift(apk, candidate)
    /\ request.kind = "code" \/ AssetDrift(apk, candidate) = {}
AsAsset ==
    /\ patch = [lane |-> "asset", files |-> [p \in Overlay(apk, candidate) |-> candidate.files[p]]]
    /\ NativeLibrariesMatch(apk, candidate) /\ Unsupported(apk, candidate) = {}

RefusalIsGrounded ==
    at = "refused" /\ candidate # NoApk /\ request.kind # "asset"
        => ~OnlyDart(apk, candidate) \/ source.graph = "unresolved"

LaneInv ==
    /\ LaneTyped
    /\ BuiltAlike
    /\ Passed
    /\ at = "published" => AsCode \/ AsAsset
    /\ RefusalIsGrounded

LEMMA PlatformsAreABIs ==
  ASSUME NEW s \in Stacks, NEW explicit \in SUBSET ABIs
  PROVE  Platforms(s, explicit) \in SUBSET ABIs
  BY GateAssumption DEF Platforms, Buildable, Stacks

LEMMA LaneInitInv ==
  LaneInit => LaneInv
<1>1. FirstSource \in BuildSources
  BY DEF FirstSource, BuildSources
<1>2. DefaultRequest \in Requests
  BY DEF DefaultRequest, Requests
<1> QED
  BY <1>1, <1>2 DEF LaneInit, LaneInv, LaneTyped, BuiltAlike, Passed, RefusalIsGrounded, Comparing, CodeLane, AssetLane

(* A step of the command that neither builds nor publishes. *)
LEMMA GoInv ==
  ASSUME LaneInv, NEW place, Go(place), at \in Comparing \ {"published"},
         place \in {"refused"} \cup CodeLane \cup AssetLane,
         place \in {"asset drift", "code bundle"} => ~HasNativeOrAssetDrift(apk, candidate),
         place = "code bundle" => request.kind = "code" \/ AssetDrift(apk, candidate) = {},
         place \in CodeLane => request.kind # "asset",
         place \in AssetLane => request.kind = "asset" \/ ~CodePlanReady(apk, candidate),
         place = "asset bundle" => NativeLibrariesMatch(apk, candidate),
         place = "refused" /\ request.kind # "asset" => ~OnlyDart(apk, candidate) \/ source.graph = "unresolved"
  PROVE  LaneInv'
<1>1. at' = place /\ UNCHANGED <<stack, source, apk, candidate, request, patch>>
  BY DEF Go
<1>2. LaneTyped /\ BuiltAlike
  BY DEF LaneInv
<1>3. LaneTyped'
  BY <1>1, <1>2 DEF LaneTyped, Comparing, CodeLane, AssetLane
<1>4. BuiltAlike'
  BY <1>1, <1>2 DEF BuiltAlike, Comparing
<1>5. Passed'
  BY <1>1 DEF Passed
<1>6. RefusalIsGrounded'
  BY <1>1 DEF RefusalIsGrounded
<1>7. at' # "published"
  BY <1>1 DEF CodeLane, AssetLane
<1> QED
  BY <1>3, <1>4, <1>5, <1>6, <1>7 DEF LaneInv

LEMMA ReleaseBuildInv ==
  ASSUME LaneInv, NEW explicit \in SUBSET ABIs, ReleaseBuild(explicit), ~UNCHANGED laneVars
  PROVE  LaneInv'
<1> DEFINE P == Platforms(stack, explicit)
<1>1. at = "start" /\ apk' = Build(source, stack, P) /\ P # {}
      /\ UNCHANGED <<stack, source, candidate, request, at, patch>>
  BY DEF ReleaseBuild
<1>2. LaneTyped
  BY DEF LaneInv
<1>3. BuiltFor(apk', P)
  BY <1>1, <1>2, PlatformsAreABIs, BuildIsFor DEF LaneTyped
<1> HIDE DEF P
<1>4. BuiltAlike'
  BY <1>1, <1>2, <1>3 DEF BuiltAlike, LaneTyped, Comparing, CodeLane, AssetLane
<1> QED
  BY <1>1, <1>2, <1>4 DEF LaneInv, LaneTyped, Passed, RefusalIsGrounded, Comparing, CodeLane, AssetLane

LEMMA StartPatchInv ==
  ASSUME LaneInv, StartPatch
  PROVE  LaneInv'
<1>1. at = "start" /\ apk # NoApk /\ at' = "build" /\ UNCHANGED <<apk, candidate, patch>>
      /\ source' \in EditedSources /\ request' \in Requests
  BY DEF StartPatch
<1>2. PICK m \in BOOLEAN : stack' = [stack EXCEPT !.multi = m]
  BY DEF StartPatch
<1>3. LaneTyped /\ BuiltAlike
  BY DEF LaneInv
<1>4. stack' \in Stacks
  BY <1>2, <1>3 DEF LaneTyped, Stacks
<1>5. source' \in BuildSources
  BY <1>1 DEF EditedSources
<1>6. LaneTyped'
  BY <1>1, <1>3, <1>4, <1>5 DEF LaneTyped
<1>7. BuiltAlike'
  BY <1>1, <1>3 DEF BuiltAlike, LaneTyped, Comparing, CodeLane, AssetLane
<1> QED
  BY <1>1, <1>6, <1>7 DEF LaneInv, Passed, RefusalIsGrounded, CodeLane, AssetLane

LEMMA BuildCandidateInv ==
  ASSUME LaneInv, NEW explicit \in SUBSET ABIs, BuildCandidate(explicit)
  PROVE  LaneInv'
<1> DEFINE wanted == IF explicit = {} THEN DeriveABIs(apk) ELSE explicit
<1>1. LaneTyped /\ BuiltAlike /\ at = "build" /\ candidate = NoApk /\ apk # NoApk
  BY DEF LaneInv, LaneTyped, BuildCandidate
<1>2. CASE Refuse
  <2>1. at' = "refused" /\ UNCHANGED <<stack, source, apk, candidate, request, patch>>
    BY <1>2 DEF Refuse, Go
  <2> QED
    BY <1>1, <2>1 DEF LaneInv, LaneTyped, BuiltAlike, Passed, RefusalIsGrounded, Comparing, CodeLane, AssetLane
<1>3. CASE ~Refuse
  <2>1. wanted = DeriveABIs(apk) /\ candidate' = Build(source, stack, wanted) /\ at' = "plan"
        /\ UNCHANGED <<stack, source, apk, request, patch>>
    BY <1>3 DEF BuildCandidate
  <2> HIDE DEF wanted
  <2>2. PICK P : BuiltFor(apk, P)
    BY <1>1 DEF BuiltAlike
  <2>3. wanted = P /\ P # {} /\ P \subseteq ABIs
    BY <2>1, <2>2, ABIsOfBuilt DEF BuiltFor
  <2>4. BuiltFor(candidate', wanted)
    BY <2>1, <2>3, BuildIsFor
  <2>5. BuiltAlike'
    BY <1>1, <2>1, <2>4 DEF BuiltAlike
  <2> QED
    BY <1>1, <2>1, <2>5 DEF LaneInv, LaneTyped, Passed, RefusalIsGrounded, Comparing, CodeLane, AssetLane
<1> QED
  BY <1>2, <1>3

(* The comparisons, one by one. *)
LEMMA ComparingInv ==
  ASSUME LaneInv, ChooseLane \/ CheckGlyphs \/ CheckDependencies \/ CheckAssetDrift \/ AssetPlan
  PROVE  LaneInv'
<1> DEFINE codeReady == CodePlanReady(apk, candidate)
<1>1. LaneTyped /\ BuiltAlike /\ Passed /\ request \in Requests
  BY DEF LaneInv, LaneTyped
<1>2. at \in Comparing => (OnlyDart(apk, candidate) =>
          /\ codeReady /\ MissingGlyphs(apk, candidate) = {}
          /\ ~HasNativeOrAssetDrift(apk, candidate) /\ AssetDrift(apk, candidate) = {})
  <2> SUFFICES ASSUME at \in Comparing, OnlyDart(apk, candidate)
               PROVE  /\ codeReady /\ MissingGlyphs(apk, candidate) = {}
                      /\ ~HasNativeOrAssetDrift(apk, candidate) /\ AssetDrift(apk, candidate) = {}
    OBVIOUS
  <2>1. PICK P : BuiltFor(apk, P)
    BY <1>1 DEF BuiltAlike, LaneTyped, Comparing, CodeLane, AssetLane
  <2> QED
    BY <2>1, OnlyDartPasses
<1> HIDE DEF codeReady
<1>3. CASE ChooseLane
  <2>1. at = "plan" /\ (\/ Go("glyphs") /\ request.kind # "asset"
                        \/ Go("asset plan") /\ (request.kind = "asset" \/ ~codeReady))
    BY <1>1, <1>3 DEF ChooseLane, Requests, codeReady
  <2> QED
    BY <2>1, GoInv DEF Comparing, CodeLane, AssetLane, codeReady
<1>4. CASE CheckGlyphs
  <2>1. at = "glyphs" /\ request.kind # "asset"
        /\ (Go("dependencies") \/ (Go("refused") /\ MissingGlyphs(apk, candidate) # {}))
    BY <1>1, <1>4 DEF CheckGlyphs, Refuse, Passed, CodeLane
  <2> QED
    BY <1>2, <2>1, GoInv DEF Comparing, CodeLane, AssetLane
<1>5. CASE CheckDependencies
  <2>1. /\ at = "dependencies" /\ request.kind # "asset"
        /\ \/ Go("refused") /\ (source.graph = "unresolved" \/ HasNativeOrAssetDrift(apk, candidate))
           \/ Go("asset drift") /\ ~HasNativeOrAssetDrift(apk, candidate)
           \/ Go("code bundle") /\ ~HasNativeOrAssetDrift(apk, candidate) /\ request.kind = "code"
    BY <1>1, <1>5 DEF CheckDependencies, Refuse, Passed, CodeLane, Requests
  <2> QED
    BY <1>2, <2>1, GoInv DEF Comparing, CodeLane, AssetLane
<1>6. CASE CheckAssetDrift
  <2>1. /\ at = "asset drift" /\ request.kind # "asset" /\ ~HasNativeOrAssetDrift(apk, candidate)
        /\ \/ Go("refused") /\ AssetDrift(apk, candidate) # {}
           \/ Go("code bundle") /\ AssetDrift(apk, candidate) = {}
    BY <1>1, <1>6 DEF CheckAssetDrift, Refuse, Passed, CodeLane
  <2> QED
    BY <1>2, <2>1, GoInv DEF Comparing, CodeLane, AssetLane
<1>7. CASE AssetPlan
  <2>1. /\ at = "asset plan" /\ (request.kind = "asset" \/ ~codeReady)
        /\ Go("refused") \/ (Go("asset bundle") /\ NativeLibrariesMatch(apk, candidate))
    BY <1>1, <1>7 DEF AssetPlan, Refuse, Passed, AssetLane, Compatible, codeReady
  <2> QED
    BY <1>2, <2>1, GoInv DEF Comparing, CodeLane, AssetLane, codeReady
<1> QED
  BY <1>3, <1>4, <1>5, <1>6, <1>7

LEMMA BuildCodeBundleInv ==
  ASSUME LaneInv, BuildCodeBundle
  PROVE  LaneInv'
<1>1. LaneTyped /\ BuiltAlike /\ Passed /\ at = "code bundle"
  BY DEF LaneInv, BuildCodeBundle
<1>2. CASE ~CodePlanReady(apk, candidate)
  <2>1. Go("refused")
    BY <1>2 DEF BuildCodeBundle, Refuse
  <2>2. ~OnlyDart(apk, candidate)
    <3>1. PICK P : BuiltFor(apk, P)
      BY <1>1 DEF BuiltAlike, LaneTyped
    <3> QED
      BY <1>2, <3>1, OnlyDartPasses
  <2> QED
    BY <1>1, <2>1, <2>2, GoInv DEF Comparing, CodeLane, AssetLane
<1>3. CASE CodePlanReady(apk, candidate)
  <2>1. /\ patch' = [lane |-> "code", files |-> [p \in CodePayloads(apk, candidate) |-> candidate.files[p]]]
        /\ at' = "published" /\ UNCHANGED <<stack, source, apk, candidate, request>>
    BY <1>3 DEF BuildCodeBundle, PublishAs
  <2>2. AsCode'
    BY <1>1, <1>3, <2>1 DEF Passed, AsCode
  <2>3. LaneTyped' /\ BuiltAlike'
    BY <1>1, <2>1 DEF LaneTyped, BuiltAlike, Comparing, CodeLane
  <2> QED
    BY <2>1, <2>2, <2>3 DEF LaneInv, Passed, RefusalIsGrounded, CodeLane, AssetLane
<1> QED
  BY <1>2, <1>3

LEMMA BuildAssetBundleInv ==
  ASSUME LaneInv, BuildAssetBundle
  PROVE  LaneInv'
<1>1. LaneTyped /\ BuiltAlike /\ Passed /\ at = "asset bundle"
  BY DEF LaneInv, BuildAssetBundle
<1>2. CASE Go("refused")
  <2>1. request.kind # "asset" => ~OnlyDart(apk, candidate)
    <3>1. PICK P : BuiltFor(apk, P)
      BY <1>1 DEF BuiltAlike, LaneTyped
    <3> QED
      BY <1>1, <3>1, OnlyDartPasses DEF Passed, AssetLane
  <2> QED
    BY <1>1, <1>2, <2>1, GoInv DEF Comparing, CodeLane, AssetLane
<1>3. CASE ~Go("refused")
  <2>1. /\ Unsupported(apk, candidate) = {}
        /\ patch' = [lane |-> "asset", files |-> [p \in Overlay(apk, candidate) |-> candidate.files[p]]]
        /\ at' = "published" /\ UNCHANGED <<stack, source, apk, candidate, request>>
    BY <1>3 DEF BuildAssetBundle, PublishAs, Refuse
  <2>2. AsAsset'
    BY <1>1, <2>1 DEF Passed, AsAsset
  <2>3. LaneTyped' /\ BuiltAlike'
    BY <1>1, <2>1 DEF LaneTyped, BuiltAlike, Comparing, AssetLane
  <2> QED
    BY <2>1, <2>2, <2>3 DEF LaneInv, Passed, RefusalIsGrounded, CodeLane, AssetLane
<1> QED
  BY <1>2, <1>3

LEMMA AgainInv ==
  ASSUME LaneInv, Again
  PROVE  LaneInv'
<1>1. at' = "start" /\ candidate' = NoApk /\ patch' = NoApk /\ source' = FirstSource
      /\ request' = DefaultRequest /\ UNCHANGED <<stack, apk>>
  BY DEF Again
<1>2. FirstSource \in BuildSources /\ DefaultRequest \in Requests
  BY DEF FirstSource, BuildSources, DefaultRequest, Requests
<1> QED
  BY <1>1, <1>2 DEF LaneInv, LaneTyped, BuiltAlike, Passed, RefusalIsGrounded, Comparing, CodeLane, AssetLane

LEMMA LaneStep ==
  ASSUME LaneInv, [LaneNext]_laneVars
  PROVE  LaneInv'
<1>1. CASE UNCHANGED laneVars
  BY ZenonT(30), <1>1 DEF laneVars, LaneInv, LaneTyped, BuiltAlike, Passed, RefusalIsGrounded, AsCode, AsAsset
<1>2. ASSUME ~UNCHANGED laneVars, NEW explicit \in SUBSET ABIs, ReleaseBuild(explicit) PROVE LaneInv'
  BY <1>2, ReleaseBuildInv
<1>3. ASSUME NEW explicit \in SUBSET ABIs, BuildCandidate(explicit) PROVE LaneInv'
  BY <1>3, BuildCandidateInv
<1>4. CASE StartPatch
  BY <1>4, StartPatchInv
<1>5. CASE ChooseLane \/ CheckGlyphs \/ CheckDependencies \/ CheckAssetDrift \/ AssetPlan
  BY <1>5, ComparingInv
<1>6. CASE BuildCodeBundle
  BY <1>6, BuildCodeBundleInv
<1>7. CASE BuildAssetBundle
  BY <1>7, BuildAssetBundleInv
<1>8. CASE Again
  BY <1>8, AgainInv
<1> QED
  BY <1>1, <1>2, <1>3, <1>4, <1>5, <1>6, <1>7, <1>8 DEF LaneNext

(* LaneInv holds in every behaviour, for any ABIs and any edits.           *)
THEOREM LaneInvHolds ==
  LaneSpec => []LaneInv
<1> QED
  BY LaneInitInv, LaneStep, PTL DEF LaneSpec

(* With a code patch a device has what the candidate shows, but the Dart   *)
(* code that is called like an asset when the lane was asked for by name.  *)
LEMMA CodeIsComplete ==
  ASSUME BuiltAlike, apk # NoApk, at = "published", AsCode
  PROVE  CodePatchIsComplete
<1> DEFINE F == CodePayloads(apk, candidate)
<1>1. PICK P : BuiltFor(apk, P)
  BY DEF BuiltAlike
<1>2. PICK Q : BuiltFor(candidate, Q)
  BY DEF BuiltAlike, Comparing
<1>3. /\ NativeBlockers(apk, candidate) = {} /\ ~HasNativeOrAssetDrift(apk, candidate)
      /\ request.kind = "code" \/ AssetDrift(apk, candidate) = {}
  BY DEF AsCode, CodePlanReady
<1>4. F \subseteq DOMAIN apk.files /\ F \subseteq DOMAIN candidate.files
  BY DEF CodePayloads, NativePaths
<1>5. patch.files = [p \in F |-> candidate.files[p]] /\ DOMAIN patch.files = F
  BY DEF AsCode
<1> HIDE DEF F
<1>6. /\ DOMAIN Device = DOMAIN apk.files
      /\ \A p \in DOMAIN apk.files : Device[p] = IF p \in F THEN candidate.files[p] ELSE apk.files[p]
  BY <1>4, <1>5 DEF Device
<1>7. ASSUME NEW p \in Everything \ (NotRendered \cup OutsideDart)
      PROVE  Shows(p) \/ (request.kind = "code" /\ Category(p) = "dart-code" /\ p[1] # "lib")
  <2>1. p \in DOMAIN apk.files \cup DOMAIN candidate.files
    BY <1>6, <1>7 DEF Everything
  <2>2. /\ p \in DOMAIN apk.files /\ p \in DOMAIN candidate.files
        /\ SameFile(apk, candidate, p) \/ p \in F \/ (Name(p) = "assets/App" /\ p[1] = "flutter_assets")
    BY <1>1, <1>2, <1>3, <1>7, <2>1, NoDriftIsSame DEF F
  <2>3. CASE SameFile(apk, candidate, p) \/ p \in F
    BY <1>6, <2>2, <2>3 DEF Shows, SameFile
  <2>4. CASE Name(p) = "assets/App" /\ p[1] = "flutter_assets" /\ ~SameFile(apk, candidate, p)
    <3>1. Category(p) = "dart-code" /\ p[1] # "lib"
      BY <1>1, <2>2, <2>4, CategoriesOfBuilt
    <3>2. CASE AssetDrift(apk, candidate) = {}
      <4>1. p \in DifferingAssets(apk, candidate) /\ p \in AssetPaths(candidate)
        BY <2>2, <2>4 DEF DifferingAssets, AssetPaths, SameFile
      <4>2. p \in Overlay(apk, candidate)
        BY <2>4, <4>1 DEF Overlay, Ignored, OverlayEligible
      <4>3. ~CoveredByBase(apk, candidate, p)
        BY <2>4 DEF CoveredByBase, FontCovered, IsFont
      <4> QED
        BY <2>4, <3>2, <4>2, <4>3 DEF AssetDrift
    <3> QED
      BY <1>3, <3>1, <3>2
  <2> QED
    BY <2>2, <2>3, <2>4
<1> QED
  BY <1>7 DEF CodePatchIsComplete

(* With an asset patch it has all that the candidate shows.                *)
LEMMA AssetIsComplete ==
  ASSUME BuiltAlike, apk # NoApk, at = "published", AsAsset
  PROVE  AssetPatchIsComplete
<1> DEFINE F == Overlay(apk, candidate)
<1>1. PICK Q : BuiltFor(candidate, Q)
  BY DEF BuiltAlike, Comparing
<1>2. patch.files = [p \in F |-> candidate.files[p]] /\ DOMAIN patch.files = F
  BY DEF AsAsset
<1>3. F \subseteq AssetPaths(candidate)
  BY DEF Overlay
<1> HIDE DEF F
<1>4. /\ DOMAIN Device = DOMAIN apk.files \cup F
      /\ \A p \in DOMAIN apk.files \cup F : Device[p] = IF p \in F THEN candidate.files[p] ELSE apk.files[p]
  BY <1>2 DEF Device
<1>5. ASSUME NEW p \in DOMAIN candidate.files \ (NotRendered \cup OutsideDart) PROVE Shows(p)
  <2>1. CASE p[1] = "lib"
    <3>1. p \in NativePaths(candidate) /\ p \notin F
      BY <1>3, <1>5, <2>1 DEF NativePaths, AssetPaths
    <3>2. p \in DOMAIN apk.files /\ ContentsMatch(apk.files[p], candidate.files[p])
      BY <3>1 DEF AsAsset, NativeLibrariesMatch, NativePaths
    <3> QED
      BY <1>4, <1>5, <2>1, <3>1, <3>2, ContentsOrBytes DEF Shows
  <2>2. CASE p[1] = "flutter_assets" /\ p = Asset(Name(p))
    <3>1. p \in AssetPaths(candidate)
      BY <1>5, <2>2 DEF AssetPaths
    <3>2. CASE p \in DifferingAssets(apk, candidate)
      <4>1. ~Ignored(p)
        BY <1>5, <2>2 DEF Ignored, NotRendered
      <4>2. OverlayEligible(p)
        BY <3>2, <4>1 DEF AsAsset, Unsupported
      <4>3. p \in F
        BY <3>1, <3>2, <4>1, <4>2 DEF F, Overlay
      <4> QED
        BY <1>4, <1>5, <4>3 DEF Shows
    <3>3. CASE p \notin DifferingAssets(apk, candidate)
      <4>1. p \in DOMAIN apk.files /\ apk.files[p] = candidate.files[p]
        BY <3>1, <3>3 DEF DifferingAssets, AssetPaths
      <4> QED
        BY <1>4, <1>5, <4>1 DEF Shows
    <3> QED
      BY <3>2, <3>3
  <2> QED
    BY <1>1, <1>5, <2>1, <2>2, PathsOfBuilt DEF OutsideDart
<1> QED
  BY <1>5 DEF AssetPatchIsComplete

(* What is published by either lane is all that the candidate shows.       *)
THEOREM PatchesAreComplete ==
  LaneSpec => []PatchIsComplete
<1>1. LaneInv => PatchIsComplete
  <2> SUFFICES ASSUME LaneInv PROVE PatchIsComplete
    OBVIOUS
  <2>1. LaneTyped /\ BuiltAlike
    BY DEF LaneInv
  <2>2. at = "published" => AsCode \/ AsAsset
    BY DEF LaneInv
  <2>3. candidate # NoApk => apk # NoApk /\ DeriveABIs(candidate) = DeriveABIs(apk)
    BY <2>1, ABIsOfBuilt DEF LaneTyped, BuiltAlike
  <2>4. at = "published" => DOMAIN patch.files \subseteq DOMAIN candidate.files
    BY <2>2 DEF AsCode, AsAsset, CodePayloads, NativePaths, Overlay, AssetPaths
  <2>5. LaneTypeOK
    BY <2>1, <2>3, <2>4 DEF LaneTyped, LaneTypeOK
  <2>6. CodePatchIsComplete
    <3>1. CASE at = "published" /\ AsCode
      BY <2>1, <3>1, CodeIsComplete DEF LaneTyped
    <3>2. CASE ~(at = "published" /\ AsCode)
      BY <2>2, <3>2 DEF AsAsset, CodePatchIsComplete
    <3> QED
      BY <3>1, <3>2
  <2>7. AssetPatchIsComplete
    <3>1. CASE at = "published" /\ AsAsset
      BY <2>1, <3>1, AssetIsComplete DEF LaneTyped
    <3>2. CASE ~(at = "published" /\ AsAsset)
      BY <2>2, <3>2 DEF AsCode, AssetPatchIsComplete
    <3> QED
      BY <3>1, <3>2
  <2> QED
    BY <2>5, <2>6, <2>7 DEF PatchIsComplete
<1> QED
  BY LaneInvHolds, <1>1, PTL

(* No gate refuses what a code patch can deliver, and the three that       *)
(* compare libraries decide alike.                                         *)
THEOREM GatesDoAgree ==
  LaneSpec => []GatesAgree
<1>1. LaneInv => GatesAgree
  <2> SUFFICES ASSUME LaneInv PROVE GatesAgree
    OBVIOUS
  <2>1. PlannersAgree
    BY PlannersDoAgree, MatchHasNoBlockers, NoBlockersNoChange DEF PlannersAgree
  <2>2. Lib(Primary, LibApp) \in DOMAIN apk.files /\ OnlyDartChanged => OnlyDart(apk, candidate)
    BY DEF OnlyDartChanged, OnlyDart, SameFile
  <2>3. DartChangesShip
    BY <2>2 DEF LaneInv, RefusalIsGrounded, DartChangesShip
  <2> QED
    BY <2>1, <2>3 DEF GatesAgree
<1> QED
  BY LaneInvHolds, <1>1, PTL

(***************************************************************************)
(* Part 3.  FreehandPlan.  PlanInv follows the changed set: where it starts, *)
(* what the dependency map adds, what the comparison of code takes out, and *)
(* what the framework's changes add; then the gates, and the module that is *)
(* bound to it.  Underneath are lemmas about the holders of copies.        *)
(***************************************************************************)

PlanSpec == PlanInit /\ [][PlanNext]_planVars

(* Parts, in the copies K of any build; and what consists of something that *)
(* an edit changed.                                                        *)
PartsIn(K, g) == {d \in Decls : g \in Absorbers(K, {d})} \cup {g}
HasPart(K, g, S) == \E p \in PartsIn(K, g) : p \in S
MaterialIn(change) == {d \in Decls : change[d] = "material"}
StoredIn(change) == {d \in Decls : change[d] = "stored"}
StaleIn(K, change, g) == HasPart(K, g, MaterialIn(change)) \/ HasPart(K, g, StoredIn(change))
LostIn(K, change) == \E g \in Decls : change[g] = "cosmetic" /\ HasPart(K, g, StoredIn(change))

(* The holders of S are the least set with S that is closed under copying. *)
LEMMA AbsorbersHold ==
  ASSUME NEW K, NEW S \in SUBSET Holders
  PROVE  S \subseteq Absorbers(K, S) /\ Absorbers(K, S) \subseteq Holders
  BY DEF Absorbers

LEMMA AbsorbersClosed ==
  ASSUME NEW K, NEW S, K \subseteq Holders \X Decls,
         NEW e \in K, e[2] \in Absorbers(K, S)
  PROVE  e[1] \in Absorbers(K, S)
  BY DEF Absorbers, Holders

LEMMA AbsorbersLeast ==
  ASSUME NEW K, NEW S, NEW T \in SUBSET Holders, S \subseteq T,
         \A e \in K : e[2] \in T => e[1] \in T
  PROVE  Absorbers(K, S) \subseteq T
  BY DEF Absorbers

LEMMA NoCopies ==
  ASSUME NEW S \in SUBSET Holders
  PROVE  Absorbers({}, S) = S
<1>1. S \subseteq Absorbers({}, S)
  BY AbsorbersHold
<1>2. \A e \in {} : e[2] \in S => e[1] \in S
  OBVIOUS
<1>3. Absorbers({}, S) \subseteq S
  BY <1>2, AbsorbersLeast
<1> QED
  BY <1>1, <1>3

(* A declaration consists of all that the ones it copied consist of. *)
LEMMA PartsGoUp ==
  ASSUME NEW K, K \subseteq Holders \X Decls, NEW e \in K, NEW S \in SUBSET Decls,
         HasPart(K, e[2], S)
  PROVE  HasPart(K, e[1], S)
<1>1. PICK p \in S : p \in PartsIn(K, e[2])
  BY DEF HasPart
<1>2. p \in Decls /\ {p} \subseteq Holders
  BY DEF Holders
<1>3. e[2] \in Absorbers(K, {p})
  BY <1>1, <1>2, AbsorbersHold DEF PartsIn
<1>4. e[1] \in Absorbers(K, {p})
  BY <1>3, AbsorbersClosed
<1> QED
  BY <1>2, <1>4 DEF HasPart, PartsIn

(* What holds a part of S holds S, and nothing else does. *)
LEMMA AbsorbersAreHolders ==
  ASSUME NEW K, K \subseteq Holders \X Decls, NEW S \in SUBSET Decls
  PROVE  \A g \in Holders : g \in Absorbers(K, S) <=> HasPart(K, g, S)
<1>1. ASSUME NEW g \in Holders, HasPart(K, g, S) PROVE g \in Absorbers(K, S)
  <2>1. PICK p \in S : p \in PartsIn(K, g)
    BY <1>1 DEF HasPart
  <2>2. S \subseteq Absorbers(K, S) /\ Absorbers(K, S) \in SUBSET Holders
    BY AbsorbersHold DEF Holders
  <2>3. \A e \in K : e[2] \in Absorbers(K, S) => e[1] \in Absorbers(K, S)
    BY AbsorbersClosed
  <2>4. Absorbers(K, {p}) \subseteq Absorbers(K, S)
    BY <2>2, <2>3, AbsorbersLeast
  <2> QED
    BY <2>1, <2>2, <2>4 DEF PartsIn
<1>2. Absorbers(K, S) \subseteq {g \in Holders : HasPart(K, g, S)}
  <2> DEFINE T == {g \in Holders : HasPart(K, g, S)}
  <2>1. S \subseteq T
    BY DEF HasPart, PartsIn, Holders
  <2>2. \A e \in K : e[2] \in T => e[1] \in T
    <3> SUFFICES ASSUME NEW e \in K, e[2] \in T PROVE e[1] \in T
      OBVIOUS
    <3>1. HasPart(K, e[1], S)
      BY PartsGoUp
    <3> QED
      BY <3>1
  <2> QED
    BY <2>1, <2>2, AbsorbersLeast
<1> QED
  BY <1>1, <1>2

(* The step that adds the holders: all that has a part which was edited is *)
(* in the changed set, and only what has a part whose storage changed is   *)
(* forced; and of what was not edited to the same code, all of that.       *)
ForcedIn(K, C, change) ==
    Absorbers({e \in K : e[1] \in C \ EditedDecls(change)}, StoredIn(change))

LEMMA ForcedAreStored ==
  ASSUME NEW K, K \subseteq Holders \X Decls, NEW C, NEW change
  PROVE  \A g \in ForcedIn(K, C, change) : g \in Holders /\ HasPart(K, g, StoredIn(change))
<1> DEFINE T == {g \in Holders : HasPart(K, g, StoredIn(change))}
           L == {e \in K : e[1] \in C \ EditedDecls(change)}
<1>1. StoredIn(change) \subseteq T
  BY DEF StoredIn, HasPart, PartsIn, Holders
<1>2. \A e \in L : e[2] \in T => e[1] \in T
  <2> SUFFICES ASSUME NEW e \in K, e[2] \in T PROVE e[1] \in T
    OBVIOUS
  <2>1. HasPart(K, e[1], StoredIn(change))
    BY PartsGoUp DEF StoredIn
  <2> QED
    BY <2>1
<1>3. Absorbers(L, StoredIn(change)) \subseteq T
  BY <1>1, <1>2, AbsorbersLeast
<1> QED
  BY <1>3 DEF ForcedIn

LEMMA StoredAreForced ==
  ASSUME NEW K, K \subseteq Holders \X Decls, NEW change \in [Decls -> Changes],
         ~LostIn(K, change), NEW C, C = Absorbers(K, EditedDecls(change)),
         NEW g \in Holders, HasPart(K, g, StoredIn(change))
  PROVE  g \in ForcedIn(K, C, change) \/ HasPart(K, g, MaterialIn(change))
<1> DEFINE L == {e \in K : e[1] \in C \ EditedDecls(change)}
           S == StoredIn(change)
           F == ForcedIn(K, C, change)
           T == {h \in Holders : h \in F \/ HasPart(K, h, MaterialIn(change))}
<1>1. L \subseteq Holders \X Decls /\ S \in SUBSET Holders /\ EditedDecls(change) \in SUBSET Decls
  BY DEF StoredIn, Holders, EditedDecls
<1>2. S \subseteq F
  BY <1>1, AbsorbersHold DEF ForcedIn
<1>3. ASSUME NEW e \in K, e[2] \in T PROVE e[1] \in T
  <2>1. e[1] \in Holders
    BY DEF Holders
  <2>2. CASE HasPart(K, e[2], MaterialIn(change))
    BY <2>1, <2>2, PartsGoUp DEF MaterialIn
  <2>3. CASE e[2] \in F
    <3>1. HasPart(K, e[2], S)
      BY <2>3, ForcedAreStored
    <3>2. HasPart(K, e[1], S)
      BY <3>1, PartsGoUp DEF StoredIn
    <3>3. HasPart(K, e[1], EditedDecls(change))
      BY <3>2 DEF HasPart, EditedDecls, StoredIn
    <3>4. e[1] \in C
      BY <1>1, <2>1, <3>3, AbsorbersAreHolders
    <3>5. CASE e[1] \notin EditedDecls(change)
      <4>1. e \in L
        BY <3>4, <3>5
      <4>2. e[1] \in F
        BY <1>1, <2>3, <4>1, AbsorbersClosed DEF ForcedIn
      <4> QED
        BY <2>1, <4>2
    <3>6. CASE e[1] \in EditedDecls(change)
      <4>1. e[1] \in Decls /\ change[e[1]] \in {"cosmetic", "stored", "material"}
        BY <3>6 DEF EditedDecls, Changes
      <4>2. change[e[1]] # "cosmetic"
        BY <3>2, <4>1 DEF LostIn
      <4>3. CASE change[e[1]] = "stored"
        BY <1>2, <2>1, <4>1, <4>3 DEF StoredIn
      <4>4. CASE change[e[1]] = "material"
        BY <2>1, <4>1, <4>4 DEF MaterialIn, HasPart, PartsIn
      <4> QED
        BY <4>1, <4>2, <4>3, <4>4
    <3> QED
      BY <3>5, <3>6
  <2> QED
    BY <1>3, <2>2, <2>3
<1>4. S \subseteq T
  BY <1>1, <1>2
<1>5. Absorbers(K, S) \subseteq T
  BY <1>3, <1>4, AbsorbersLeast
<1>6. g \in Absorbers(K, S)
  BY AbsorbersAreHolders DEF StoredIn
<1> QED
  BY <1>5, <1>6

(* The plan of the changed set C and the redirects R that the framework's  *)
(* change calls for, in the build i with the edit e: nothing that the edit *)
(* made stale is left out, and once code was compared nothing else is in.  *)
AllIn(i, e, C) ==
    ~LostIn(i.copies, e.change) => \A g \in Holders : StaleIn(i.copies, e.change, g) => g \in C
NoneElse(i, e, C, R) ==
    ~e.moved => \A g \in C : StaleIn(i.copies, e.change, g) \/ g \in R

(* What the gates let through: with a declaration all that a value of it   *)
(* was folded into, but for what Path A cannot tell.                       *)
Excused(g, d) == Has("pathA") /\ LetPass(g, d)
Honourable(C) ==
    \A d \in C : Redirectable(d) /\ \A g \in Holders : HoldsValue(g, d) /\ ~Excused(g, d) => g \in C

PlanDevice(i, C) == {[at |-> [name |-> d, renamed |-> i.renamed], to |-> d] : d \in C}

Planned == {"pruned", "gates", "planned", "stored", "published"}

(* The record of the base is of this build; it is there when there is a plan. *)
Based ==
    \/ record = Absent /\ step \in {"building", "refused"}
    \/ /\ record \in BaseFiles /\ files \in BaseFiles
       /\ record.map = IF Has("map") THEN image.copies ELSE Absent

PlanTyped ==
    /\ image \in Bases
    /\ step \in {"building", "idle", "diffed", "expanded", "noop", "refused"} \cup Planned
    /\ edit \in [change : [Decls -> Changes], moved : BOOLEAN]
    /\ diff \in [changed : SUBSET Decls, forced : SUBSET Decls]
    /\ diff.forced \subseteq diff.changed
    /\ built \in BOOLEAN
    /\ ripple \in [redirect : SUBSET Decls, swap : SUBSET Swaps]
    /\ step \in {"building", "idle"} => diff.changed = {} /\ module = Absent
    /\ step \in Planned => diff.changed # {}
    /\ step = "noop" => diff.changed = {}
    /\ step \notin {"gates", "planned", "stored", "published", "refused"} => ripple.redirect = {}

(* How far the changed set is. *)
Diffed == diff.changed = EditedDecls(edit.change) /\ diff.forced = StoredIn(edit.change)
Expanded ==
    /\ diff.changed = Absorbers(image.copies, EditedDecls(edit.change))
    /\ diff.forced = ForcedIn(image.copies, diff.changed, edit.change)
Pruned ==
    /\ AllIn(image, edit, diff.changed)
    /\ built => NoneElse(image, edit, diff.changed, ripple.redirect)
    /\ ripple.redirect \subseteq diff.changed

(* The module that is bound: whatever becomes of its files, only one that  *)
(* installs the plan is published.                                         *)
Bound ==
    \E E \in SUBSET EntryForms, r \in ReceiptForms :
        /\ module.id = <<diff.changed, E, ripple.swap, r>>
        /\ Translate(E, r) = PlanDevice(image, diff.changed)

PlanInv ==
    /\ PlanTyped
    /\ Based
    /\ step = "diffed" => Diffed
    /\ step = "expanded" => Expanded
    /\ step \in Planned \cup {"noop"} => Pruned
    /\ step \in {"planned", "stored", "published"} => Honourable(diff.changed)
    /\ step \in {"stored", "published"} => module \in ModuleForms
    /\ step = "stored" => Bound
    /\ step = "published" => DeviceGetsThePlan

LEMMA OfTheBuild ==
  ASSUME PlanTyped
  PROVE  /\ image.copies \subseteq Holders \X Decls
         /\ image.renamed \in BOOLEAN
         /\ ~Has("map") => image.copies = {}
         /\ edit.change \in [Decls -> Changes]
  BY PlanAssumption DEF PlanTyped, Has

(* What is said of a build goes on being said of it. *)
LEMMA SameImage ==
  ASSUME image' = image
  PROVE  /\ \A d : Redirectable(d)' <=> Redirectable(d)
         /\ \A g, d : HoldsValue(g, d)' <=> HoldsValue(g, d)
         /\ \A g, d : Excused(g, d)' <=> Excused(g, d)
         /\ \A E, r : Translate(E, r)' = Translate(E, r)
         /\ \A c : Has(c)' <=> Has(c)
<1>1. ASSUME NEW c PROVE Has(c)' <=> Has(c)
  BY DEF Has
<1>2. ASSUME NEW d PROVE Shape(d)' = Shape(d) /\ Runtime(d)' = Runtime(d)
  BY DEF Shape, Runtime
<1>3. Honoured' = Honoured
  BY <1>1 DEF Honoured
<1>4. ASSUME NEW d PROVE Redirectable(d)' <=> Redirectable(d)
  BY <1>1, <1>2, <1>3 DEF Redirectable, Matched, Tagged
<1>5. ASSUME NEW g PROVE Parts(g)' = Parts(g)
  <2>1. Parts(g) = PartsIn(image.copies, g)
    BY DEF Parts, PartsIn
  <2>2. Parts(g)' = PartsIn(image'.copies, g)
    BY DEF Parts, PartsIn
  <2> QED
    BY <2>1, <2>2
<1>6. ASSUME NEW g, NEW d
      PROVE  (HoldsValue(g, d)' <=> HoldsValue(g, d)) /\ (Excused(g, d)' <=> Excused(g, d))
  BY <1>1, <1>5 DEF HoldsValue, Excused, LetPass, Explained
<1>7. ASSUME NEW E, NEW r PROVE Translate(E, r)' = Translate(E, r)
  <2> DEFINE Plain == {[at |-> Runtime(e.id), to |-> e.stable] : e \in E}
  <2>1. Plain' = Plain
    BY <1>2
  <2>2. Translate(E, r) =
            IF r = Absent THEN Plain
            ELSE IF \E e \in E : Lookup(r, e.id) = {} THEN Absent
            ELSE {[at |-> CHOOSE n \in Lookup(r, e.id) : TRUE, to |-> e.stable] : e \in E}
    BY DEF Translate
  <2>3. Translate(E, r)' =
            IF r = Absent THEN Plain'
            ELSE IF \E e \in E : Lookup(r, e.id) = {} THEN Absent
            ELSE {[at |-> CHOOSE n \in Lookup(r, e.id) : TRUE, to |-> e.stable] : e \in E}
    BY DEF Translate
  <2> HIDE DEF Plain
  <2> QED
    BY <2>1, <2>2, <2>3
<1> QED
  BY <1>1, <1>4, <1>6, <1>7

LEMMA RefusedInv ==
  ASSUME PlanInv, RefusePlan, UNCHANGED <<shipment, files>>,
         edit' \in [change : [Decls -> Changes], moved : BOOLEAN]
  PROVE  PlanInv'
<1>1. PlanTyped'
  BY DEF PlanInv, PlanTyped, RefusePlan, Planned, shipment
<1>2. Based'
  BY SameImage DEF PlanInv, Based, RefusePlan, shipment
<1> QED
  BY <1>1, <1>2 DEF PlanInv, RefusePlan, Planned

LEMMA PlanInitInv ==
  PlanInit => PlanInv
<1> SUFFICES ASSUME PlanInit PROVE PlanInv
  OBVIOUS
<1>1. Fresh \in [change : [Decls -> Changes], moved : BOOLEAN]
  BY DEF Fresh, Changes
<1>2. PlanTyped
  BY <1>1 DEF PlanInit, PlanReset, PlanTyped, Planned
<1> QED
  BY <1>2 DEF PlanInv, PlanInit, PlanReset, Based, Planned

LEMMA RecordBaseInv ==
  ASSUME PlanInv, NEW reached \in BOOLEAN, NEW verbose \in BOOLEAN, RecordBase(reached, verbose)
  PROVE  PlanInv'
<1>1. PlanTyped'
  <2>1. step = "building" /\ step' \in {"refused", "idle"} /\ UNCHANGED <<image, edit, diff, built, ripple, module>>
    BY DEF RecordBase
  <2>2. PlanTyped
    BY DEF PlanInv
  <2> QED
    BY <2>1, <2>2 DEF PlanTyped, Planned
<1>2. CASE Has("map") /\ Collected(reached, verbose) = Absent
  <2>1. step' = "refused" /\ UNCHANGED <<record, files, image>>
    BY <1>2 DEF RecordBase
  <2>2. Based'
    BY <2>1, SameImage DEF PlanInv, Based
  <2> QED
    BY <1>1, <2>1, <2>2 DEF PlanInv, Planned
<1>3. CASE ~(Has("map") /\ Collected(reached, verbose) = Absent)
  <2>1. /\ step' = "idle" /\ image' = image
        /\ record' = Recorded(Collected(reached, verbose)) /\ files' = record'
    BY <1>3 DEF RecordBase
  <2>2. Has("map") => Collected(reached, verbose) = image.copies
    BY <1>3 DEF Collected
  <2>3. record' \in BaseFiles /\ record'.map = IF Has("map") THEN image.copies ELSE Absent
    BY <2>1, <2>2, OfTheBuild DEF Recorded, BaseFiles, PlanInv
  <2>4. Based'
    BY <2>1, <2>3, SameImage DEF Based
  <2> QED
    BY <1>1, <2>1, <2>4 DEF PlanInv, Planned
<1> QED
  BY <1>2, <1>3

(* Where the edit, the plan and the module are left alone. *)
LEMMA DamageInv ==
  ASSUME PlanInv,
         NEW kept \in {"map", "prints", "calls", "graph"}, NEW content, Damage(kept, content),
         \/ content = Absent
         \/ content = "other" /\ kept \in {"prints", "calls"}
         \/ content = {} /\ kept = "map"
  PROVE  PlanInv'
<1>1. PlanTyped'
  BY DEF PlanInv, PlanTyped, Planned, Damage, shipment
<1>2. record \in BaseFiles /\ files = record /\ image' = image /\ record' = record
  BY DEF PlanInv, Based, Damage, shipment
<1>3. files' \in BaseFiles
  BY <1>2 DEF Damage, BaseFiles
<1>4. Based'
  BY <1>2, <1>3, SameImage DEF Based, PlanInv, Damage
<1>5. step' = step /\ step \in {"idle", "diffed"} /\ UNCHANGED <<diff, edit, module>>
  BY DEF Damage
<1>6. step' = "diffed" => Diffed'
  BY <1>5 DEF PlanInv, Diffed
<1> QED
  BY <1>1, <1>4, <1>5, <1>6 DEF PlanInv, Planned

LEMMA DiffInv ==
  ASSUME PlanInv, NEW change \in [Decls -> Changes], NEW shifted \in BOOLEAN, Diff(change, shifted)
  PROVE  PlanInv'
<1>1. edit' = [change |-> change, moved |-> shifted] /\ UNCHANGED <<shipment, files>> /\ step = "idle"
  BY DEF Diff
<1>2. CASE RefusePlan
  BY <1>1, <1>2, RefusedInv
<1>3. CASE ~RefusePlan
  <2>1. /\ diff' = [changed |-> EditedDecls(change), forced |-> {d \in Decls : change[d] = "stored"}]
        /\ step' = IF EditedDecls(change) = {} THEN "noop" ELSE "diffed"
        /\ UNCHANGED <<built, ripple, module>>
    BY <1>3 DEF Diff
  <2>2. PlanTyped /\ image' = image
    BY <1>1 DEF PlanInv, shipment
  <2>3. PlanTyped'
    BY <1>1, <2>1, <2>2 DEF PlanTyped, Planned, EditedDecls
  <2>4. Based'
    BY <1>1, <2>1, SameImage DEF PlanInv, Based, shipment
  <2>5. Diffed'
    BY <1>1, <2>1 DEF Diffed, StoredIn
  <2>6. step' = "noop" => Pruned'
    <3> SUFFICES ASSUME step' = "noop" PROVE Pruned'
      OBVIOUS
    <3>1. EditedDecls(change) = {} /\ diff'.changed = {}
      BY <2>1
    <3>2. \A g \in Holders : ~StaleIn(image.copies, change, g)
      BY <3>1 DEF StaleIn, HasPart, MaterialIn, StoredIn, EditedDecls
    <3>3. ripple'.redirect = {}
      BY <1>1, <2>1, <2>2 DEF PlanTyped
    <3> QED
      BY <1>1, <2>2, <3>1, <3>2, <3>3 DEF Pruned, AllIn, NoneElse
  <2> QED
    BY <2>1, <2>3, <2>4, <2>5, <2>6 DEF PlanInv, Planned
<1> QED
  BY <1>2, <1>3

LEMMA ExpandInv ==
  ASSUME PlanInv, Expand
  PROVE  PlanInv'
<1>1. UNCHANGED <<shipment, files, edit>> /\ step = "diffed" /\ image' = image
  BY DEF Expand, shipment
<1>2. CASE RefusePlan
  BY <1>1, <1>2, RefusedInv DEF PlanInv, PlanTyped
<1>3. CASE ~RefusePlan
  <2> DEFINE K == image.copies
             D == diff.changed
             L == {e \in K : e[1] \in Absorbers(K, D) \ D}
  <2>1. PlanTyped /\ Based /\ Diffed /\ D \in SUBSET Decls
    BY <1>1 DEF PlanInv, PlanTyped
  <2>2. D \subseteq Absorbers(K, D) /\ Absorbers(K, D) \subseteq Holders
    BY <2>1, AbsorbersHold DEF Holders
  <2>3. step' = "expanded" /\ UNCHANGED <<built, ripple, module>>
    BY <1>3 DEF Expand
  <2>4. diff'.changed = Absorbers(K, D) /\ diff'.forced = Absorbers(L, diff.forced)
        /\ Frozen \notin Absorbers(K, D) /\ diff' \in [changed : SUBSET Holders, forced : SUBSET Holders]
    <3>1. CASE ~Has("map")
      <4>1. K = {} /\ L = {}
        BY <2>1, <3>1, OfTheBuild
      <4>2. diff' = diff /\ diff.forced \in SUBSET Holders /\ D \in SUBSET Holders
        BY <1>3, <2>1, <3>1 DEF Expand, Holders, PlanTyped
      <4> HIDE DEF D, K, L
      <4>3. Absorbers(K, D) = D /\ Absorbers(L, diff.forced) = diff.forced
        BY <4>1, <4>2, NoCopies
      <4> QED
        BY <2>1, <4>2, <4>3, PlanAssumption DEF D, PlanTyped
    <3>2. CASE Has("map")
      <4>1. files.map = K
        BY <1>1, <1>3, <2>1, <3>2 DEF Expand, MapVerified, Based
      <4>2. Frozen \notin MapCallers(D) /\ diff' = [changed |-> D \cup MapCallers(D), forced |-> Forced(D, diff.forced)]
        BY <1>3, <3>2 DEF Expand
      <4>3. MapCallers(D) = Absorbers(K, D) \ D /\ Forced(D, diff.forced) = Absorbers(L, diff.forced)
        BY <4>1 DEF MapCallers, Forced
      <4>4. diff.forced \in SUBSET Holders
        BY <2>1 DEF PlanTyped, Holders
      <4>5. Absorbers(L, diff.forced) \subseteq Holders
        BY <4>4, AbsorbersHold
      <4> QED
        BY <2>1, <2>2, <4>2, <4>3, <4>5, PlanAssumption
    <3> QED
      BY <3>1, <3>2
  <2>5. Expanded'
    BY <1>1, <2>1, <2>4 DEF Expanded, Diffed, ForcedIn
  <2>6. diff'.forced \subseteq diff'.changed
    <3> DEFINE F == ForcedIn(K, diff'.changed, edit.change)
    <3>1. F = diff'.forced
      BY <2>1, <2>4 DEF ForcedIn, Diffed
    <3>2. K \subseteq Holders \X Decls /\ EditedDecls(edit.change) \in SUBSET Decls
      BY <2>1, OfTheBuild DEF EditedDecls
    <3>3. \A g \in F : g \in Holders /\ HasPart(K, g, StoredIn(edit.change))
      BY <3>2, ForcedAreStored
    <3>4. \A g \in F : HasPart(K, g, EditedDecls(edit.change))
      BY <3>3 DEF HasPart, StoredIn, EditedDecls
    <3>5. \A g \in Holders : g \in Absorbers(K, EditedDecls(edit.change)) <=> HasPart(K, g, EditedDecls(edit.change))
      BY <3>2, AbsorbersAreHolders
    <3> QED
      BY <2>1, <2>4, <3>1, <3>3, <3>4, <3>5 DEF Diffed
  <2>7. diff' \in [changed : SUBSET Decls, forced : SUBSET Decls]
    BY <2>4, <2>6 DEF Holders
  <2>8. PlanTyped'
    BY <1>1, <2>1, <2>3, <2>6, <2>7 DEF PlanTyped, Planned
  <2>9. Based'
    BY <1>1, <2>1, <2>3, SameImage DEF Based, shipment
  <2> QED
    BY <2>3, <2>5, <2>8, <2>9 DEF PlanInv, Planned
<1> QED
  BY <1>2, <1>3

LEMMA PruneInv ==
  ASSUME PlanInv, NEW compared \in BOOLEAN, Prune(compared)
  PROVE  PlanInv'
<1>1. UNCHANGED <<shipment, files, edit>> /\ step = "expanded" /\ image' = image
  BY DEF Prune, shipment
<1>2. CASE RefusePlan
  BY <1>1, <1>2, RefusedInv DEF PlanInv, PlanTyped
<1>3. CASE ~RefusePlan
  <2> DEFINE K == image.copies
             C == diff.changed
             F == diff.forced
             change == edit.change
             Stored(g) == HasPart(K, g, StoredIn(change))
             Material(g) == HasPart(K, g, MaterialIn(change))
  <2>1. PlanTyped /\ Based /\ Expanded /\ C \in SUBSET Decls /\ F \in SUBSET C
    BY <1>1 DEF PlanInv, PlanTyped
  <2>2. /\ built' = compared
        /\ diff' = IF compared THEN [diff EXCEPT !.changed = @ \ Unchanged] ELSE diff
        /\ step' = IF diff'.changed = {} THEN "noop" ELSE "pruned"
        /\ UNCHANGED <<ripple, module>>
    BY <1>3 DEF Prune
  <2>3. /\ K \subseteq Holders \X Decls /\ change \in [Decls -> Changes]
        /\ EditedDecls(change) \in SUBSET Decls
    BY <2>1, OfTheBuild DEF EditedDecls
  <2>4. C = Absorbers(K, EditedDecls(change)) /\ F = ForcedIn(K, C, change)
    BY <2>1 DEF Expanded
  <2>5. \A g \in Holders : StaleIn(K, change, g) => g \in C
    <3>1. \A g \in Holders : g \in C <=> HasPart(K, g, EditedDecls(change))
      BY <2>3, <2>4, AbsorbersAreHolders
    <3> QED
      BY <3>1 DEF StaleIn, HasPart, MaterialIn, StoredIn, EditedDecls
  <2>6. \A g \in F : Stored(g)
    BY <2>3, <2>4, ForcedAreStored
  <2>7. ~LostIn(K, change) => \A g \in Holders : Stored(g) => g \in F \/ Material(g)
    BY <2>3, <2>4, StoredAreForced
  <2>8. \A g \in Decls : SameCode(g) <=> ~Material(g) \/ (edit.moved /\ Receiver(g))
    <3>1. \A g \in Decls : Parts(g) = PartsIn(K, g) /\ PartsIn(K, g) \subseteq Decls
      BY DEF Parts, PartsIn
    <3> QED
      BY <3>1 DEF SameCode, HasPart, MaterialIn
  <2>9. diff'.changed \subseteq C /\ F \subseteq diff'.changed /\ diff'.forced = F
        /\ diff' \in [changed : SUBSET Decls, forced : SUBSET Decls]
    BY <2>1, <2>2 DEF PlanTyped, Unchanged
  <2>10. ASSUME ~LostIn(K, change), NEW g \in Holders, StaleIn(K, change, g)
         PROVE  g \in diff'.changed
    <3>1. g \in C /\ g \in Decls
      BY <2>1, <2>5, <2>10
    <3>2. CASE ~compared
      BY <2>2, <3>1, <3>2
    <3>3. CASE compared
      <4>1. g \notin Unchanged
        <5> SUFFICES ASSUME g \in Unchanged PROVE FALSE
          OBVIOUS
        <5>1. g \in SameMachineCode \ F /\ ~LayoutMoved(SameMachineCode \ F)
          BY DEF Unchanged
        <5>2. SameCode(g) /\ ~(edit.moved /\ Receiver(g))
          BY <5>1 DEF LayoutMoved, SameMachineCode
        <5>3. ~Material(g)
          BY <2>8, <3>1, <5>2
        <5>4. Stored(g)
          BY <2>10, <5>3 DEF StaleIn
        <5> QED
          BY <2>7, <2>10, <5>1, <5>3, <5>4
      <4> QED
        BY <2>1, <2>2, <3>1, <3>3, <4>1 DEF PlanTyped
    <3> QED
      BY <3>2, <3>3
  <2>11. ASSUME compared, ~edit.moved, NEW g \in diff'.changed
         PROVE  StaleIn(K, change, g)
    <3>1. g \in C /\ g \in Decls /\ g \notin Unchanged
      BY <2>1, <2>2, <2>11 DEF PlanTyped
    <3>2. g \in F \/ ~SameCode(g)
      BY <2>11, <3>1 DEF Unchanged, LayoutMoved, SameMachineCode
    <3> QED
      BY <2>6, <2>8, <3>1, <3>2 DEF StaleIn
  <2>12. ripple'.redirect = {}
    BY <1>1, <2>1, <2>2 DEF PlanTyped
  <2> HIDE DEF K, C, F, change, Stored, Material
  <2>13. Pruned'
    BY <1>1, <2>2, <2>10, <2>11, <2>12 DEF Pruned, AllIn, NoneElse, K, change
  <2>14. PlanTyped'
    BY <1>1, <2>1, <2>2, <2>9, <2>12 DEF PlanTyped, Planned
  <2>15. Based'
    BY <1>1, <2>1, <2>2, SameImage DEF Based, shipment
  <2> QED
    BY <2>2, <2>13, <2>14, <2>15 DEF PlanInv, Planned
<1> QED
  BY <1>2, <1>3

(* The sets of holders that the framework's change may call for. *)
LEMMA RipplesAreDecls ==
  ASSUME PlanTyped, NEW R \in Ripples
  PROVE  R \in SUBSET Decls
<1>1. \A d \in Decls : Absorbers(image.copies, {d}) \subseteq Holders
  BY AbsorbersHold DEF Holders
<1>2. R \in {{}} \/ (R \in {Absorbers(image.copies, {d}) : d \in Decls} \cup {{}} /\ Frozen \notin R)
  BY DEF Ripples
<1>3. CASE R = {}
  BY <1>3
<1>4. CASE R # {}
  <2>1. R \in {Absorbers(image.copies, {d}) : d \in Decls} /\ Frozen \notin R
    BY <1>2, <1>4
  <2>2. PICK d \in Decls : R = Absorbers(image.copies, {d})
    BY <2>1
  <2>3. R \subseteq Holders
    BY <1>1, <2>2
  <2> QED
    BY <2>1, <2>3 DEF Holders
<1> QED
  BY <1>3, <1>4

LEMMA R12Inv ==
  ASSUME PlanInv, step = "pruned", NEW R \in Ripples, NEW swaps \in SUBSET Swaps,
         NEW refusals \in BOOLEAN, ApplyR12Plan(R, swaps, refusals)
  PROVE  PlanInv'
<1>1. UNCHANGED <<shipment, files, edit>> /\ image' = image
  BY DEF ApplyR12Plan, shipment
<1>2. CASE RefusePlan
  BY <1>1, <1>2, RefusedInv DEF PlanInv, PlanTyped
<1>3. CASE ~RefusePlan
  <2>1. PlanTyped /\ Based /\ Pruned /\ R \in SUBSET Decls
    BY RipplesAreDecls DEF PlanInv, Planned
  <2>2. step' = "gates" /\ UNCHANGED <<built, module>>
    BY <1>3 DEF ApplyR12Plan
  <2>3. \/ UNCHANGED <<diff, ripple>>
        \/ /\ diff' = [diff EXCEPT !.changed = @ \cup R]
           /\ ripple' = [redirect |-> R, swap |-> swaps]
    BY <1>3 DEF ApplyR12Plan
  <2>4. /\ diff.changed \subseteq diff'.changed
        /\ \A g \in diff'.changed : g \in diff.changed \/ g \in ripple'.redirect
        /\ ripple.redirect = {} /\ ripple'.redirect \subseteq diff'.changed
    BY <2>1, <2>3 DEF PlanTyped
  <2>5. PlanTyped'
    BY <1>1, <2>1, <2>2, <2>3 DEF PlanTyped, Planned
  <2>6. Based'
    BY <1>1, <2>1, <2>2, SameImage DEF Based, shipment
  <2>7. Pruned'
    BY <1>1, <2>1, <2>2, <2>4 DEF Pruned, AllIn, NoneElse
  <2> QED
    BY <2>2, <2>5, <2>6, <2>7 DEF PlanInv, Planned
<1> QED
  BY <1>2, <1>3

LEMMA GatesInv ==
  ASSUME PlanInv, Gates
  PROVE  PlanInv'
<1>1. UNCHANGED <<shipment, files, edit>> /\ step = "gates" /\ image' = image
  BY DEF Gates, shipment
<1>2. CASE RefusePlan
  BY <1>1, <1>2, RefusedInv DEF PlanInv, PlanTyped
<1>3. CASE ~RefusePlan
  <2>1. /\ \A d \in diff.changed : Redirectable(d)
        /\ NoFoldedValue(diff.changed)
        /\ step' = "planned" /\ UNCHANGED <<diff, built, ripple, module>>
    BY <1>3 DEF Gates
  <2>2. PlanTyped /\ Based /\ Pruned
    BY <1>1 DEF PlanInv, Planned
  <2>3. Honourable(diff.changed)
    <3> SUFFICES ASSUME NEW d \in diff.changed, NEW g \in Holders, HoldsValue(g, d), ~Excused(g, d)
                 PROVE  g \in diff.changed
      BY <2>1 DEF Honourable
    <3>1. CASE g = d
      BY <3>1
    <3>2. CASE g # d /\ Has("pathA")
      <4>1. FoldedInto(g, d)
        BY <3>2 DEF FoldedInto, Excused
      <4> QED
        BY <2>1, <3>2, <4>1 DEF NoFoldedValue
    <3>3. CASE g # d /\ ~Has("pathA")
      <4>1. SharedWith(g, d)
        BY DEF HoldsValue, SharedWith, InPools
      <4> QED
        BY <2>1, <3>3, <4>1 DEF NoFoldedValue
    <3> QED
      BY <3>1, <3>2, <3>3
  <2>4. Honourable(diff.changed)'
    BY <1>1, <2>1, <2>3, SameImage DEF Honourable
  <2>5. PlanTyped' /\ Based' /\ Pruned'
    BY <1>1, <2>1, <2>2, SameImage DEF PlanTyped, Planned, Based, shipment, Pruned
  <2> QED
    BY <2>1, <2>4, <2>5 DEF PlanInv, Planned
<1> QED
  BY <1>2, <1>3

LEMMA CopiesInv ==
  ASSUME PlanInv, step = "planned", NEW R \in Ripples, NEW swaps \in SUBSET Swaps, Copies(R, swaps)
  PROVE  PlanInv'
<1>1. UNCHANGED <<shipment, files, edit>> /\ image' = image
  BY DEF Copies, shipment
<1>2. CASE RefusePlan
  BY <1>1, <1>2, RefusedInv DEF PlanInv, PlanTyped
<1>3. CASE ~RefusePlan
  <2>1. ripple' = [ripple EXCEPT !.swap = swaps] /\ UNCHANGED <<diff, built, module, step>>
    BY <1>3 DEF Copies
  <2>2. PlanTyped /\ Based /\ Pruned /\ Honourable(diff.changed)
    BY DEF PlanInv, Planned
  <2>3. ripple'.redirect = ripple.redirect
    BY <2>1, <2>2 DEF PlanTyped
  <2>4. PlanTyped'
    BY <1>1, <2>1, <2>2 DEF PlanTyped, Planned
  <2>5. Based' /\ Honourable(diff.changed)'
    BY <1>1, <2>1, <2>2, SameImage DEF Based, shipment, Honourable
  <2>6. Pruned'
    BY <1>1, <2>1, <2>2, <2>3 DEF Pruned
  <2> QED
    BY <2>1, <2>4, <2>5, <2>6 DEF PlanInv, Planned
<1> QED
  BY <1>2, <1>3

(* What a manifest and a receipt may be, and what a valid one makes. *)
LEMMA EntryIsOne ==
  ASSUME NEW d \in Decls
  PROVE  Entry(d) \in EntryForms
<1> DEFINE k == CHOOSE x \in ExpectABI(d) : TRUE
<1>1. ExpectABI(d) \in SUBSET {"function", "static-method", "instance-member", "factory"} /\ ExpectABI(d) # {}
  BY DEF ExpectABI
<1>2. k \in ExpectABI(d)
  BY <1>1
<1>3. k \in {"function", "static-method", "instance-member", "factory"}
  BY <1>1, <1>2
<1>4. Entry(d) = [id |-> d, stable |-> d, kind |-> k]
  BY DEF Entry
<1> HIDE DEF k
<1> QED
  BY <1>3, <1>4 DEF EntryForms

LEMMA EntriesAre ==
  ASSUME NEW S \in SUBSET Decls
  PROVE  Entries(S) \in SUBSET EntryForms
  BY EntryIsOne DEF Entries

LEMMA WrittenAre ==
  ASSUME PlanTyped, NEW E \in Written
  PROVE  E \in SUBSET EntryForms
<1> DEFINE right == Entries(diff.changed)
<1>1. right \in SUBSET EntryForms
  BY EntriesAre DEF PlanTyped
<1>2. \A d \in Decls : Entry(d) \in EntryForms
  BY EntryIsOne
<1>3. \A e \in right, d \in Decls : [e EXCEPT !.stable = d] \in EntryForms
  BY <1>1 DEF EntryForms
<1>4. \A e \in right : [e EXCEPT !.kind = "factory"] \in EntryForms
  BY <1>1 DEF EntryForms
<1>5. \/ E = right
      \/ \E e \in right : E = right \ {e}
      \/ \E d \in Decls : E = right \cup {Entry(d)}
      \/ \E e \in right, d \in Decls : E = right \cup {[e EXCEPT !.stable = d]}
      \/ \E e \in right, d \in Decls : E = (right \ {e}) \cup {[e EXCEPT !.stable = d]}
      \/ \E e \in right : E = (right \ {e}) \cup {[e EXCEPT !.kind = "factory"]}
  <2> HIDE DEF right
  <2> QED
    BY DEF Written, right
<1> HIDE DEF right
<1> QED
  BY <1>1, <1>2, <1>3, <1>4, <1>5

(* The receipt: of the base's own map, a valid one has no two names of one *)
(* declaration, and those that it has are the snapshot's.                  *)
LEMMA ReceiptIsOne ==
  ASSUME PlanTyped, NEW r \in Receipts
  PROVE  /\ r \in ReceiptForms
         /\ image.renamed /\ ValidReceipt(r) => \A n \in r.names : n[2] = Runtime(n[1])
         /\ ~image.renamed => r = Absent
<1> DEFINE own == {<<d, Runtime(d)>> : d \in diff.changed}
           odd(d) == <<d, [Runtime(d) EXCEPT !.name = Frozen]>>
<1>1. CASE ~image.renamed
  BY <1>1 DEF Receipts, ReceiptForms
<1>2. CASE image.renamed
  <2>1. /\ \A d \in Decls : Runtime(d) \in RuntimeNames /\ Runtime(d).name = d
        /\ \A d \in Decls : [Runtime(d) EXCEPT !.name = Frozen] \in RuntimeNames
        /\ \A d \in Decls : [Runtime(d) EXCEPT !.name = Frozen].name = Frozen
    BY <1>2 DEF Runtime, RuntimeNames, Holders
  <2>2. diff.changed \in SUBSET Decls
    BY DEF PlanTyped
  <2>3. own \in SUBSET (Decls \X RuntimeNames) /\ \A n \in own : n[2] = Runtime(n[1])
    BY <2>1, <2>2
  <2>4. Complete = [map |-> "own", names |-> own]
    BY DEF Complete, Receipt
  <2>5. \/ r = Complete
        \/ r = [Complete EXCEPT !.map = "other"]
        \/ \E n \in Complete.names : r = [Complete EXCEPT !.names = @ \ {n}]
        \/ \E d \in diff.changed : r = [Complete EXCEPT !.names = @ \cup {odd(d)}]
    BY <1>2 DEF Receipts
  <2> HIDE DEF own, odd
  <2>6. \/ r = [map |-> "own", names |-> own]
        \/ r = [map |-> "other", names |-> own]
        \/ \E n \in own : r = [map |-> "own", names |-> own \ {n}]
        \/ \E d \in diff.changed : r = [map |-> "own", names |-> own \cup {odd(d)}]
    BY <2>4, <2>5
  <2>7. ASSUME NEW d \in diff.changed, r = [map |-> "own", names |-> own \cup {odd(d)}]
        PROVE  r \in ReceiptForms /\ ~ValidReceipt(r)
    <3>1. odd(d) \in Decls \X RuntimeNames /\ odd(d)[1] = d /\ odd(d)[2].name = Frozen
      BY <2>1, <2>2 DEF odd
    <3>2. <<d, Runtime(d)>> \in own
      BY DEF own
    <3>3. odd(d) # <<d, Runtime(d)>>
      BY <2>1, <2>2, <3>1, PlanAssumption
    <3> QED
      BY <2>3, <2>7, <3>1, <3>2, <3>3 DEF ReceiptForms, ValidReceipt
  <2> QED
    BY <1>2, <2>3, <2>6, <2>7 DEF ReceiptForms, ValidReceipt
<1> QED
  BY <1>1, <1>2

LEMMA ManifestIsPlan ==
  ASSUME PlanTyped, NEW E \in SUBSET EntryForms, NEW swaps \in SUBSET Swaps, ValidManifest(E, swaps)
  PROVE  /\ swaps = ripple.swap
         /\ {[at |-> Runtime(e.id), to |-> e.stable] : e \in E} = PlanDevice(image, diff.changed)
<1>1. swaps = ripple.swap
  <2>1. swaps \subseteq ripple.swap /\ Cardinality(swaps) = Cardinality(ripple.swap)
    BY DEF ValidManifest, ValidSwaps
  <2>2. IsFiniteSet(ripple.swap)
    BY PlanAssumption, FS_Subset DEF PlanTyped
  <2> QED
    BY <2>1, <2>2, FS_Subset
<1>2. \A e \in E : e.id \in diff.changed /\ e.stable = e.id
  BY DEF ValidManifest, ValidEntry
<1>3. \A d \in diff.changed : \E e \in E : e.id = d
  BY DEF ValidManifest
<1>4. \A d : Runtime(d) = [name |-> d, renamed |-> image.renamed]
  BY DEF Runtime
<1> DEFINE One(d) == [at |-> [name |-> d, renamed |-> image.renamed], to |-> d]
<1>5. \A e \in E : [at |-> Runtime(e.id), to |-> e.stable] = One(e.id)
  BY <1>2, <1>4
<1>6. PlanDevice(image, diff.changed) = {One(d) : d \in diff.changed}
  BY DEF PlanDevice
<1> HIDE DEF One
<1>7. {[at |-> Runtime(e.id), to |-> e.stable] : e \in E} = {One(d) : d \in diff.changed}
  <2> DEFINE Plain(e) == [at |-> Runtime(e.id), to |-> e.stable]
  <2>1. \A e \in E : Plain(e) = One(e.id)
    BY <1>5
  <2> HIDE DEF Plain
  <2>2. {Plain(e) : e \in E} \subseteq {One(d) : d \in diff.changed}
    BY <1>2, <2>1
  <2>3. ASSUME NEW d \in diff.changed PROVE One(d) \in {Plain(e) : e \in E}
    <3>1. PICK e \in E : e.id = d
      BY <1>3
    <3>2. Plain(e) = One(d)
      BY <2>1, <3>1
    <3> QED
      BY <3>1, <3>2
  <2>4. {Plain(e) : e \in E} = {One(d) : d \in diff.changed}
    BY <2>2, <2>3
  <2> QED
    BY <2>4 DEF Plain
<1> QED
  BY <1>1, <1>6, <1>7

LEMMA TranslationIsPlan ==
  ASSUME PlanTyped, NEW E \in SUBSET EntryForms, NEW r, Translate(E, r) # Absent,
         \/ r = Absent
         \/ \A n \in r.names : n[2] = Runtime(n[1])
  PROVE  Translate(E, r) = {[at |-> Runtime(e.id), to |-> e.stable] : e \in E}
<1>1. CASE r = Absent
  BY <1>1 DEF Translate
<1>2. CASE r # Absent
  <2>1. \A n \in r.names : n[2] = Runtime(n[1])
    BY <1>2
  <2>2. \A e \in E : Lookup(r, e.id) # {}
    BY <1>2 DEF Translate
  <2>3. \A e \in E : \A n \in Lookup(r, e.id) : n = Runtime(e.id)
    BY <2>1 DEF Lookup
  <2>4. \A e \in E : (CHOOSE n \in Lookup(r, e.id) : TRUE) = Runtime(e.id)
    BY <2>2, <2>3
  <2>5. Translate(E, r) = {[at |-> CHOOSE n \in Lookup(r, e.id) : TRUE, to |-> e.stable] : e \in E}
    BY <1>2, <2>2 DEF Translate
  <2> QED
    BY <2>4, <2>5
<1> QED
  BY <1>1, <1>2

LEMMA DeviceIsTyped ==
  ASSUME PlanTyped
  PROVE  PlanDevice(image, diff.changed) \in SUBSET [at : RuntimeNames, to : Decls]
<1>1. \A d \in Decls : [at |-> [name |-> d, renamed |-> image.renamed], to |-> d] \in [at : RuntimeNames, to : Decls]
  BY OfTheBuild DEF RuntimeNames, Holders
<1> QED
  BY <1>1 DEF PlanDevice, PlanTyped

LEMMA GenerateInv ==
  ASSUME PlanInv, NEW E \in SUBSET EntryForms, NEW swaps \in SUBSET Swaps, NEW r \in Receipts,
         Generate(E, swaps, r)
  PROVE  PlanInv'
<1>1. UNCHANGED <<shipment, files, edit>> /\ step = "planned" /\ image' = image
  BY DEF Generate, shipment
<1>2. CASE RefusePlan
  BY <1>1, <1>2, RefusedInv DEF PlanInv, PlanTyped
<1>3. CASE ~RefusePlan
  <2> DEFINE t == Translate(E, r)
             m == [entries |-> E, swap |-> swaps, receipt |-> r, device |-> t]
  <2>1. PlanTyped /\ Based /\ Pruned /\ Honourable(diff.changed)
    BY <1>1 DEF PlanInv, Planned
  <2>2. /\ ValidManifest(E, swaps)
        /\ image.renamed => ValidReceipt(r)
        /\ t # Absent
        /\ module' = [artifact |-> m, id |-> ArtifactId(m)]
        /\ step' = "stored" /\ UNCHANGED <<diff, built, ripple>>
    BY <1>3 DEF Generate
  <2>3. r \in ReceiptForms /\ (r = Absent \/ \A n \in r.names : n[2] = Runtime(n[1]))
    BY <2>1, <2>2, ReceiptIsOne
  <2>4. t = PlanDevice(image, diff.changed)
    BY <2>1, <2>2, <2>3, TranslationIsPlan, ManifestIsPlan
  <2>5. swaps = ripple.swap
    BY <2>1, <2>2, ManifestIsPlan
  <2>6. t \in SUBSET [at : RuntimeNames, to : Decls]
    BY <2>1, <2>4, DeviceIsTyped
  <2>7. ArtifactId(m) = <<diff.changed, E, swaps, r>>
    BY DEF ArtifactId
  <2>8. module' \in ModuleForms /\ module'.id = <<diff.changed, E, swaps, r>>
    <3>1. m \in [entries : SUBSET EntryForms, swap : SUBSET Swaps, receipt : ReceiptForms,
                  device : SUBSET [at : RuntimeNames, to : Decls]]
      BY <2>3, <2>6
    <3>2. <<diff.changed, E, swaps, r>> \in (SUBSET Decls) \X (SUBSET EntryForms) \X (SUBSET Swaps) \X ReceiptForms
      BY <2>1, <2>3 DEF PlanTyped
    <3> HIDE DEF m
    <3> QED
      BY <2>2, <2>7, <3>1, <3>2 DEF ModuleForms
  <2>9. PlanDevice(image, diff.changed)' = PlanDevice(image, diff.changed)
    BY <1>1, <2>2
  <2>10. Translate(E, r)' = PlanDevice(image, diff.changed)'
    BY <1>1, <2>4, <2>9, SameImage
  <2>11. Bound'
    BY <2>2, <2>3, <2>5, <2>8, <2>10 DEF Bound
  <2>12. PlanTyped' /\ Based' /\ Pruned' /\ Honourable(diff.changed)'
    BY <1>1, <2>1, <2>2, SameImage DEF PlanTyped, Planned, Based, shipment, Pruned, Honourable
  <2> QED
    BY <2>2, <2>8, <2>11, <2>12 DEF PlanInv, Planned
<1> QED
  BY <1>2, <1>3

LEMMA DamageArtifactInv ==
  ASSUME PlanInv, NEW member \in {"entries", "swap", "receipt", "device"}, DamageArtifact(member)
  PROVE  PlanInv'
<1>1. /\ UNCHANGED <<shipment, files, edit, diff, built, ripple, step>> /\ step = "stored" /\ image' = image
      /\ module' = [module EXCEPT !.artifact[member] = IF member = "receipt" THEN Receipt({}) ELSE {}]
  BY DEF DamageArtifact, shipment
<1>2. PlanTyped /\ Based /\ Pruned /\ Honourable(diff.changed) /\ Bound /\ module \in ModuleForms
  BY <1>1 DEF PlanInv, Planned
<1>3. Receipt({}) \in ReceiptForms
  BY DEF Receipt, ReceiptForms
<1>4. module'.id = module.id
  BY <1>1, <1>2 DEF ModuleForms
<1>5. module' \in ModuleForms
  <2> DEFINE a == module.artifact
             A == [entries : SUBSET EntryForms, swap : SUBSET Swaps, receipt : ReceiptForms,
                   device : SUBSET [at : RuntimeNames, to : Decls]]
             I == (SUBSET Decls) \X (SUBSET EntryForms) \X (SUBSET Swaps) \X ReceiptForms
             x == IF member = "receipt" THEN Receipt({}) ELSE {}
  <2>1. module \in [artifact : A, id : I] /\ ModuleForms = [artifact : A, id : I]
    BY <1>2 DEF ModuleForms
  <2>2. [a EXCEPT ![member] = x] \in A
    BY <1>3, <2>1
  <2> HIDE DEF A, I, x
  <2>3. module' = [module EXCEPT !.artifact = [a EXCEPT ![member] = x]]
    BY <1>1, <2>1 DEF x
  <2> HIDE DEF a
  <2> QED
    BY <2>1, <2>2, <2>3
<1>6. Bound'
  <2>1. PICK E \in SUBSET EntryForms, r \in ReceiptForms :
            module.id = <<diff.changed, E, ripple.swap, r>> /\ Translate(E, r) = PlanDevice(image, diff.changed)
    BY <1>2 DEF Bound
  <2>2. Translate(E, r)' = PlanDevice(image, diff.changed)'
    BY <1>1, <2>1, SameImage DEF PlanDevice
  <2> QED
    BY <1>1, <1>4, <2>1, <2>2 DEF Bound
<1>7. PlanTyped' /\ Based' /\ Pruned' /\ Honourable(diff.changed)'
  BY <1>1, <1>2, SameImage DEF PlanTyped, Planned, Based, shipment, Pruned, Honourable
<1> QED
  BY <1>1, <1>5, <1>6, <1>7 DEF PlanInv, Planned

LEMMA PublishInv ==
  ASSUME PlanInv, Publish
  PROVE  PlanInv'
<1>1. UNCHANGED <<shipment, files, edit>> /\ step = "stored" /\ image' = image
  BY DEF Publish, shipment
<1>2. CASE RefusePlan
  BY <1>1, <1>2, RefusedInv DEF PlanInv, PlanTyped
<1>3. CASE ~RefusePlan
  <2>1. VerifiedArtifact /\ step' = "published" /\ UNCHANGED <<diff, built, ripple, module>>
    BY <1>3 DEF Publish
  <2>2. PlanTyped /\ Based /\ Pruned /\ Honourable(diff.changed) /\ Bound /\ module \in ModuleForms
    BY <1>1 DEF PlanInv, Planned
  <2>3. PICK E \in SUBSET EntryForms, r \in ReceiptForms :
            module.id = <<diff.changed, E, ripple.swap, r>> /\ Translate(E, r) = PlanDevice(image, diff.changed)
    BY <2>2 DEF Bound
  <2>4. module.artifact.entries = E /\ module.artifact.swap = ripple.swap /\ module.artifact.receipt = r
    BY <2>1, <2>3 DEF VerifiedArtifact, SameArtifact, ArtifactId
  <2>5. module.artifact.device = Translate(E, r)
    BY <2>1, <2>4 DEF VerifiedArtifact, ArtifactObfuscation
  <2>6. module.artifact.device = {[at |-> Runtime(d), to |-> d] : d \in diff.changed}
    BY <2>3, <2>5 DEF PlanDevice, Runtime
  <2>7. DeviceGetsThePlan'
    BY <1>1, <2>1, <2>4, <2>6 DEF DeviceGetsThePlan, Runtime
  <2>8. PlanTyped' /\ Based' /\ Pruned' /\ Honourable(diff.changed)'
    BY <1>1, <2>1, <2>2, SameImage DEF PlanTyped, Planned, Based, shipment, Pruned, Honourable
  <2> QED
    BY <2>1, <2>2, <2>7, <2>8 DEF PlanInv, Planned, ModuleForms
<1> QED
  BY <1>2, <1>3

LEMMA PatchOnceMoreInv ==
  ASSUME PlanInv, PatchOnceMore
  PROVE  PlanInv'
<1>1. /\ UNCHANGED <<shipment, files>> /\ image' = image /\ record' = record
      /\ step' = IF record = Absent THEN "building" ELSE "idle"
      /\ edit' = Fresh /\ diff' = [changed |-> {}, forced |-> {}] /\ built' = FALSE
      /\ ripple' = [redirect |-> {}, swap |-> {}] /\ module' = Absent
  BY DEF PatchOnceMore, shipment
<1>2. PlanTyped /\ Based
  BY DEF PlanInv
<1>3. Fresh \in [change : [Decls -> Changes], moved : BOOLEAN]
  BY DEF Fresh, Changes
<1>4. PlanTyped'
  BY <1>1, <1>2, <1>3 DEF PlanTyped, Planned
<1>5. Based'
  BY <1>1, <1>2, SameImage DEF Based
<1> QED
  BY <1>1, <1>4, <1>5 DEF PlanInv, Planned

LEMMA PlanStutters ==
  ASSUME PlanInv, UNCHANGED planVars
  PROVE  PlanInv'
  BY SameImage DEF planVars, PlanInv, PlanTyped, Planned, Based, Diffed, Expanded, Pruned, Honourable,
     Bound, DeviceGetsThePlan, Runtime, PlanDevice

LEMMA PlanStep ==
  ASSUME PlanInv, PlanNext
  PROVE  PlanInv'
<1>1. ASSUME NEW reached \in BOOLEAN, NEW verbose \in BOOLEAN, RecordBase(reached, verbose)
      PROVE  PlanInv'
  BY <1>1, RecordBaseInv
<1>2. ASSUME NEW kept \in {"map", "prints", "calls", "graph"}, Damage(kept, Absent)
      PROVE  PlanInv'
  BY <1>2, DamageInv
<1>3. ASSUME NEW kept \in {"prints", "calls"}, Damage(kept, "other")
      PROVE  PlanInv'
  BY <1>3, DamageInv
<1>4. ASSUME Damage("map", {})
      PROVE  PlanInv'
  BY <1>4, DamageInv
<1>5. ASSUME NEW change \in EditsOf, NEW shifted \in {m \in BOOLEAN : m => Has("map")}, Diff(change, shifted)
      PROVE  PlanInv'
  <2>1. change \in [Decls -> Changes]
    BY DEF EditsOf
  <2>2. shifted \in BOOLEAN
    OBVIOUS
  <2> QED
    BY <1>5, <2>1, <2>2, DiffInv
<1>6. ASSUME Expand PROVE PlanInv'
  BY <1>6, ExpandInv
<1>7. ASSUME NEW compared \in BOOLEAN, Prune(compared) PROVE PlanInv'
  BY <1>7, PruneInv
<1>8. ASSUME step = "pruned", NEW R \in Ripples, NEW S \in SUBSET Swaps, NEW refusals \in BOOLEAN,
             ApplyR12Plan(R, S, refusals)
      PROVE  PlanInv'
  BY <1>8, R12Inv
<1>9. ASSUME Gates PROVE PlanInv'
  BY <1>9, GatesInv
<1>10. ASSUME step = "planned", NEW R \in Ripples, NEW S \in SUBSET Swaps, Copies(R, S)
       PROVE  PlanInv'
  BY <1>10, CopiesInv
<1>11. ASSUME NEW E \in Written, NEW r \in Receipts, Generate(E, ripple.swap, r)
       PROVE  PlanInv'
  <2>1. E \in SUBSET EntryForms /\ ripple.swap \in SUBSET Swaps
    BY WrittenAre DEF PlanInv, PlanTyped
  <2> QED
    BY <1>11, <2>1, GenerateInv
<1>12. ASSUME NEW S \in SUBSET Swaps, NEW r \in Receipts, Generate(Entries(diff.changed), S, r)
       PROVE  PlanInv'
  <2>1. diff.changed \in SUBSET Decls
    BY DEF PlanInv, PlanTyped
  <2>2. Entries(diff.changed) \in SUBSET EntryForms
    BY <2>1, EntriesAre
  <2> QED
    BY <1>12, <2>2, GenerateInv
<1>13. ASSUME NEW member \in {"entries", "swap", "receipt", "device"}, DamageArtifact(member)
       PROVE  PlanInv'
  BY <1>13, DamageArtifactInv
<1>14. ASSUME Publish PROVE PlanInv'
  BY <1>14, PublishInv
<1>15. ASSUME PatchOnceMore PROVE PlanInv'
  BY <1>15, PatchOnceMoreInv
<1> QED
  BY <1>1, <1>2, <1>3, <1>4, <1>5, <1>6, <1>7, <1>8, <1>9, <1>10, <1>11, <1>12, <1>13, <1>14, <1>15
  DEF PlanNext

(* PlanInv holds in every behaviour, for any build and any edits of it.    *)
THEOREM PlanInvHolds ==
  PlanSpec => []PlanInv
<1>1. PlanInv /\ [PlanNext]_planVars => PlanInv'
  BY PlanStep, PlanStutters
<1> QED
  BY PlanInitInv, <1>1, PTL DEF PlanSpec

(* What a plan with these sets leaves of the base running is what it was.  *)
LEMMA NoneAffected ==
  ASSUME PlanTyped, Pruned, NEW S, ~HoldsStoredAndEdited, diff.changed \subseteq S,
         \A d \in diff.changed : \A g \in Holders : HoldsValue(g, d) /\ ~Excused(g, d) => g \in diff.changed
  PROVE  \A g \in Holders \ S : ~Affected(g) /\ ~HoldsOldValue(g)
<1> SUFFICES ASSUME NEW g \in Holders, Affected(g) \/ HoldsOldValue(g) PROVE g \in diff.changed
  OBVIOUS
<1> DEFINE K == image.copies
<1>1. \A h : Parts(h) = PartsIn(K, h)
  BY DEF Parts, PartsIn
<1>2. ~LostIn(K, edit.change)
  BY <1>1 DEF HoldsStoredAndEdited, LostIn, HasPart, StoredIn, PartsIn
<1>3. \A h \in Holders : StaleIn(K, edit.change, h) => h \in diff.changed
  BY <1>2 DEF Pruned, AllIn
<1>4. CASE \E d \in Parts(g) : d # Frozen /\ edit.change[d] \in {"material", "stored"}
  <2>1. PICK d \in PartsIn(K, g) : d # Frozen /\ edit.change[d] \in {"material", "stored"}
    BY <1>1, <1>4
  <2>2. d \in Decls
    BY <2>1 DEF PartsIn, Holders
  <2>3. StaleIn(K, edit.change, g)
    BY <2>1, <2>2 DEF StaleIn, HasPart, MaterialIn, StoredIn
  <2> QED
    BY <1>3, <2>3
<1>5. CASE HoldsOldValue(g)
  <2>1. PICK d \in Decls : edit.change[d] = "material" /\ HoldsValue(g, d) /\ ~Excused(g, d)
    BY <1>5 DEF HoldsOldValue, Excused
  <2>2. StaleIn(K, edit.change, d)
    BY <2>1 DEF StaleIn, HasPart, MaterialIn, PartsIn
  <2>3. d \in diff.changed
    BY <1>3, <2>2 DEF Holders
  <2> QED
    BY <2>1, <2>3
<1>6. CASE g \in ripple.redirect
  BY <1>6 DEF Pruned
<1> QED
  BY <1>4, <1>5, <1>6 DEF Affected

LEMMA RedirectedAre ==
  ASSUME step = "published", DeviceGetsThePlan
  PROVE  Redirected = diff.changed
<1> DEFINE One(d) == [at |-> Runtime(d), to |-> d]
<1>1. module.artifact.device = {One(d) : d \in diff.changed}
  BY DEF DeviceGetsThePlan
<1>2. \A d : One(d).to = d
  OBVIOUS
<1>3. Redirected = {x.to : x \in module.artifact.device}
  BY DEF Redirected
<1> HIDE DEF One
<1>4. Redirected = {x.to : x \in {One(d) : d \in diff.changed}}
  BY <1>1, <1>3
<1>5. {x.to : x \in {One(d) : d \in diff.changed}} = diff.changed
  BY <1>2
<1> QED
  BY <1>4, <1>5

(* A patch that goes out leaves nothing of the base running that the edit  *)
(* made stale, and no value folded from what it changed except where Path A *)
(* cannot tell; and "nothing to patch" is only said when there is none.    *)
THEOREM NothingIsStale ==
  PlanSpec => []NothingStale
<1>1. PlanInv => NothingStale
  <2> SUFFICES ASSUME PlanInv, step \in {"published", "noop"}, ~HoldsStoredAndEdited
               PROVE  \A g \in Holders \ Redirected : ~Affected(g) /\ ~HoldsOldValue(g)
    BY DEF NothingStale
  <2>1. PlanTyped /\ Pruned
    BY DEF PlanInv, Planned
  <2>2. CASE step = "published"
    <3>1. Redirected = diff.changed
      BY <2>2, RedirectedAre DEF PlanInv
    <3>2. \A d \in diff.changed : \A g \in Holders : HoldsValue(g, d) /\ ~Excused(g, d) => g \in diff.changed
      BY <2>2 DEF PlanInv, Honourable
    <3> QED
      BY <2>1, <3>1, <3>2, NoneAffected
  <2>3. CASE step = "noop"
    <3>1. diff.changed = {}
      BY <2>1, <2>3 DEF PlanTyped
    <3> QED
      BY <2>1, <3>1, NoneAffected
  <2> QED
    BY <2>2, <2>3
<1> QED
  BY PlanInvHolds, <1>1, PTL

(* The device gets the redirects of the plan, each of them one that the    *)
(* base's engine can honour, and none of what the edit left as it was.     *)
THEOREM RedirectsAreThePlan ==
  PlanSpec => []RedirectsAreExact
<1>1. PlanInv => RedirectsAreExact
  <2> SUFFICES ASSUME PlanInv PROVE RedirectsAreExact
    OBVIOUS
  <2>1. PlanTypeOK
    BY DEF PlanInv, PlanTyped, Based, Planned, PlanTypeOK
  <2>2. DeviceGetsThePlan
    BY DEF PlanInv, DeviceGetsThePlan
  <2>3. step = "published" => Redirected = diff.changed
    BY <2>2, RedirectedAre
  <2>4. RedirectsAreHonoured
    BY <2>3 DEF PlanInv, Honourable, RedirectsAreHonoured
  <2>5. step = "published" /\ built /\ ~edit.moved => \A g \in Redirected : Affected(g)
    <3> HAVE step = "published" /\ built /\ ~edit.moved
    <3> SUFFICES ASSUME NEW g \in Redirected PROVE Affected(g)
      OBVIOUS
    <3>1. PlanTyped /\ Pruned /\ g \in diff.changed
      BY <2>3 DEF PlanInv, Planned
    <3>2. StaleIn(image.copies, edit.change, g) \/ g \in ripple.redirect
      BY <3>1 DEF Pruned, NoneElse
    <3>3. ASSUME StaleIn(image.copies, edit.change, g) PROVE Affected(g)
      <4>1. PICK p \in PartsIn(image.copies, g) : p \in Decls /\ edit.change[p] \in {"material", "stored"}
        BY <3>3 DEF StaleIn, HasPart, MaterialIn, StoredIn
      <4>2. p \in Parts(g) /\ p # Frozen
        BY <4>1, PlanAssumption DEF Parts, PartsIn
      <4> QED
        BY <4>1, <4>2 DEF Affected
    <3> QED
      BY <3>2, <3>3 DEF Affected
  <2> QED
    BY <2>1, <2>2, <2>4, <2>5 DEF RedirectsAreExact, OnlyAffectedAreRedirected
<1> QED
  BY PlanInvHolds, <1>1, PTL

(***************************************************************************)
(* Part 4.  DependencyGate, for any packages, releases and directories,    *)
(* whatever the developer edits and when pub runs.  A graph that was read  *)
(* from one resolution has the packages that the compiler compiles, and    *)
(* says of each all in which it may differ (DifferenceShows): so what the  *)
(* descriptor calls changed is what is not what the release shipped.       *)
(***************************************************************************)

(* The closure has its roots, is closed, and is in every closed set that   *)
(* has them.                                                               *)
LEMMA ReachHas ==
  ASSUME NEW from, NEW deps, NEW p \in Pkgs \cap from
  PROVE  p \in Reach(from, deps)
BY DEF Reach

LEMMA ReachClosed ==
  ASSUME NEW from, NEW deps, NEW p \in Reach(from, deps), NEW q \in deps[p], q \in Pkgs
  PROVE  q \in Reach(from, deps)
BY DEF Reach, Closed

LEMMA ReachLeast ==
  ASSUME NEW from, NEW deps, NEW S \in SUBSET Pkgs, from \subseteq S,
         \A p \in S : deps[p] \cap Pkgs \subseteq S
  PROVE  Reach(from, deps) \subseteq S
BY DEF Reach, Closed

LEMMA ReachIsOfPackages ==
  ASSUME NEW from, NEW deps
  PROVE  Reach(from, deps) \subseteq Pkgs
BY DEF Reach

(* Two closures are one when each edge of a package in the first is one of *)
(* the second, and the other way round.                                    *)
LEMMA ReachAgrees ==
  ASSUME NEW from \in SUBSET Pkgs, NEW deps, NEW edges,
         \A p \in Reach(from, deps) : edges[p] = deps[p],
         \A p \in Pkgs : deps[p] \subseteq edges[p]
  PROVE  Reach(from, edges) = Reach(from, deps)
<1>1. Reach(from, edges) \subseteq Reach(from, deps)
  <2> DEFINE S == Reach(from, deps)
  <2>1. S \in SUBSET Pkgs /\ from \subseteq S
    BY ReachHas, ReachIsOfPackages
  <2>2. \A p \in S : edges[p] \cap Pkgs \subseteq S
    BY ReachClosed
  <2> HIDE DEF S
  <2>3. Reach(from, edges) \subseteq S
    BY <2>1, <2>2, ReachLeast
  <2> QED
    BY <2>3 DEF S
<1>2. Reach(from, deps) \subseteq Reach(from, edges)
  <2> DEFINE S == Reach(from, edges)
  <2>1. S \in SUBSET Pkgs /\ from \subseteq S
    BY ReachHas, ReachIsOfPackages
  <2>2. \A p \in S : deps[p] \cap Pkgs \subseteq S
    BY ReachClosed, <2>1
  <2> HIDE DEF S
  <2>3. Reach(from, deps) \subseteq S
    BY <2>1, <2>2, ReachLeast
  <2> QED
    BY <2>3 DEF S
<1> QED
  BY <1>1, <1>2

(* What the graph says of a package with this release and these files.     *)
Described(p, s) ==
    [version |-> s.ver, source |-> NormalSource(s), id |-> SourceId(p, s),
     content |-> IF s.src = "hosted" THEN <<s.body>> ELSE <<>>,
     tree |-> IF s.src \in {"path", "git"} THEN <<s.body>> ELSE <<>>,
     pubspec |-> <<s.ver, s.body.deps, s.body.plugin, s.body.assets>>,
     deps |-> s.body.deps, capability |-> Classify(s.body, s.src)]

(* A copy of a package that may be compiled: of a release that is pinned.  *)
CopyOf(p, s) ==
    /\ s # Nil /\ s = Copy(s, s.body)
    /\ \E r \in Releases[p] :
        /\ Pinned(r) /\ s.ver = r.ver /\ s.src = r.src
        /\ r.src # "path" => s.body = r.body

LEMMA SourceOfCopy ==
  ASSUME NEW p, NEW s, CopyOf(p, s)
  PROVE  s.src \in {"hosted", "git", "path", "sdk"}
BY DEF CopyOf, Pinned, NormalSource, Sources

(* What the graph records of a package fits its validator.                 *)
LEMMA DescribedIsValid ==
  ASSUME NEW p, NEW s, CopyOf(p, s)
  PROVE  ValidPackage(Described(p, s))
<1>1. s.src \in {"hosted", "git", "path", "sdk"}
  BY SourceOfCopy
<1>2. NormalSource(s) = s.src
  BY <1>1 DEF NormalSource, Sources
<1>3. <<s.body>> # <<>>
  OBVIOUS
<1> QED
  BY <1>1, <1>2, <1>3 DEF ValidPackage, Described, IdentityHash

(* Two copies that may be compiled differ exactly when the graph says so.  *)
LEMMA DifferenceShows ==
  ASSUME NEW p \in Pkgs, NEW s, NEW t, CopyOf(p, s), CopyOf(p, t)
  PROVE  IdentityChanged(Described(p, s), Described(p, t)) <=> s # t
<1> DEFINE k == Described(p, s)  l == Described(p, t)
<1>1. s = t => ~IdentityChanged(k, l)
  BY DEF IdentityChanged
<1>2. ASSUME ~IdentityChanged(k, l) PROVE s = t
  <2>1. s.ver = t.ver
    BY <1>2 DEF IdentityChanged, Described
  <2>2. SourceId(p, s) = SourceId(p, t)
    BY <1>2 DEF IdentityChanged, Described
  <2>3. s.src = t.src
    BY <2>2 DEF SourceId
  <2>4. IdentityHash(k) = IdentityHash(l)
    BY <1>2 DEF IdentityChanged
  <2>5. s.body = t.body
    <3>1. CASE s.src = "sdk"
      <4>1. PICK r \in Releases[p] : s.ver = r.ver /\ s.src = r.src /\ s.body = r.body
        BY <3>1 DEF CopyOf
      <4>2. PICK u \in Releases[p] : t.ver = u.ver /\ t.src = u.src /\ t.body = u.body
        BY <3>1, <2>3 DEF CopyOf
      <4> QED
        BY ZenonT(30), <2>1, <2>3, <3>1, <4>1, <4>2, DependencyAssumption
    <3>2. CASE s.src = "hosted"
      <4>1. k.content = <<s.body>> /\ l.content = <<t.body>>
        BY <2>3, <3>2 DEF Described
      <4>2. k.content # <<>> /\ l.content # <<>>
        BY <4>1
      <4>3. <<s.body>> = <<t.body>>
        BY <2>4, <4>1, <4>2 DEF IdentityHash
      <4> QED
        BY <4>3
    <3>3. CASE s.src \in {"path", "git"}
      <4>1. k.content = <<>> /\ l.content = <<>> /\ k.tree = <<s.body>> /\ l.tree = <<t.body>>
        BY <2>3, <3>3 DEF Described
      <4>2. <<s.body>> = <<t.body>>
        BY <2>4, <4>1 DEF IdentityHash
      <4> QED
        BY <4>2
    <3> QED
      BY <3>1, <3>2, <3>3, SourceOfCopy
  <2> QED
    BY <2>1, <2>3, <2>5 DEF CopyOf, Copy
<1> QED
  BY <1>1, <1>2

(* A package may travel when it is plain Dart, of the SDK or not.          *)
LEMMA EligibleIsPlainDart ==
  ASSUME NEW b, NEW src
  PROVE  Classify(b, src).eligible <=> PlainDart(b, src)
BY DEF Classify, PlainDart, DeclaresNative, ScanFinds

(* The descriptor of two graphs is one that its own reader accepts.        *)
LEMMA OwnRecordsValid ==
  ASSUME NEW g, NEW h,
         \A p \in Names(g) : ValidPackage(g.packages[p]),
         \A p \in Names(h) : ValidPackage(h.packages[p])
  PROVE  ValidRecords(BuildDescriptor(g, h))
<1> DEFINE d == BuildDescriptor(g, h)  A == Names(h) \ Names(g)  R == Names(g) \ Names(h)
           C == Changed(g, h)
<1>1. /\ d.added = [p \in A |-> h.packages[p]]
      /\ d.removed = [p \in R |-> g.packages[p]]
      /\ d.upgraded = [p \in C |-> Upgrade(g.packages[p], h.packages[p])]
      /\ d.ineligible = {p \in A \cup C : ~h.packages[p].capability.eligible}
  BY DEF BuildDescriptor
<1>2. DOMAIN d.added = A /\ DOMAIN d.removed = R /\ DOMAIN d.upgraded = C
  BY <1>1
<1>3. \A p \in A : ValidPackage(d.added[p])
  BY <1>1
<1>4. \A p \in R : ValidPackage(d.removed[p])
  BY <1>1
<1>5. \A p \in C : SomethingChanged(d.upgraded[p])
  <2> SUFFICES ASSUME NEW p \in C PROVE SomethingChanged(Upgrade(g.packages[p], h.packages[p]))
    BY <1>1
  <2> QED
    BY DEF Changed, IdentityChanged, SomethingChanged, Upgrade
<1>6. \A p \in C : d.upgraded[p].eligible = h.packages[p].capability.eligible
  BY <1>1 DEF Upgrade
<1>7. \A p \in A : d.added[p] = h.packages[p]
  BY <1>1
<1> HIDE DEF d, A, R, C
<1>8. d.ineligible = {p \in A : ~d.added[p].capability.eligible} \cup {p \in C : ~d.upgraded[p].eligible}
  BY <1>1, <1>6, <1>7
<1>9. ValidRecords(d)
  BY <1>2, <1>3, <1>4, <1>5, <1>8 DEF ValidRecords
<1> QED
  BY <1>9 DEF d

(* The fate of each package of either graph. *)
Fates(g, h, e) ==
    /\ DOMAIN e = Names(g) \cup Names(h)
    /\ \A p \in Names(g) \ Names(h) : e[p] = Delivery(g.packages[p], "forbidden")
    /\ \A p \in (Names(g) \cap Names(h)) \ Changed(g, h) :
           e[p] = Delivery(h.packages[p], "base_reference_only")
    /\ \A p \in (Names(h) \ Names(g)) \cup Changed(g, h) :
           e[p] = Delivery(h.packages[p],
                           IF h.packages[p].capability.eligible THEN "carriable" ELSE "forbidden")

LEMMA FateOfPackage ==
  ASSUME NEW g, NEW h, NEW e, e = BuildDescriptor(g, h).delivery
  PROVE  Fates(g, h, e)
<1>1. Changed(g, h) \subseteq Names(g) \cap Names(h)
  BY DEF Changed
<1>2. e = ClassifyDelivery(g, h)
  BY DEF BuildDescriptor
<1> QED
  BY <1>1, <1>2 DEF ClassifyDelivery, Fates

LEMMA DeliveryDescribes ==
  ASSUME NEW k, NEW mode
  PROVE  /\ Delivery(k, mode).mode = mode /\ Describes(Delivery(k, mode), k)
         /\ Delivery(k, mode).capability = k.capability
BY DEF Delivery, Describes

LEMMA OwnDescriptorValid ==
  ASSUME NEW g, NEW h,
         \A p \in Names(g) : ValidPackage(g.packages[p]),
         \A p \in Names(h) : ValidPackage(h.packages[p])
  PROVE  ValidDescriptor(BuildDescriptor(g, h))
<1> DEFINE d == BuildDescriptor(g, h)  A == Names(h) \ Names(g)  R == Names(g) \ Names(h)
           C == Changed(g, h)  U == (Names(g) \cap Names(h)) \ C
<1>1. /\ d.added = [p \in A |-> h.packages[p]]
      /\ d.removed = [p \in R |-> g.packages[p]]
      /\ d.upgraded = [p \in C |-> Upgrade(g.packages[p], h.packages[p])]
      /\ d.unchanged = [p \in U |-> h.packages[p]]
      /\ d.ineligible = {p \in A \cup C : ~h.packages[p].capability.eligible}
  BY DEF BuildDescriptor
<1>2. DOMAIN d.added = A /\ DOMAIN d.removed = R /\ DOMAIN d.upgraded = C /\ DOMAIN d.unchanged = U
  BY <1>1
<1>3. C \subseteq Names(g) \cap Names(h)
  BY DEF Changed
<1>4. /\ DOMAIN d.delivery = Names(g) \cup Names(h)
      /\ \A p \in R : d.delivery[p] = Delivery(g.packages[p], "forbidden")
      /\ \A p \in U : d.delivery[p] = Delivery(h.packages[p], "base_reference_only")
      /\ \A p \in A \cup C : d.delivery[p] =
            Delivery(h.packages[p], IF h.packages[p].capability.eligible THEN "carriable" ELSE "forbidden")
  <2>1. d.delivery = BuildDescriptor(g, h).delivery
    OBVIOUS
  <2> HIDE DEF d
  <2>2. Fates(g, h, d.delivery)
    BY <2>1, FateOfPackage
  <2> QED
    BY <2>2 DEF Fates
<1>5. RightModes(d)
  <2>1. DOMAIN d.delivery = UNION {DOMAIN d.added, DOMAIN d.removed, DOMAIN d.upgraded, DOMAIN d.unchanged}
    BY <1>2, <1>3, <1>4
  <2>2. \A p \in DOMAIN d.unchanged : ModeOf(d, p) = "base_reference_only"
    BY <1>2, <1>4, DeliveryDescribes DEF ModeOf
  <2>3. \A p \in DOMAIN d.added \cup DOMAIN d.upgraded : ModeOf(d, p) # "base_reference_only"
    BY <1>2, <1>4, DeliveryDescribes DEF ModeOf
  <2>4. \A p \in DOMAIN d.removed : ModeOf(d, p) = "forbidden"
    BY <1>2, <1>4, DeliveryDescribes DEF ModeOf
  <2>5. \A p \in d.ineligible : ModeOf(d, p) = "forbidden"
    BY <1>1, <1>4, DeliveryDescribes DEF ModeOf
  <2> HIDE DEF d
  <2> QED
    BY <2>1, <2>2, <2>3, <2>4, <2>5 DEF RightModes
<1>6. RightIdentities(d)
  <2>1. \A p \in DOMAIN d.added : Describes(d.delivery[p], d.added[p])
    BY <1>1, <1>2, <1>4, DeliveryDescribes
  <2>2. \A p \in DOMAIN d.removed : Describes(d.delivery[p], d.removed[p])
    BY <1>1, <1>2, <1>4, DeliveryDescribes
  <2>3. \A p \in DOMAIN d.unchanged : Describes(d.delivery[p], d.unchanged[p])
    BY <1>1, <1>2, <1>4, DeliveryDescribes
  <2>4. ASSUME NEW p \in DOMAIN d.upgraded
        PROVE  LET u == d.upgraded[p]  e == d.delivery[p]
               IN  e.version = u.to /\ e.id = u.toId /\ e.hash = u.toHash /\ e.capability = u.capability
    <3>1. d.upgraded[p] = Upgrade(g.packages[p], h.packages[p])
      BY <1>1, <1>2
    <3>2. Describes(d.delivery[p], h.packages[p])
      BY <1>2, <1>4, DeliveryDescribes
    <3> HIDE DEF d
    <3> QED
      BY <3>1, <3>2 DEF Upgrade, Describes
  <2> HIDE DEF d
  <2> QED
    BY <2>1, <2>2, <2>3, <2>4 DEF RightIdentities
<1>7. ValidRecords(d)
  BY OwnRecordsValid
<1> QED
  BY <1>5, <1>6, <1>7 DEF ValidDescriptor

(* A package is forbidden, or travels, for a reason. *)
LEMMA Verdicts ==
  ASSUME NEW g, NEW h, NEW d, d = BuildDescriptor(g, h)
  PROVE  LET new == (Names(h) \ Names(g)) \cup Changed(g, h)
         IN  /\ Assess(d) <=> /\ Names(g) \subseteq Names(h)
                              /\ \A p \in new : h.packages[p].capability.eligible
             /\ Carriable(d) = {p \in new : h.packages[p].capability.eligible}
<1> DEFINE new == (Names(h) \ Names(g)) \cup Changed(g, h)
<1>1. Changed(g, h) \subseteq Names(g) \cap Names(h)
  BY DEF Changed
<1>2. /\ DOMAIN d.delivery = Names(g) \cup Names(h)
      /\ \A p \in Names(g) \ Names(h) : ModeOf(d, p) = "forbidden"
      /\ \A p \in (Names(g) \cap Names(h)) \ Changed(g, h) : ModeOf(d, p) = "base_reference_only"
      /\ \A p \in new : ModeOf(d, p) = IF h.packages[p].capability.eligible THEN "carriable" ELSE "forbidden"
  <2>1. d.delivery = BuildDescriptor(g, h).delivery
    OBVIOUS
  <2>2. Fates(g, h, d.delivery)
    BY <2>1, FateOfPackage
  <2> QED
    BY <2>2, DeliveryDescribes DEF Fates, ModeOf
<1>3. Assess(d) <=> Names(g) \subseteq Names(h) /\ \A p \in new : h.packages[p].capability.eligible
  BY <1>1, <1>2 DEF Assess
<1>4. Carriable(d) = {p \in new : h.packages[p].capability.eligible}
  BY <1>1, <1>2 DEF Carriable
<1> QED
  BY <1>3, <1>4

(***************************************************************************)
(* The invariant: the base's graph describes what shipped, a patch past    *)
(* its plan goes by a descriptor of that base, and the lock, the config    *)
(* and the project are what their types say.                               *)
(***************************************************************************)

ShippedCopies == {p \in Pkgs : shipped[p] # Nil}

BaseIsShipped ==
    base # Nil =>
        /\ Names(base) = ShippedCopies
        /\ \A p \in ShippedCopies :
            CopyOf(p, shipped[p]) /\ base.packages[p] = Described(p, shipped[p])

PlanIsOfBase ==
    stage \in {"planned", "generated", "published"} =>
        /\ plan.descriptor = BuildDescriptor(base, plan.descriptor.candidate)
        /\ plan.carried = Carriable(plan.descriptor)

Selected == pick = [p \in Pkgs |-> pick[p]] /\ local = [p \in Pkgs |-> local[p]]

DepInv == DepTypeOK /\ Selected /\ BaseIsShipped /\ PlanIsOfBase /\ OwnDescriptorIsValid

(* A package of the closure that the resolver found and can read is what   *)
(* the compiler compiles, and the graph describes it.                      *)
Packages == \A p \in Pkgs : /\ local[p] \in Bodies[p]
                            /\ lock[p] \in Releases[p] \cup {Nil}
                            /\ config[p] \in Releases[p] \cup {Nil}

LEMMA CopyInHand ==
  ASSUME Packages, NEW p \in Pkgs, Resolvable(p), lock[p] = config[p]
  PROVE  LET s == Copy(config[p], Body(p, config[p]))
         IN  CopyOf(p, s) /\ Package(p) = Described(p, s)
<1> DEFINE r == config[p]  s == Copy(r, Body(p, r))
<1>1. r \in Releases[p] /\ Pinned(r) /\ lock[p] = r
  BY DEF Resolvable, Packages
<1>2. Body(p, r) \in Bodies[p] \cup {r.body}
  BY DEF Body, Packages
<1>3. s # Nil
  BY <1>1, <1>2, DependencyAssumption
<1>4. s.ver = r.ver /\ s.src = r.src /\ s.body = Body(p, r)
  BY DEF Copy
<1>5. CopyOf(p, s)
  BY <1>1, <1>3, <1>4 DEF CopyOf, Body, Copy
<1>6. Package(p) = Described(p, s)
  <2>1. NormalSource(s) = NormalSource(r)
    BY <1>4 DEF NormalSource
  <2>2. SourceId(p, s) = SourceId(p, r)
    <3>1. r.src = "git" => s.body = r.body
      BY <1>4 DEF Body
    <3> QED
      BY <1>4, <3>1 DEF SourceId
  <2>3. r.src = "hosted" => s.body = r.body
    BY <1>4 DEF Body
  <2> HIDE DEF s
  <2> QED
    BY <1>1, <1>4, <2>1, <2>2, <2>3 DEF Package, Described, SourceTree
<1> QED
  BY <1>5, <1>6

LEMMA FoundIsCompiled ==
  ASSUME Packages, wants \subseteq Pkgs, Resolves
  PROVE  /\ Found = {p \in Pkgs : Compiled[p] # Nil}
         /\ \A p \in Found : Compiled[p] = Copy(config[p], Body(p, config[p]))
<1> DEFINE deps == [p \in Pkgs |-> IF Resolvable(p) THEN Package(p).deps ELSE {}]
           edges == [p \in Pkgs |-> IF config[p] = Nil THEN {} ELSE Body(p, config[p]).deps]
<1>1. \A p \in Pkgs : Package(p).deps = Body(p, config[p]).deps
  BY DEF Package
<1>2. Found = Reach(wants, deps) /\ Found \subseteq Pkgs
  BY ReachIsOfPackages DEF Found, Walk
<1>3. \A p \in Found : Resolvable(p) /\ config[p] # Nil
  BY DEF Resolves, Resolvable
<1>4. \A p \in Found : edges[p] = deps[p]
  BY <1>1, <1>2, <1>3
<1>5. \A p \in Pkgs : deps[p] \subseteq edges[p]
  BY <1>1 DEF Resolvable
<1>6. Compiled = [p \in Pkgs |-> IF p \in Reach(wants, edges) /\ config[p] # Nil
                                 THEN Copy(config[p], Body(p, config[p])) ELSE Nil]
  BY DEF Compiled
<1> HIDE DEF deps, edges
<1>7. Reach(wants, edges) = Found
  BY <1>2, <1>4, <1>5, ReachAgrees
<1>8. \A p \in Found : Compiled[p] = Copy(config[p], Body(p, config[p]))
  BY <1>2, <1>3, <1>6, <1>7
<1>9. ASSUME NEW p \in Found PROVE Compiled[p] # Nil
  <2>1. config[p] \in Releases[p] /\ Body(p, config[p]) \in Bodies[p] \cup {config[p].body}
    BY <1>2, <1>3 DEF Packages, Body
  <2> QED
    BY <1>2, <1>8, <2>1, DependencyAssumption
<1>10. \A p \in Pkgs \ Found : Compiled[p] = Nil
  BY <1>6, <1>7
<1> QED
  BY <1>2, <1>8, <1>9, <1>10

(* What the resolver records of the packages found, when the lock and the  *)
(* package config are of one resolution.                                   *)
LEMMA ResolvedDescribes ==
  ASSUME Packages, wants \subseteq Pkgs, Resolves, lock = config
  PROVE  /\ Names(ResolveAt) = {p \in Pkgs : Compiled[p] # Nil}
         /\ \A p \in Names(ResolveAt) :
                CopyOf(p, Compiled[p]) /\ ResolveAt.packages[p] = Described(p, Compiled[p])
<1>1. Found = {p \in Pkgs : Compiled[p] # Nil}
      /\ \A p \in Found : Compiled[p] = Copy(config[p], Body(p, config[p]))
  BY FoundIsCompiled
<1>2. Names(ResolveAt) = Found /\ \A p \in Found : ResolveAt.packages[p] = Package(p)
  BY DEF Names, ResolveAt
<1>3. \A p \in Found : CopyOf(p, Compiled[p]) /\ Package(p) = Described(p, Compiled[p])
  BY <1>1, CopyInHand DEF Resolves
<1> QED
  BY <1>1, <1>2, <1>3

(* A graph that was resolved fits the validator, of one resolution or two. *)
LEMMA ResolvedIsValid ==
  ASSUME Resolves
  PROVE  \A p \in Names(ResolveAt) : ValidPackage(ResolveAt.packages[p])
<1>1. Names(ResolveAt) = Found /\ \A p \in Found : ResolveAt.packages[p] = Package(p)
  BY DEF Names, ResolveAt
<1>2. ASSUME NEW p \in Found PROVE ValidPackage(Package(p))
  <2> DEFINE r == lock[p]
  <2>1. Pinned(r)
    BY DEF Resolves, Resolvable
  <2>2. r.src \in {"hosted", "git", "path", "sdk"} /\ NormalSource(r) = r.src
    BY <2>1 DEF Pinned, NormalSource, Sources
  <2>3. <<r.body>> # <<>> /\ <<Body(p, config[p])>> # <<>>
    OBVIOUS
  <2> QED
    BY <2>2, <2>3 DEF ValidPackage, Package, SourceTree, IdentityHash
<1> QED
  BY <1>1, <1>2

LEMMA PackagesTyped ==
  ASSUME DepTypeOK PROVE Packages
BY DEF DepTypeOK, Packages

LEMMA ResolutionTyped ==
  ASSUME DepTypeOK, NEW p \in Pkgs PROVE Resolution[p] \in Releases[p] \cup {Nil}
BY DEF DepTypeOK, Resolution

LEMMA DepInitInv == DepInit => DepInv
<1> SUFFICES ASSUME DepInit PROVE DepInv
  OBVIOUS
<1>1. \A p \in Pkgs : local[p] \in Bodies[p]
  BY DependencyAssumption DEF DepInit
<1>2. \A p \in Pkgs : pick[p] \in Releases[p]
  BY DEF DepInit
<1>3. \A p \in Pkgs : Resolution[p] \in Releases[p] \cup {Nil}
  BY <1>2 DEF Resolution
<1>4. \A p \in Pkgs : lock[p] \in Releases[p] \cup {Nil} /\ config[p] \in Releases[p] \cup {Nil}
  BY <1>3 DEF DepInit
<1>5. depEdits \in 0..MaxDepEdits
  BY DependencyAssumption DEF DepInit
<1>6. DepTypeOK
  BY <1>1, <1>2, <1>4, <1>5 DEF DepInit, DepTypeOK
<1>7. Selected
  BY DEF DepInit, Selected
<1> QED
  BY <1>6, <1>7 DEF DepInit, DepInv, BaseIsShipped, PlanIsOfBase, OwnDescriptorIsValid

(* What the developer does leaves the base, the plan and the patch alone.  *)
LEMMA DeveloperKeepsInv ==
  ASSUME DepInv, DevEdits, wants' \subseteq Pkgs, Selected',
         \A p \in Pkgs : local'[p] \in Bodies[p],
         \A p \in Pkgs : pick'[p] \in Releases[p],
         \A p \in Pkgs : config'[p] \in Releases[p] \cup {Nil},
         UNCHANGED lock
  PROVE  DepInv'
<1>1. depEdits' \in 0..MaxDepEdits
  BY DependencyAssumption DEF DepInv, DepTypeOK, DevEdits
<1>2. UNCHANGED <<base, shipped, plan, stage>>
  BY DEF DevEdits, released
<1>3. DepTypeOK'
  BY <1>1, <1>2 DEF DepInv, DepTypeOK
<1>4. BaseIsShipped' /\ PlanIsOfBase' /\ OwnDescriptorIsValid'
  BY <1>2 DEF DepInv, BaseIsShipped, ShippedCopies, PlanIsOfBase, OwnDescriptorIsValid
<1> QED
  BY <1>3, <1>4 DEF DepInv

LEMMA EditPubspecKeepsInv ==
  ASSUME DepInv, NEW p \in Pkgs, EditPubspec(p) PROVE DepInv'
<1>1. wants' \subseteq Pkgs /\ UNCHANGED <<pick, local, lock, config>> /\ DevEdits
  BY DEF DepInv, DepTypeOK, EditPubspec, resolution
<1> QED
  BY <1>1, DeveloperKeepsInv DEF DepInv, DepTypeOK, Selected

LEMMA RepickKeepsInv ==
  ASSUME DepInv, NEW p \in Pkgs, NEW r \in Releases[p], Repick(p, r) PROVE DepInv'
<1>1. pick' = [pick EXCEPT ![p] = r] /\ UNCHANGED <<wants, local, lock, config>> /\ DevEdits
  BY DEF Repick, resolution
<1>2. pick = [q \in Pkgs |-> pick[q]]
  BY DEF DepInv, Selected
<1>3. pick' = [q \in Pkgs |-> pick'[q]] /\ \A q \in Pkgs : pick'[q] = IF q = p THEN r ELSE pick[q]
  BY <1>1, <1>2
<1>4. Selected'
  BY <1>1, <1>3 DEF DepInv, Selected
<1>5. \A q \in Pkgs : pick'[q] \in Releases[q]
  BY <1>3 DEF DepInv, DepTypeOK
<1> QED
  BY <1>1, <1>4, <1>5, DeveloperKeepsInv DEF DepInv, DepTypeOK

LEMMA EditPackageKeepsInv ==
  ASSUME DepInv, NEW p \in Pkgs, NEW b \in Bodies[p], EditPackage(p, b) PROVE DepInv'
<1>1. local' = [local EXCEPT ![p] = b] /\ UNCHANGED <<wants, pick, lock, config>> /\ DevEdits
  BY DEF EditPackage, resolution
<1>2. local = [q \in Pkgs |-> local[q]]
  BY DEF DepInv, Selected
<1>3. local' = [q \in Pkgs |-> local'[q]] /\ \A q \in Pkgs : local'[q] = IF q = p THEN b ELSE local[q]
  BY <1>1, <1>2
<1>4. Selected'
  BY <1>1, <1>3 DEF DepInv, Selected
<1>5. \A q \in Pkgs : local'[q] \in Bodies[q]
  BY <1>3 DEF DepInv, DepTypeOK
<1> QED
  BY <1>1, <1>4, <1>5, DeveloperKeepsInv DEF DepInv, DepTypeOK

LEMMA DeveloperPubGetKeepsInv ==
  ASSUME DepInv, NEW p \in Pkgs, NEW r \in Releases[p] \cup {Nil}, DeveloperPubGet(p, r) PROVE DepInv'
<1>1. config' = [Resolution EXCEPT ![p] = r] /\ UNCHANGED <<wants, pick, local, lock>> /\ DevEdits
  BY DEF DeveloperPubGet, project
<1>2. \A q \in Pkgs : Resolution[q] \in Releases[q] \cup {Nil}
  BY ResolutionTyped DEF DepInv
<1>3. DOMAIN Resolution = Pkgs
  BY DEF Resolution
<1>4. \A q \in Pkgs : config'[q] \in Releases[q] \cup {Nil}
  BY <1>1, <1>2, <1>3
<1>5. Selected'
  BY <1>1 DEF DepInv, Selected
<1> QED
  BY <1>1, <1>4, <1>5, DeveloperKeepsInv DEF DepInv, DepTypeOK

LEMMA ReleaseKeepsInv ==
  ASSUME DepInv, Release PROVE DepInv'
<1>1. UNCHANGED <<wants, pick, local, lock, config, plan, stage, depEdits>> /\ stage = "idle"
  BY DEF Release, project, resolution
<1>2. Resolves /\ lock = config /\ wants \subseteq Pkgs /\ Packages
  BY PackagesTyped DEF Release, DepInv, DepTypeOK
<1>3. BaseIsShipped'
  BY <1>2, ResolvedDescribes DEF Release, BaseIsShipped, ShippedCopies
<1>4. DepTypeOK'
  BY <1>1 DEF DepInv, DepTypeOK
<1>5. Selected' /\ PlanIsOfBase' /\ OwnDescriptorIsValid'
  BY <1>1 DEF DepInv, Selected, PlanIsOfBase, OwnDescriptorIsValid
<1> QED
  BY <1>3, <1>4, <1>5 DEF DepInv

(* A pub get of the command itself, wherever the patch is. *)
LEMMA PrepareKeepsInv ==
  ASSUME DepInv, Prepare, UNCHANGED <<wants, pick, local, base, shipped, plan, depEdits>>,
         \/ stage = "idle" /\ stage' = IF base = Nil THEN "idle" ELSE "resolved"
         \/ UNCHANGED stage
  PROVE  DepInv'
<1>1. \A p \in Pkgs : lock'[p] \in Releases[p] \cup {Nil} /\ config'[p] \in Releases[p] \cup {Nil}
  BY ResolutionTyped DEF Prepare, DepInv
<1>2. DepTypeOK'
  BY <1>1 DEF DepInv, DepTypeOK
<1>3. Selected' /\ BaseIsShipped' /\ PlanIsOfBase' /\ OwnDescriptorIsValid'
  BY DEF DepInv, Selected, BaseIsShipped, ShippedCopies, PlanIsOfBase, OwnDescriptorIsValid
<1> QED
  BY <1>2, <1>3 DEF DepInv

LEMMA PlanKeepsInv ==
  ASSUME DepInv, Plan PROVE DepInv'
<1>1. UNCHANGED <<wants, pick, local, lock, config, base, shipped, depEdits>> /\ stage = "resolved"
  BY DEF Plan, project, resolution, released
<1>2. stage' \in {"planned", "refused"} /\ base # Nil
  BY <1>1 DEF Plan, DepInv, DepTypeOK
<1>3. DepTypeOK'
  BY <1>1, <1>2 DEF DepInv, DepTypeOK
<1>4. Selected' /\ BaseIsShipped'
  BY <1>1 DEF DepInv, Selected, BaseIsShipped, ShippedCopies
<1>5. CASE ~Resolves
  BY <1>1, <1>3, <1>4, <1>5 DEF Plan, DepInv, PlanIsOfBase, OwnDescriptorIsValid
<1>6. CASE Resolves
  <2> DEFINE d == BuildDescriptor(base, ResolveAt)
  <2>1. plan' = [descriptor |-> d, carried |-> Carriable(d)]
    BY <1>6 DEF Plan
  <2>2. d.candidate = ResolveAt
    BY DEF BuildDescriptor
  <2>3. \A p \in Names(base) : ValidPackage(base.packages[p])
    BY <1>2, DescribedIsValid DEF DepInv, BaseIsShipped
  <2>4. ValidDescriptor(d)
    BY <1>6, <2>3, ResolvedIsValid, OwnDescriptorValid
  <2>5. OwnDescriptorIsValid'
    <3> HIDE DEF d
    <3>1. ValidDescriptor(plan'.descriptor)
      BY <2>1, <2>4
    <3> QED
      BY <3>1, ZenonT(30) DEF OwnDescriptorIsValid, ValidDescriptor, ValidRecords, RightModes,
                      RightIdentities, ValidPackage, IdentityHash, SomethingChanged, ModeOf, Describes
  <2>6. PlanIsOfBase'
    BY <1>1, <2>1, <2>2 DEF PlanIsOfBase
  <2> QED
    BY <1>3, <1>4, <2>5, <2>6 DEF DepInv
<1> QED
  BY <1>5, <1>6

LEMMA RevalidateKeepsInv ==
  ASSUME DepInv, Revalidate PROVE DepInv'
<1>1. UNCHANGED <<wants, pick, local, lock, config, base, shipped, plan, depEdits>>
  BY DEF Revalidate, project, resolution, released
<1>2. stage \in {"planned", "generated"} /\ stage' \in {"generated", "published", "refused"}
  BY DEF Revalidate
<1>3. DepTypeOK'
  BY <1>1, <1>2 DEF DepInv, DepTypeOK
<1>4. Selected' /\ BaseIsShipped' /\ PlanIsOfBase' /\ OwnDescriptorIsValid'
  BY <1>1, <1>2 DEF DepInv, Selected, BaseIsShipped, ShippedCopies, PlanIsOfBase, OwnDescriptorIsValid
<1> QED
  BY <1>3, <1>4 DEF DepInv

LEMMA PatchAgainKeepsInv ==
  ASSUME DepInv, PatchAgain PROVE DepInv'
<1>1. UNCHANGED <<wants, pick, local, lock, config, base, shipped, depEdits>> /\ stage' = "idle" /\ plan' = Nil
  BY DEF PatchAgain, project, resolution, released
<1>2. DepTypeOK'
  BY <1>1 DEF DepInv, DepTypeOK
<1>3. Selected' /\ BaseIsShipped' /\ PlanIsOfBase' /\ OwnDescriptorIsValid'
  BY <1>1 DEF DepInv, Selected, BaseIsShipped, ShippedCopies, PlanIsOfBase, OwnDescriptorIsValid
<1> QED
  BY <1>2, <1>3 DEF DepInv

LEMMA DepStutters == DepInv /\ UNCHANGED depVars => DepInv'
<1> SUFFICES ASSUME DepInv, UNCHANGED depVars PROVE DepInv'
  OBVIOUS
<1>1. UNCHANGED <<wants, pick, local, lock, config, base, shipped, plan, stage, depEdits>>
  BY DEF depVars
<1> QED
  BY <1>1 DEF DepInv, DepTypeOK, Selected, BaseIsShipped, ShippedCopies, PlanIsOfBase, OwnDescriptorIsValid

LEMMA DepStep == DepInv /\ [DepNext]_depVars => DepInv'
<1> SUFFICES ASSUME DepInv, [DepNext]_depVars PROVE DepInv'
  OBVIOUS
<1>1. ASSUME NEW p \in Pkgs, EditPubspec(p) PROVE DepInv'
  BY <1>1, EditPubspecKeepsInv
<1>2. ASSUME NEW p \in Pkgs, NEW r \in Releases[p], Repick(p, r) PROVE DepInv'
  BY <1>2, RepickKeepsInv
<1>3. ASSUME NEW p \in Pkgs, NEW b \in Bodies[p], EditPackage(p, b) PROVE DepInv'
  BY <1>3, EditPackageKeepsInv
<1>4. ASSUME NEW p \in Pkgs, NEW r \in Releases[p] \cup {Nil}, DeveloperPubGet(p, r) PROVE DepInv'
  BY <1>4, DeveloperPubGetKeepsInv
<1>5. CASE Release
  BY <1>5, ReleaseKeepsInv
<1>6. CASE Resolve
  BY <1>6, PrepareKeepsInv DEF Resolve, project, released
<1>7. CASE Plan
  BY <1>7, PlanKeepsInv
<1>8. CASE CandidateBuild
  BY <1>8, PrepareKeepsInv DEF CandidateBuild, project, released
<1>9. CASE Revalidate
  BY <1>9, RevalidateKeepsInv
<1>10. CASE PatchAgain
  BY <1>10, PatchAgainKeepsInv
<1>11. CASE UNCHANGED depVars
  BY <1>11, DepStutters
<1> QED
  BY <1>1, <1>2, <1>3, <1>4, <1>5, <1>6, <1>7, <1>8, <1>9, <1>10, <1>11 DEF DepNext

(* DepInv holds in every behaviour, for any packages and edits of them.    *)
THEOREM DepInvHolds ==
  DepSpec => []DepInv
BY DepInitInv, DepStep, PTL DEF DepSpec

(* The graph that a release records is the closure of what it was compiled *)
(* from, cycles and diamonds included, and every descriptor that a plan    *)
(* writes is one that its own reader accepts.                              *)
THEOREM DescriptorsAreTrue ==
  DepSpec => []DescriptorIsTrue
<1>1. DepInv => DescriptorIsTrue
  BY DEF DepInv, DescriptorIsTrue, GraphIsTheClosure, BaseIsShipped, ShippedCopies
<1> QED
  BY DepInvHolds, <1>1, PTL

(* Of a base that is what shipped and a graph of one resolution: what      *)
(* changed is what differs, and a descriptor without a forbidden package   *)
(* is one that can be delivered.                                           *)
LEMMA ChangedIsDiffering ==
  ASSUME DepInv, base # Nil, Resolves, lock = config
  PROVE  /\ (Names(ResolveAt) \ Names(base)) \cup Changed(base, ResolveAt) = Differing
         /\ Assess(BuildDescriptor(base, ResolveAt)) <=> Deliverable
         /\ Carriable(BuildDescriptor(base, ResolveAt))
                = {p \in Differing : ResolveAt.packages[p].capability.eligible}
<1> DEFINE g == base  h == ResolveAt  new == (Names(h) \ Names(g)) \cup Changed(g, h)
<1>1. Packages /\ wants \subseteq Pkgs
  BY PackagesTyped DEF DepInv, DepTypeOK
<1>2. /\ Names(h) = {p \in Pkgs : Compiled[p] # Nil}
      /\ \A p \in Names(h) : CopyOf(p, Compiled[p]) /\ h.packages[p] = Described(p, Compiled[p])
  BY <1>1, ResolvedDescribes
<1>3. /\ Names(g) = {p \in Pkgs : shipped[p] # Nil}
      /\ \A p \in Names(g) : CopyOf(p, shipped[p]) /\ g.packages[p] = Described(p, shipped[p])
  BY DEF DepInv, BaseIsShipped, ShippedCopies
<1> HIDE DEF g, h
<1>4. Changed(g, h) = {p \in Names(g) \cap Names(h) : shipped[p] # Compiled[p]}
  BY <1>2, <1>3, DifferenceShows DEF Changed
<1>5. new = Differing
  BY <1>2, <1>3, <1>4 DEF Differing
<1>6. \A p \in Differing : h.packages[p].capability.eligible <=> PlainDart(Compiled[p].body, Compiled[p].src)
  <2> TAKE p \in Differing
  <2>1. p \in Names(h)
    BY <1>2 DEF Differing
  <2>2. h.packages[p] = Described(p, Compiled[p])
    BY <1>2, <2>1
  <2>3. Described(p, Compiled[p]).capability = Classify(Compiled[p].body, Compiled[p].src)
    BY DEF Described
  <2> QED
    BY <2>2, <2>3, EligibleIsPlainDart
<1>7. Names(g) \subseteq Names(h) <=> \A p \in Pkgs : shipped[p] # Nil => Compiled[p] # Nil
  BY <1>2, <1>3
<1> DEFINE d == BuildDescriptor(g, h)
<1>8. /\ Assess(d) <=> Names(g) \subseteq Names(h) /\ \A p \in new : h.packages[p].capability.eligible
      /\ Carriable(d) = {p \in new : h.packages[p].capability.eligible}
  BY Verdicts
<1> HIDE DEF d, new
<1>9. Assess(d) <=> Deliverable
  BY <1>5, <1>6, <1>7, <1>8 DEF Deliverable
<1> QED
  BY <1>5, <1>8, <1>9 DEF d, new, g, h

(* What passes the second reading is what was planned, and it is Dart.     *)
LEMMA OnlyRevalidatePasses ==
  ASSUME [DepNext]_depVars, Passes PROVE Revalidate
<1>1. stage' # stage /\ stage' \in {"generated", "published"}
  BY DEF Passes
<1>2. \A p, r : EditPubspec(p) \/ Repick(p, r) \/ EditPackage(p, r) \/ DeveloperPubGet(p, r) => UNCHANGED stage
  BY DEF EditPubspec, Repick, EditPackage, DeveloperPubGet, DevEdits
<1>3. Release \/ CandidateBuild \/ UNCHANGED depVars => UNCHANGED stage
  BY DEF Release, CandidateBuild, depVars
<1>4. Resolve \/ Plan \/ PatchAgain => stage' \in {"idle", "resolved", "planned", "refused"}
  BY DEF Resolve, Plan, PatchAgain
<1> QED
  BY <1>1, <1>2, <1>3, <1>4 DEF DepNext

LEMMA PassesAreDelivered ==
  ASSUME DepInv, [DepNext]_depVars, Passes, ~Mixed
  PROVE  Deliverable /\ plan.carried = Differing
<1>1. Revalidate
  BY OnlyRevalidatePasses
<1> DEFINE d == plan.descriptor
<1>2. /\ stage \in {"planned", "generated"} /\ Resolves /\ d.candidate = ResolveAt /\ Assess(d)
  BY <1>1 DEF Revalidate, Passes, MatchesCandidate
<1>3. base # Nil /\ d = BuildDescriptor(base, d.candidate) /\ plan.carried = Carriable(d)
  BY <1>2 DEF DepInv, DepTypeOK, PlanIsOfBase
<1>4. ResolveAt.lock = lock /\ ResolveAt.config = config
  BY DEF ResolveAt
<1>5. lock = config
  BY <1>2, <1>4 DEF Mixed
<1>6. d = BuildDescriptor(base, ResolveAt)
  BY <1>2, <1>3
<1> HIDE DEF d
<1>7. Deliverable /\ Carriable(d) = {p \in Differing : ResolveAt.packages[p].capability.eligible}
  BY <1>2, <1>3, <1>5, <1>6, ChangedIsDiffering
<1>8. \A p \in (Names(ResolveAt) \ Names(base)) \cup Changed(base, ResolveAt) :
          ResolveAt.packages[p].capability.eligible
  BY <1>2, <1>6, Verdicts
<1>9. \A p \in Differing : ResolveAt.packages[p].capability.eligible
  BY <1>2, <1>3, <1>5, <1>8, ChangedIsDiffering
<1> QED
  BY <1>3, <1>7, <1>9

(* What pub resolved, for the tools of the developer too, has all that the *)
(* app needs.                                                              *)
LEMMA ResolvesUnlessUnpinned ==
  ASSUME DepInv, ~Unresolvable, ~Moved
  PROVE  Resolves
<1> DEFINE deps == [p \in Pkgs |-> Body(p, pick[p]).deps]
           all == Reach(wants \cup Dev, deps)
           edges == [p \in Pkgs |-> IF Resolvable(p) THEN Package(p).deps ELSE {}]
<1>1. all \subseteq Pkgs /\ wants \subseteq all
  BY ReachIsOfPackages, ReachHas DEF DepInv, DepTypeOK
<1>2. \A p \in all : lock[p] = pick[p] /\ config[p] = pick[p] /\ pick[p] # Nil
  <2>1. lock = Resolution /\ config = Resolution
    BY DEF Moved
  <2>2. Resolution = [p \in Pkgs |-> IF p \in all THEN pick[p] ELSE Nil]
    BY DEF Resolution
  <2>3. \A p \in Pkgs : pick[p] \in Releases[p] /\ Nil \notin Releases[p]
    BY DependencyAssumption DEF DepInv, DepTypeOK
  <2> HIDE DEF all
  <2> QED
    BY <1>1, <2>1, <2>2, <2>3
<1>3. \A p \in all : Resolvable(p)
  BY <1>1, <1>2 DEF Resolvable, Unresolvable
<1>4. \A p \in all : edges[p] = deps[p]
  BY <1>1, <1>2, <1>3 DEF Package
<1>5. Found = Reach(wants, edges)
  BY DEF Found, Walk
<1>6. \A p \in all : deps[p] \cap Pkgs \subseteq all
  BY ReachClosed
<1> HIDE DEF all, deps, edges
<1>7. Found \subseteq all
  BY <1>1, <1>4, <1>5, <1>6, ReachLeast
<1> QED
  BY <1>3, <1>7 DEF Resolves

LEMMA RefusalsHaveCause ==
  ASSUME DepInv, [DepNext]_depVars, stage' = "refused", stage = "resolved"
  PROVE  Unresolvable \/ Moved \/ ~Deliverable
<1>1. Plan
  <2>1. \A p, r : EditPubspec(p) \/ Repick(p, r) \/ EditPackage(p, r) \/ DeveloperPubGet(p, r) => UNCHANGED stage
    BY DEF EditPubspec, Repick, EditPackage, DeveloperPubGet, DevEdits
  <2>2. Release \/ CandidateBuild \/ UNCHANGED depVars => UNCHANGED stage
    BY DEF Release, CandidateBuild, depVars
  <2>3. Resolve \/ Revalidate \/ PatchAgain => stage # "resolved"
    BY DEF Resolve, Revalidate, PatchAgain
  <2> QED
    BY <2>1, <2>2, <2>3 DEF DepNext
<1> SUFFICES ASSUME ~Unresolvable, ~Moved PROVE ~Deliverable
  OBVIOUS
<1>2. Resolves /\ lock = config /\ base # Nil
  BY ResolvesUnlessUnpinned DEF Moved, DepInv, DepTypeOK
<1> DEFINE d == BuildDescriptor(base, ResolveAt)
<1>3. ~(ValidDescriptor(d) /\ MatchesBase(d) /\ Assess(d))
  BY <1>1, <1>2 DEF Plan
<1>4. MatchesBase(d)
  BY DEF MatchesBase, BuildDescriptor
<1>5. \A p \in Names(base) : ValidPackage(base.packages[p])
  BY <1>2, DescribedIsValid DEF DepInv, BaseIsShipped
<1>6. ValidDescriptor(d)
  BY <1>2, <1>5, ResolvedIsValid, OwnDescriptorValid
<1>7. ~Assess(d)
  BY <1>3, <1>4, <1>6
<1> QED
  BY <1>2, <1>7, ChangedIsDiffering

(* Whatever the developer edits and whenever pub runs, a patch that passes *)
(* carries exactly the packages that are not what the release shipped, all *)
(* of them plain Dart, and drops none; and one is refused only because a   *)
(* package cannot be pinned, because something moved or because the change *)
(* cannot be delivered.                                                    *)
THEOREM PatchesDeliverWhatChanged ==
  DepSpec => DeliversWhatChanged
<1>1. DepInv /\ [DepNext]_depVars => OnlyDartIsDelivered /\ CarriesWhatChanged /\ RefusedForCause
  BY PassesAreDelivered, RefusalsHaveCause DEF OnlyDartIsDelivered, CarriesWhatChanged, RefusedForCause
<1>2. DepInv /\ [DepNext]_depVars => [OnlyDartIsDelivered /\ CarriesWhatChanged /\ RefusedForCause]_depVars
  BY <1>1
<1> QED
  BY DepInvHolds, <1>2, PTL DEF DepSpec, DeliversWhatChanged

-----------------------------------------------------------------------------
(***************************************************************************)
(* Part 5.  What the swap of soroq.yaml promises (flavor_channel.go), for  *)
(* any number of commands, flavors, kills and edits: as long as no repair  *)
(* runs into the swap of a live build, the developer's soroq.yaml is in the*)
(* project or recoverable from the backup, and what is built is of its     *)
(* flavor.  Two facts carry it: a build that owns the swap is alone with   *)
(* it, and whoever only repairs changes things towards the original.       *)
(***************************************************************************)

Own(r) == r.at \in {"backupYaml", "backupAsset", "record", "swap"} \/ r.swapped
Mends(r) == r.at \in {"restore", "remove"} /\ ~r.swapped

OnTop(t) == [text |-> t, channel |-> Top]

(* The preview asset is not a flavor's, as far as no build leaked it (l).  *)
AssetOk(f, l) == l \/ f.asset \in {NoFile, Top}

(* The backups are the developer's, whoever reads them.                    *)
Backups(s, t, l) ==
    s.yaml \in {NoFile, OnTop(t)} /\ (l \/ s.asset \in {NoFile, Top})

(* The asset of record st can be restored, or was not there.               *)
AssetBacked(st, s, l) == "asset" \in st.existed => l \/ s.asset = Top

(* What a command in state r knows of the files f, the swap s, edit t.     *)
Guarded(r, f, s, t, l) ==
    /\ r.at \in {"backupYaml", "backupAsset", "record", "swap"} => f.yaml = OnTop(t) /\ AssetOk(f, l)
    /\ r.at \in {"backupYaml", "backupAsset", "record"} => s.record = NoFile
    /\ r.at \in {"backupAsset", "record", "swap"} => s.yaml = OnTop(t)
    /\ r.at = "record" /\ "asset" \in r.todo => l \/ s.asset = Top

RecordTells(r, s, t, l) ==
    r.at = "swap" \/ (r.swapped /\ r.at \in {"build", "end", "restore"}) =>
        /\ s.record # NoFile /\ s.record = r.st
        /\ r.at # "restore" \/ "yaml" \in r.todo => s.yaml = OnTop(t)
        /\ r.at # "restore" \/ "asset" \in r.todo => AssetBacked(r.st, s, l)

Mending(r, f, t, l) ==
    /\ r.at = "restore" =>
          /\ "yaml" \in r.todo \/ f.yaml = OnTop(t)
          /\ "asset" \in r.todo \/ ("yaml" \notin r.todo /\ AssetOk(f, l))
    /\ r.at = "remove" => f.yaml = OnTop(t) /\ AssetOk(f, l)

Kept(r, f, s, t, l) ==
    /\ Own(r) => s.exists
    /\ Guarded(r, f, s, t, l) /\ RecordTells(r, s, t, l) /\ Mending(r, f, t, l)
    /\ r.swapped /\ r.at = "build" => f.yaml.channel = r.channel
    /\ r.swapped /\ r.at = "end" => r.seen = r.channel

(* Where nobody owns the swap, what is in the project is the developer's,  *)
(* or a record says how to get it back.                                    *)
Unowned(f, s, t, l) ==
    /\ f.yaml = OnTop(t) \/ (s.record # NoFile /\ s.yaml = OnTop(t))
    /\ AssetOk(f, l) \/ (s.record # NoFile /\ AssetBacked(s.record, s, l))

(* What a command is like wherever it is.                                  *)
Shaped(r) ==
    /\ r.swapped => r.at \in {"build", "end", "restore", "remove"}
    /\ r.swapped /\ r.at = "remove" => r.then = "idle"
    /\ r.swapped /\ r.at = "restore" => r.then = "idle"
    /\ r.at \in {"recover", "read", "mkdir", "backupYaml"} \/ (r.at = "remove" /\ r.then = "read") => r.todo = {}
    /\ r.at = "backupAsset" => "asset" \notin r.todo
    /\ r.at \in {"backupAsset", "record"} => "yaml" \in r.todo
    /\ r.at # "idle" => r.pid \in Pids
    /\ r.at \in {"swap", "restore"} \/ r.swapped => r.st # NoFile /\ "yaml" \in r.st.existed

(* There is always a soroq.yaml to save; without a directory, no entries.  *)
Sound(s) == (~s.exists => s = NoSwap) /\ (s.record # NoFile => "yaml" \in s.record.existed)

SwapInv ==
    /\ TypeOK /\ Sound(swap)
    /\ \A p \in Procs : Shaped(cmd[p])
    /\ ~overtaken =>
          /\ \A p, q \in Procs : Own(cmd[p]) /\ (Own(cmd[q]) \/ Mends(cmd[q])) => p = q
          /\ Backups(swap, text, leaked)
          /\ \A p \in Procs : Kept(cmd[p], file, swap, text, leaked)
          /\ (\A p \in Procs : ~Own(cmd[p])) => Unowned(file, swap, text, leaked)
-----------------------------------------------------------------------------
LEMMA Typed ==
    ASSUME TypeOK
    PROVE  /\ file.yaml \in Yaml /\ file.asset \in Channels \cup {NoFile}
           /\ file = [yaml |-> file.yaml, asset |-> file.asset]
           /\ swap.exists \in BOOLEAN /\ swap.yaml \in Yaml \cup {NoFile}
           /\ swap.asset \in Channels \cup {NoFile} /\ swap.record \in SwapRecord \cup {NoFile}
           /\ swap = [exists |-> swap.exists, yaml |-> swap.yaml, asset |-> swap.asset, record |-> swap.record]
           /\ cmd \in [Procs -> Command]
           /\ text \in 0 .. MaxEdits /\ overtaken \in BOOLEAN /\ leaked \in BOOLEAN
           /\ runs \in 0 .. MaxRuns /\ kills \in 0 .. MaxKills
BY DEF TypeOK

LEMMA Constants ==
    /\ NoFile \notin Channels /\ NoFile \notin Yaml /\ NoFile \notin SwapRecord /\ Top \in Channels
    /\ NoSwap.exists = FALSE /\ NoSwap.yaml = NoFile /\ NoSwap.asset = NoFile /\ NoSwap.record = NoFile
    /\ EmptySwap.exists = TRUE /\ EmptySwap.yaml = NoFile /\ EmptySwap.asset = NoFile /\ EmptySwap.record = NoFile
    /\ \A y \in Yaml : y = [text |-> y.text, channel |-> y.channel] /\ y.channel \in Channels /\ y.text \in 0 .. MaxEdits
    /\ \A x \in SwapRecord : x.existed \subseteq Files
BY FlavorAssumption DEF Channels, NoSwap, EmptySwap, Yaml, SwapRecord

LEMMA IdleIs ==
    /\ Idle \in Command /\ Idle.at = "idle" /\ ~Idle.swapped /\ Idle.todo = {} /\ Idle.then = "idle"
    /\ ~Own(Idle) /\ ~Mends(Idle) /\ Shaped(Idle)
    /\ \A f, s, t, l : Kept(Idle, f, s, t, l)
<1>1. Idle.at = "idle" /\ ~Idle.swapped /\ Idle.todo = {} /\ Idle.then = "idle"
  BY DEF Idle
<1>2. Idle \in Command
  BY FlavorAssumption DEF Idle, Command, Steps, Channels, Kinds, Yaml
<1> QED
  BY <1>1, <1>2 DEF Own, Mends, Shaped, Kept, Guarded, RecordTells, Mending

(* What a command knows that neither owns the swap nor repairs: nothing.   *)
LEMMA BystanderKnowsNothing ==
    ASSUME NEW r, Shaped(r), ~Own(r), ~Mends(r), NEW f, NEW s, NEW t, NEW l
    PROVE  Kept(r, f, s, t, l)
BY DEF Shaped, Own, Mends, Kept, Guarded, RecordTells, Mending

(* One command moves, and what the others know stays true.                 *)
LEMMA StepKeeps ==
    ASSUME SwapInv, NEW p \in Procs, NEW q \in Command, cmd' = [cmd EXCEPT ![p] = q], Shaped(q),
           file' \in [yaml : Yaml, asset : Channels \cup {NoFile}],
           swap' \in [exists : BOOLEAN, yaml : Yaml \cup {NoFile}, asset : Channels \cup {NoFile},
                      record : SwapRecord \cup {NoFile}],
           text' = text, overtaken' \in BOOLEAN, leaked' \in BOOLEAN,
           runs' \in 0 .. MaxRuns, kills' \in 0 .. MaxKills,
           Sound(swap'),
           ~overtaken' =>
              /\ Backups(swap', text, leaked') /\ Kept(q, file', swap', text, leaked')
              /\ \A c \in Procs \ {p} : Kept(cmd[c], file', swap', text, leaked')
              /\ \A c \in Procs \ {p} : Own(q) => ~Own(cmd[c]) /\ ~Mends(cmd[c])
              /\ \A c \in Procs \ {p} : Mends(q) => ~Own(cmd[c])
              /\ ~Own(q) /\ (\A c \in Procs \ {p} : ~Own(cmd[c])) => Unowned(file', swap', text, leaked'),
           overtaken => overtaken'
    PROVE  SwapInv'
<1>1. cmd \in [Procs -> Command] /\ text \in 0 .. MaxEdits
  BY Typed DEF SwapInv
<1>2. /\ cmd' \in [Procs -> Command] /\ cmd'[p] = q
      /\ \A c \in Procs \ {p} : cmd'[c] = cmd[c]
  BY <1>1
<1>3. TypeOK'
  BY <1>1, <1>2 DEF TypeOK
<1>4. \A c \in Procs : Shaped(cmd'[c])
  BY <1>2 DEF SwapInv
<1>5. ASSUME ~overtaken'
      PROVE  /\ \A c, d \in Procs : Own(cmd'[c]) /\ (Own(cmd'[d]) \/ Mends(cmd'[d])) => c = d
             /\ \A c \in Procs : Kept(cmd'[c], file', swap', text, leaked')
             /\ (\A c \in Procs : ~Own(cmd'[c])) => Unowned(file', swap', text, leaked')
  <2>1. \A c, d \in Procs : Own(cmd[c]) /\ (Own(cmd[d]) \/ Mends(cmd[d])) => c = d
    BY <1>5 DEF SwapInv
  <2>2. \A c, d \in Procs : Own(cmd'[c]) /\ (Own(cmd'[d]) \/ Mends(cmd'[d])) => c = d
    BY <1>2, <1>5, <2>1
  <2>3. \A c \in Procs : Kept(cmd'[c], file', swap', text, leaked')
    BY <1>2, <1>5
  <2>4. (\A c \in Procs : ~Own(cmd'[c])) => Unowned(file', swap', text, leaked')
    BY <1>2, <1>5
  <2> QED
    BY <2>2, <2>3, <2>4
<1>6. SwapInv' = (/\ TypeOK' /\ Sound(swap')
                  /\ \A c \in Procs : Shaped(cmd'[c])
                  /\ ~overtaken' =>
                        /\ \A c, d \in Procs : Own(cmd'[c]) /\ (Own(cmd'[d]) \/ Mends(cmd'[d])) => c = d
                        /\ Backups(swap', text', leaked')
                        /\ \A c \in Procs : Kept(cmd'[c], file', swap', text', leaked')
                        /\ (\A c \in Procs : ~Own(cmd'[c])) => Unowned(file', swap', text', leaked'))
  BY DEF SwapInv
<1> QED
  BY <1>3, <1>4, <1>5, <1>6

(* What is known stays known when more has leaked.                         *)
LEMMA KnownStaysKnown ==
    ASSUME NEW r, NEW f, NEW s, NEW t, NEW l \in BOOLEAN, NEW m \in BOOLEAN, l => m
    PROVE  /\ Kept(r, f, s, t, l) => Kept(r, f, s, t, m)
           /\ Unowned(f, s, t, l) => Unowned(f, s, t, m)
           /\ Backups(s, t, l) => Backups(s, t, m)
BY DEF Kept, Guarded, RecordTells, Mending, Unowned, Backups, AssetOk, AssetBacked

(* A build that owns the swap can be taken away at any step.               *)
LEMMA OwnerRecoverable ==
    ASSUME NEW r, Shaped(r), Own(r), NEW f, NEW s, NEW t, NEW l, Kept(r, f, s, t, l)
    PROVE  Unowned(f, s, t, l)
BY DEF Shaped, Own, Kept, Guarded, RecordTells, Mending, Unowned

LEMMA Recoverable ==
    ASSUME SwapInv, ~overtaken
    PROVE  Unowned(file, swap, text, leaked)
<1>1. (\A c \in Procs : ~Own(cmd[c])) => Unowned(file, swap, text, leaked)
  BY DEF SwapInv
<1>2. ASSUME NEW c \in Procs, Own(cmd[c]) PROVE Unowned(file, swap, text, leaked)
  BY <1>2, OwnerRecoverable DEF SwapInv
<1> QED
  BY <1>1, <1>2

(* Who owns the swap is alone with it; who repairs meets no owner.         *)
LEMMA Alone ==
    ASSUME SwapInv, ~overtaken, NEW p \in Procs
    PROVE  /\ Own(cmd[p]) => \A c \in Procs \ {p} : ~Own(cmd[c]) /\ ~Mends(cmd[c])
           /\ Own(cmd[p]) => \A c \in Procs \ {p} : \A f, s, t, l : Kept(cmd[c], f, s, t, l)
           /\ Mends(cmd[p]) => \A c \in Procs : ~Own(cmd[c])
           /\ Backups(swap, text, leaked) /\ Unowned(file, swap, text, leaked)
           /\ Own(cmd[p]) => swap.exists
           /\ Kept(cmd[p], file, swap, text, leaked)
<1>1. \A c, d \in Procs : Own(cmd[c]) /\ (Own(cmd[d]) \/ Mends(cmd[d])) => c = d
  BY DEF SwapInv
<1>2. Own(cmd[p]) => \A c \in Procs \ {p} : ~Own(cmd[c]) /\ ~Mends(cmd[c])
  BY <1>1
<1>3. Own(cmd[p]) => \A c \in Procs \ {p} : \A f, s, t, l : Kept(cmd[c], f, s, t, l)
  BY <1>2, BystanderKnowsNothing DEF SwapInv
<1>4. Mends(cmd[p]) => \A c \in Procs : ~Own(cmd[c])
  BY <1>1 DEF Own, Mends
<1>5. \A c \in Procs : Shaped(cmd[c]) /\ Kept(cmd[c], file, swap, text, leaked)
  BY DEF SwapInv
<1>6. Unowned(file, swap, text, leaked)
  BY Recoverable
<1>7. Backups(swap, text, leaked)
  BY DEF SwapInv
<1> QED
  BY <1>2, <1>3, <1>4, <1>5, <1>6, <1>7 DEF Kept

(* A step that only moves one command, which owns no more than before.     *)
LEMMA QuietKeeps ==
    ASSUME SwapInv, NEW p \in Procs, NEW q \in Command, cmd' = [cmd EXCEPT ![p] = q], Shaped(q),
           UNCHANGED <<file, swap, text>>, overtaken' \in BOOLEAN, leaked' \in BOOLEAN,
           overtaken => overtaken', leaked => leaked', runs' \in 0 .. MaxRuns, kills' \in 0 .. MaxKills,
           Own(q) => Own(cmd[p]),
           ~overtaken' => Kept(q, file, swap, text, leaked'),
           ~overtaken' /\ Mends(q) => Mends(cmd[p]) \/ Own(cmd[p]) \/ \A c \in Procs \ {p} : ~Own(cmd[c])
    PROVE  SwapInv'
<1>1. /\ file' \in [yaml : Yaml, asset : Channels \cup {NoFile}]
      /\ swap' \in [exists : BOOLEAN, yaml : Yaml \cup {NoFile}, asset : Channels \cup {NoFile},
                     record : SwapRecord \cup {NoFile}]
      /\ Sound(swap') /\ leaked \in BOOLEAN
  BY DEF SwapInv, TypeOK, Sound
<1>2. ASSUME ~overtaken'
      PROVE  /\ Backups(swap, text, leaked') /\ Unowned(file, swap, text, leaked')
             /\ \A c \in Procs \ {p} : Kept(cmd[c], file, swap, text, leaked')
             /\ \A c \in Procs \ {p} : Own(q) => ~Own(cmd[c]) /\ ~Mends(cmd[c])
             /\ \A c \in Procs \ {p} : Mends(q) => ~Own(cmd[c])
  <2>1. Backups(swap, text, leaked) /\ Unowned(file, swap, text, leaked)
        /\ \A c \in Procs : Kept(cmd[c], file, swap, text, leaked)
    BY <1>2, Alone
  <2>2. Backups(swap, text, leaked') /\ Unowned(file, swap, text, leaked')
        /\ \A c \in Procs : Kept(cmd[c], file, swap, text, leaked')
    BY <2>1, <1>1, KnownStaysKnown
  <2> QED
    BY <2>2, <1>2, Alone
<1> QED
  BY <1>1, <1>2, StepKeeps

(* What the fields of a command are when it moves on.                      *)
LEMMA Moves ==
    ASSUME NEW r \in Command, NEW goal \in Steps
    PROVE  LET q == [r EXCEPT !.at = goal] IN
           /\ q \in Command /\ q.at = goal /\ q.swapped = r.swapped /\ q.todo = r.todo /\ q.then = r.then
           /\ q.st = r.st /\ q.channel = r.channel /\ q.seen = r.seen /\ q.pid = r.pid
BY DEF Command
-----------------------------------------------------------------------------
LEMMA StartKeeps ==
    ASSUME SwapInv, NEW p \in Procs, Start(p)
    PROVE  SwapInv'
<1>1. PICK kind \in Kinds, channel \in Channels :
        cmd' = [cmd EXCEPT ![p] = [Idle EXCEPT !.at = "recover", !.pid = runs + 1, !.channel = channel, !.kind = kind]]
  BY DEF Start
<1> DEFINE q == [Idle EXCEPT !.at = "recover", !.pid = runs + 1, !.channel = channel, !.kind = kind]
<1>2. runs' = runs + 1 /\ runs' \in 0 .. MaxRuns /\ runs + 1 \in 1 .. MaxRuns
      /\ UNCHANGED <<file, swap, text, overtaken, leaked, kills>>
  BY Typed, FlavorAssumption DEF Start, SwapInv
<1>3. q \in Command /\ q.at = "recover" /\ ~q.swapped /\ q.todo = {} /\ q.pid \in Pids
  BY <1>2, IdleIs DEF Command, Steps, Pids, Idle
<1>4. cmd' = [cmd EXCEPT ![p] = q]
  BY <1>1
<1> HIDE DEF q
<1>5. Shaped(q) /\ ~Own(q) /\ ~Mends(q)
  BY <1>3 DEF Shaped, Own, Mends
<1> QED
  BY <1>2, <1>3, <1>4, <1>5, Typed, BystanderKnowsNothing, QuietKeeps DEF SwapInv

LEMMA RecoverKeeps ==
    ASSUME SwapInv, NEW p \in Procs, Recover(p)
    PROVE  SwapInv'
<1>1. /\ cmd[p].at = "recover" /\ UNCHANGED <<file, swap, text, leaked, runs, kills>>
      /\ cmd[p] \in Command /\ Shaped(cmd[p]) /\ TypeOK
      /\ cmd[p].todo = {} /\ ~cmd[p].swapped /\ ~Own(cmd[p]) /\ ~Mends(cmd[p])
  BY Typed DEF Recover, SwapInv, Shaped, Own, Mends
<1>2. overtaken' \in BOOLEAN /\ (overtaken => overtaken')
  <2>1. UNCHANGED overtaken \/ Overtakes(p)
    BY DEF Recover
  <2>2. overtaken \in BOOLEAN
    BY <1>1, Typed
  <2>3. CASE Overtakes(p)
    <3>1. CASE overtaken \/ \E q \in Procs \ {p} : Owning(q)
      BY <2>3, <3>1 DEF Overtakes
    <3>2. CASE ~(overtaken \/ \E q \in Procs \ {p} : Owning(q))
      BY <2>3, <3>2 DEF Overtakes
    <3> QED
      BY <3>1, <3>2
  <2> QED
    BY <2>1, <2>2, <2>3
<1>3. CASE cmd' = [cmd EXCEPT ![p] = Idle]
  BY <1>1, <1>2, <1>3, IdleIs, Typed, QuietKeeps
<1>4. CASE cmd' = [cmd EXCEPT ![p].at = "read"]
  <2> DEFINE q == [cmd[p] EXCEPT !.at = "read"]
  <2>1. q \in Command /\ q.at = "read" /\ ~q.swapped /\ q.todo = {} /\ q.pid = cmd[p].pid /\ cmd' = [cmd EXCEPT ![p] = q]
    BY ZenonT(30), <1>1, <1>4, Moves DEF Steps
  <2> HIDE DEF q
  <2>2. Shaped(q) /\ ~Own(q) /\ ~Mends(q)
    BY <1>1, <2>1 DEF Shaped, Own, Mends
  <2> QED
    BY <1>1, <1>2, <2>1, <2>2, Typed, BystanderKnowsNothing, QuietKeeps
<1>5. AfterRecovery(p) \in {"idle", "read"}
  BY DEF AfterRecovery
<1>6. ASSUME Overtakes(p), ~overtaken'
      PROVE  /\ \A c \in Procs : ~Own(cmd[c])
             /\ Unowned(file, swap, text, leaked) /\ Backups(swap, text, leaked)
  BY <1>1, <1>2, <1>6, Alone DEF Overtakes, Owning, Own
<1>7. CASE /\ swap.record = NoFile /\ Overtakes(p)
           /\ cmd' = [cmd EXCEPT ![p].at = "remove", ![p].then = AfterRecovery(p)]
  <2> DEFINE q == [cmd[p] EXCEPT !.at = "remove", !.then = AfterRecovery(p)]
  <2>1. q \in Command /\ q.at = "remove" /\ ~q.swapped /\ q.todo = {} /\ q.pid = cmd[p].pid /\ cmd' = [cmd EXCEPT ![p] = q]
    BY <1>1, <1>5, <1>7 DEF Command, Steps
  <2> HIDE DEF q
  <2>2. Shaped(q) /\ ~Own(q) /\ Mends(q)
    BY <1>1, <2>1 DEF Shaped, Own, Mends
  <2>3. ~overtaken' => Kept(q, file, swap, text, leaked)
    BY <1>6, <1>7, <2>1, <2>2 DEF Kept, Guarded, RecordTells, Mending, Unowned
  <2> QED
    BY <1>1, <1>2, <1>6, <1>7, <2>1, <2>2, <2>3, Typed, QuietKeeps
<1>8. CASE /\ swap.record # NoFile /\ Overtakes(p)
           /\ cmd' = [cmd EXCEPT ![p].at = "restore", ![p].st = swap.record, ![p].todo = Files,
                                 ![p].then = AfterRecovery(p)]
  <2> DEFINE q == [cmd[p] EXCEPT !.at = "restore", !.st = swap.record, !.todo = Files, !.then = AfterRecovery(p)]
  <2>1. q \in Command /\ q.at = "restore" /\ ~q.swapped /\ q.todo = Files /\ q.st = swap.record /\ q.pid = cmd[p].pid
    BY <1>1, <1>5, <1>8, Typed DEF Command, Steps
  <2>4. cmd' = [cmd EXCEPT ![p] = q]
    BY <1>8
  <2> HIDE DEF q
  <2>2. Shaped(q) /\ ~Own(q) /\ Mends(q)
    BY <1>1, <1>8, <2>1 DEF SwapInv, Sound, Shaped, Own, Mends
  <2>3. ~overtaken' => Kept(q, file, swap, text, leaked)
    BY <2>1, <2>2 DEF Kept, Guarded, RecordTells, Mending, Files
  <2> QED
    BY <1>1, <1>2, <1>6, <1>8, <2>1, <2>2, <2>3, <2>4, Typed, QuietKeeps
<1> QED
  BY <1>1, <1>3, <1>4, <1>7, <1>8 DEF Recover, Recovered, Return, Goto

LEMMA RestoreFileKeeps ==
    ASSUME SwapInv, NEW p \in Procs, RestoreFile(p)
    PROVE  SwapInv'
<1> DEFINE f == NextFile(p)
           q == [cmd[p] EXCEPT !.todo = @ \ {f}]
<1>1. /\ cmd[p].at = "restore" /\ UNCHANGED <<swap, text, overtaken, leaked, runs, kills>>
      /\ cmd[p] \in Command /\ Shaped(cmd[p]) /\ TypeOK /\ Sound(swap) /\ f \in Files /\ f \in cmd[p].todo
      /\ (f = "asset" => "yaml" \notin cmd[p].todo) /\ cmd[p].todo \subseteq Files
  BY Typed DEF RestoreFile, SwapInv, NextFile, Files, Command
<1>2. CASE cmd' = [cmd EXCEPT ![p] = Idle] /\ file' = file
  BY <1>1, <1>2, IdleIs, Typed, QuietKeeps
<1>3. CASE /\ f \notin cmd[p].st.existed \/ swap[f] # NoFile
           /\ file' = [file EXCEPT ![f] = IF f \in cmd[p].st.existed THEN swap[f] ELSE NoFile]
           /\ cmd' = [cmd EXCEPT ![p].todo = @ \ {f}]
  <2>1. /\ q \in Command /\ q.at = "restore" /\ q.swapped = cmd[p].swapped /\ q.todo = cmd[p].todo \ {f}
        /\ q.then = cmd[p].then /\ q.st = cmd[p].st /\ q.pid = cmd[p].pid /\ q.channel = cmd[p].channel /\ q.seen = cmd[p].seen
    BY <1>1 DEF Command
  <2>2. cmd' = [cmd EXCEPT ![p] = q]
    BY <1>3
  <2> HIDE DEF q
  <2>3. Shaped(q) /\ (Own(q) <=> Own(cmd[p])) /\ (Mends(q) <=> Mends(cmd[p])) /\ (Own(q) \/ Mends(q))
    BY <1>1, <2>1 DEF Shaped, Own, Mends
  <2>4. f = "yaml" => "yaml" \in cmd[p].st.existed
    BY <1>1 DEF Shaped
  <2>5. CASE f = "yaml"
    <3>1. file'.yaml = swap.yaml /\ swap.yaml \in Yaml /\ file'.asset = file.asset
          /\ file' \in [yaml : Yaml, asset : Channels \cup {NoFile}]
      BY <1>1, <1>3, <2>4, <2>5, Typed DEF TypeOK
    <3>2. ASSUME ~overtaken
          PROVE  file'.yaml = OnTop(text)
      BY <1>1, <3>1, <3>2, Alone, Constants DEF Backups
    <3>3. ASSUME ~overtaken
          PROVE  /\ Kept(q, file', swap, text, leaked) /\ Unowned(file', swap, text, leaked)
                 /\ \A c \in Procs \ {p} : Kept(cmd[c], file', swap, text, leaked)
      <4>1. /\ Kept(cmd[p], file, swap, text, leaked) /\ Unowned(file, swap, text, leaked)
            /\ \A c \in Procs \ {p} : ~Own(cmd[c]) /\ Kept(cmd[c], file, swap, text, leaked) /\ Shaped(cmd[c])
        BY <3>3, <2>3, Alone DEF SwapInv
      <4>2. Kept(q, file', swap, text, leaked)
        BY <4>1, <3>1, <3>2, <3>3, <1>1, <2>1, <2>5, <2>3 DEF Kept, Guarded, RecordTells, Mending, Own
      <4>3. Unowned(file', swap, text, leaked)
        BY <4>1, <3>1, <3>2, <3>3 DEF Unowned, AssetOk
      <4>4. ASSUME NEW c \in Procs \ {p} PROVE Kept(cmd[c], file', swap, text, leaked)
        BY <4>1, <3>1, <3>2, <3>3 DEF Kept, Guarded, RecordTells, Mending, Own, AssetOk
      <4> QED
        BY <4>2, <4>3, <4>4
    <3> QED
      BY <1>1, <2>1, <2>2, <2>3, <3>1, <3>3, Alone, Typed, StepKeeps
  <2>6. CASE f = "asset"
    <3>1. /\ file'.yaml = file.yaml /\ file'.asset \in Channels \cup {NoFile}
          /\ file'.asset = (IF "asset" \in cmd[p].st.existed THEN swap.asset ELSE NoFile)
          /\ file' \in [yaml : Yaml, asset : Channels \cup {NoFile}]
      BY <1>1, <1>3, <2>6, Typed DEF TypeOK
    <3>2. ASSUME ~overtaken
          PROVE  AssetOk(file', leaked)
      BY <1>1, <3>1, <3>2, Alone DEF Backups, AssetOk
    <3>3. ASSUME ~overtaken
          PROVE  /\ Kept(q, file', swap, text, leaked) /\ Unowned(file', swap, text, leaked)
                 /\ \A c \in Procs \ {p} : Kept(cmd[c], file', swap, text, leaked)
      <4>1. /\ Kept(cmd[p], file, swap, text, leaked) /\ Unowned(file, swap, text, leaked)
            /\ \A c \in Procs \ {p} : ~Own(cmd[c]) /\ Kept(cmd[c], file, swap, text, leaked) /\ Shaped(cmd[c])
        BY <3>3, <2>3, Alone DEF SwapInv
      <4>2. Kept(q, file', swap, text, leaked)
        BY <4>1, <3>1, <3>2, <3>3, <1>1, <2>1, <2>6, <2>3 DEF Kept, Guarded, RecordTells, Mending, Own
      <4>3. Unowned(file', swap, text, leaked)
        BY <4>1, <3>1, <3>2, <3>3 DEF Unowned
      <4>4. ASSUME NEW c \in Procs \ {p} PROVE Kept(cmd[c], file', swap, text, leaked)
        BY <4>1, <3>1, <3>2, <3>3 DEF Kept, Guarded, RecordTells, Mending, Own
      <4> QED
        BY <4>2, <4>3, <4>4
    <3> QED
      BY <1>1, <2>1, <2>2, <2>3, <3>1, <3>3, Alone, Typed, StepKeeps
  <2> QED
    BY <1>1, <2>5, <2>6 DEF Files
<1> QED
  BY <1>2, <1>3 DEF RestoreFile, Return

LEMMA RestoreDoneKeeps ==
    ASSUME SwapInv, NEW p \in Procs, RestoreDone(p)
    PROVE  SwapInv'
<1> DEFINE q == [cmd[p] EXCEPT !.at = "remove"]
<1>1. /\ cmd[p].at = "restore" /\ cmd[p].todo = {} /\ cmd' = [cmd EXCEPT ![p] = q]
      /\ cmd[p] \in Command /\ Shaped(cmd[p]) /\ TypeOK
      /\ UNCHANGED <<file, swap, text, overtaken, leaked, runs, kills>>
  BY Typed DEF RestoreDone, Goto, SwapInv
<1>2. /\ q \in Command /\ q.at = "remove" /\ q.swapped = cmd[p].swapped /\ q.todo = {} /\ q.then = cmd[p].then
      /\ q.st = cmd[p].st /\ q.pid = cmd[p].pid
  BY ZenonT(30), <1>1, Moves DEF Steps
<1> HIDE DEF q
<1>3. Shaped(q) /\ (Own(q) <=> Own(cmd[p])) /\ (Mends(q) <=> Mends(cmd[p]))
  BY <1>1, <1>2 DEF Shaped, Own, Mends
<1>4. ~overtaken => Kept(q, file, swap, text, leaked)
  <2> SUFFICES ASSUME ~overtaken PROVE Kept(q, file, swap, text, leaked)
    OBVIOUS
  <2>1. Kept(cmd[p], file, swap, text, leaked)
    BY Alone
  <2> QED
    BY <1>1, <1>2, <1>3, <2>1 DEF Kept, Guarded, RecordTells, Mending, Own
<1> QED
  BY <1>1, <1>2, <1>3, <1>4, Typed, QuietKeeps

LEMMA RemoveEntryKeeps ==
    ASSUME SwapInv, NEW p \in Procs, RemoveEntry(p)
    PROVE  SwapInv'
<1>1. /\ cmd[p].at = "remove" /\ UNCHANGED <<file, cmd, text, overtaken, leaked, runs, kills>>
      /\ cmd[p] \in Command /\ Shaped(cmd[p]) /\ TypeOK /\ Sound(swap)
  BY Typed DEF RemoveEntry, SwapInv
<1>2. PICK entry \in {"yaml", "asset", "record"} : swap[entry] # NoFile /\ swap' = [swap EXCEPT ![entry] = NoFile]
  BY DEF RemoveEntry
<1>3. /\ swap' \in [exists : BOOLEAN, yaml : Yaml \cup {NoFile}, asset : Channels \cup {NoFile},
                     record : SwapRecord \cup {NoFile}]
      /\ swap'.exists = swap.exists /\ swap'.yaml \in {swap.yaml, NoFile}
      /\ swap'.asset \in {swap.asset, NoFile} /\ swap'.record \in {swap.record, NoFile}
  BY <1>1, <1>2, Typed DEF TypeOK
<1>4. Sound(swap')
  BY <1>1, <1>2, <1>3, Constants DEF Sound
<1>5. cmd' = [cmd EXCEPT ![p] = cmd[p]]
  BY <1>1, Typed
<1>6. Own(cmd[p]) \/ Mends(cmd[p])
  BY <1>1 DEF Own, Mends
<1>7. ASSUME ~overtaken
      PROVE  /\ Backups(swap', text, leaked) /\ Unowned(file, swap', text, leaked)
             /\ \A c \in Procs : Kept(cmd[c], file, swap', text, leaked)
             /\ \A c \in Procs \ {p} : Own(cmd[p]) => ~Own(cmd[c]) /\ ~Mends(cmd[c])
             /\ \A c \in Procs \ {p} : Mends(cmd[p]) => ~Own(cmd[c])
  <2>1. /\ Backups(swap, text, leaked) /\ Kept(cmd[p], file, swap, text, leaked)
        /\ \A c \in Procs \ {p} : Own(cmd[p]) => ~Own(cmd[c]) /\ ~Mends(cmd[c])
        /\ \A c \in Procs \ {p} : ~Own(cmd[c]) /\ Shaped(cmd[c]) /\ Kept(cmd[c], file, swap, text, leaked)
    BY <1>6, <1>7, Alone DEF SwapInv
  <2>2. Backups(swap', text, leaked) /\ Unowned(file, swap', text, leaked)
    BY <1>1, <1>3, <2>1 DEF Backups, Unowned, Kept, Mending
  <2>3. Kept(cmd[p], file, swap', text, leaked)
    BY <1>1, <1>3, <2>1 DEF Kept, Guarded, RecordTells, Mending
  <2>4. ASSUME NEW c \in Procs \ {p} PROVE Kept(cmd[c], file, swap', text, leaked)
    BY <2>1 DEF Kept, Guarded, RecordTells, Mending, Own
  <2> QED
    BY <2>1, <2>2, <2>3, <2>4
<1> QED
  BY <1>1, <1>3, <1>4, <1>5, <1>7, Typed, StepKeeps DEF TypeOK

LEMMA RemoveDirectoryKeeps ==
    ASSUME SwapInv, NEW p \in Procs, RemoveDirectory(p)
    PROVE  SwapInv'
<1> DEFINE q == IF cmd[p].then = "idle" THEN Idle ELSE [cmd[p] EXCEPT !.at = "read"]
<1>1. /\ cmd[p].at = "remove" /\ UNCHANGED <<file, text, overtaken, leaked, runs, kills>>
      /\ swap' = NoSwap /\ cmd' = [cmd EXCEPT ![p] = q]
      /\ cmd[p] \in Command /\ Shaped(cmd[p]) /\ TypeOK /\ cmd[p].then \in {"idle", "read"}
  BY Typed DEF RemoveDirectory, Return, Goto, SwapInv, Command
<1>2. q \in Command /\ Shaped(q) /\ ~Own(q) /\ ~Mends(q)
  <2>1. CASE cmd[p].then = "idle"
    BY <2>1, IdleIs
  <2>2. CASE cmd[p].then = "read"
    <3> DEFINE r == [cmd[p] EXCEPT !.at = "read"]
    <3>1. q = r /\ ~cmd[p].swapped /\ cmd[p].todo = {}
      BY <1>1, <2>2 DEF Shaped
    <3>2. r \in Command /\ r.at = "read" /\ ~r.swapped /\ r.todo = {} /\ r.pid = cmd[p].pid
      BY ZenonT(30), <1>1, <3>1, Moves DEF Steps
    <3> HIDE DEF r
    <3>3. Shaped(r) /\ ~Own(r) /\ ~Mends(r)
      BY <1>1, <3>2 DEF Shaped, Own, Mends
    <3> HIDE DEF q
    <3> QED
      BY <3>1, <3>2, <3>3
  <2> QED
    BY <1>1, <2>1, <2>2
<1> HIDE DEF q
<1>3. Own(cmd[p]) \/ Mends(cmd[p])
  BY <1>1 DEF Own, Mends
<1>4. /\ NoSwap \in [exists : BOOLEAN, yaml : Yaml \cup {NoFile}, asset : Channels \cup {NoFile},
                      record : SwapRecord \cup {NoFile}]
      /\ Sound(NoSwap)
  BY Constants DEF NoSwap, Sound
<1>5. ASSUME ~overtaken
      PROVE  /\ Backups(NoSwap, text, leaked) /\ Unowned(file, NoSwap, text, leaked)
             /\ \A c \in Procs \ {p} : ~Own(cmd[c]) /\ Kept(cmd[c], file, NoSwap, text, leaked)
  <2>1. /\ Kept(cmd[p], file, swap, text, leaked)
        /\ \A c \in Procs \ {p} : ~Own(cmd[c]) /\ Shaped(cmd[c]) /\ Kept(cmd[c], file, swap, text, leaked)
    BY <1>3, <1>5, Alone DEF SwapInv
  <2>2. Backups(NoSwap, text, leaked) /\ Unowned(file, NoSwap, text, leaked)
    BY <1>1, <2>1, Constants DEF Backups, Unowned, Kept, Mending
  <2>3. ASSUME NEW c \in Procs \ {p} PROVE Kept(cmd[c], file, NoSwap, text, leaked)
    BY <2>1 DEF Kept, Guarded, RecordTells, Mending, Own
  <2> QED
    BY <2>1, <2>2, <2>3
<1> QED
  BY <1>1, <1>2, <1>4, <1>5, Typed, BystanderKnowsNothing, StepKeeps DEF TypeOK

(* Reading another command's effective file is remembered.                 *)
LEMMA ReadsIs ==
    ASSUME NEW p \in Procs, Reads(p), leaked \in BOOLEAN
    PROVE  leaked' \in BOOLEAN /\ (leaked => leaked') /\ (leaked' \/ file.yaml.channel = Top \/ cmd[p].swapped)
<1>1. CASE leaked \/ (file.yaml.channel # Top /\ ~cmd[p].swapped)
  BY <1>1 DEF Reads
<1>2. CASE ~(leaked \/ (file.yaml.channel # Top /\ ~cmd[p].swapped))
  BY <1>2 DEF Reads
<1> QED
  BY <1>1, <1>2

LEMMA ReadKeeps ==
    ASSUME SwapInv, NEW p \in Procs, Read(p)
    PROVE  SwapInv'
<1>1. /\ cmd[p].at = "read" /\ Reads(p) /\ UNCHANGED <<file, swap, text, overtaken, runs, kills>>
      /\ cmd[p] \in Command /\ Shaped(cmd[p]) /\ TypeOK /\ ~cmd[p].swapped /\ cmd[p].todo = {}
  BY Typed DEF Read, SwapInv, Shaped
<1>2. leaked' \in BOOLEAN /\ (leaked => leaked')
  BY <1>1, ReadsIs, Typed
<1>3. PICK goal \in {"build", "mkdir"}, y \in Yaml : cmd' = [cmd EXCEPT ![p] = [cmd[p] EXCEPT !.at = goal, !.original = y]]
  <2>1. CASE Goto(p, "build")
    <3>1. cmd[p].original \in Yaml /\ [cmd[p] EXCEPT !.at = "build"] = [cmd[p] EXCEPT !.at = "build", !.original = cmd[p].original]
      BY <1>1 DEF Command
    <3> QED
      BY <2>1, <3>1 DEF Goto
  <2>2. CASE cmd' = [cmd EXCEPT ![p].at = "mkdir", ![p].original = file.yaml]
    BY <1>1, <2>2, Typed
  <2> QED
    BY <2>1, <2>2 DEF Read
<1> DEFINE q == [cmd[p] EXCEPT !.at = goal, !.original = y]
<1>4. q \in Command /\ q.at \in {"build", "mkdir"} /\ ~q.swapped /\ q.todo = {} /\ q.pid = cmd[p].pid
  BY <1>1 DEF Command, Steps
<1>5. cmd' = [cmd EXCEPT ![p] = q]
  BY <1>3
<1> HIDE DEF q
<1>6. Shaped(q) /\ ~Own(q) /\ ~Mends(q)
  BY <1>1, <1>4 DEF Shaped, Own, Mends
<1> QED
  BY <1>1, <1>2, <1>4, <1>5, <1>6, Typed, BystanderKnowsNothing, QuietKeeps

LEMMA MkdirKeeps ==
    ASSUME SwapInv, NEW p \in Procs, Mkdir(p)
    PROVE  SwapInv'
<1>1. /\ cmd[p].at = "mkdir" /\ UNCHANGED <<file, text, leaked, runs, kills>>
      /\ cmd[p] \in Command /\ Shaped(cmd[p]) /\ TypeOK /\ Sound(swap) /\ ~cmd[p].swapped /\ cmd[p].todo = {}
  BY Typed DEF Mkdir, SwapInv, Shaped
<1>2. CASE cmd' = [cmd EXCEPT ![p] = Idle] /\ UNCHANGED <<swap, overtaken>>
  BY <1>1, <1>2, IdleIs, Typed, QuietKeeps
<1>3. CASE ~swap.exists /\ swap' = EmptySwap /\ Goto(p, "backupYaml") /\ IsOvertaken(p)
  <2> DEFINE q == [cmd[p] EXCEPT !.at = "backupYaml"]
  <2>1. q \in Command /\ q.at = "backupYaml" /\ ~q.swapped /\ q.todo = {} /\ q.pid = cmd[p].pid /\ cmd' = [cmd EXCEPT ![p] = q]
    BY ZenonT(30), <1>1, <1>3, Moves DEF Goto, Steps
  <2> HIDE DEF q
  <2>2. Shaped(q) /\ Own(q) /\ ~Mends(q)
    BY <1>1, <2>1 DEF Shaped, Own, Mends
  <2>3. /\ overtaken' \in BOOLEAN /\ (overtaken => overtaken')
        /\ (~overtaken' => \A c \in Procs \ {p} : ~Mends(cmd[c]))
    <3>1. overtaken \in BOOLEAN
      BY <1>1, Typed
    <3>2. CASE overtaken \/ \E c \in Procs \ {p} : Repairing(c)
      BY <1>3, <3>2 DEF IsOvertaken
    <3>3. CASE ~(overtaken \/ \E c \in Procs \ {p} : Repairing(c))
      BY <1>3, <3>3 DEF IsOvertaken, Repairing, Mends
    <3> QED
      BY <3>2, <3>3
  <2>4. /\ EmptySwap \in [exists : BOOLEAN, yaml : Yaml \cup {NoFile}, asset : Channels \cup {NoFile},
                           record : SwapRecord \cup {NoFile}]
        /\ Sound(EmptySwap)
    BY Constants DEF EmptySwap, NoSwap, Sound
  <2>5. ASSUME ~overtaken'
        PROVE  /\ Backups(EmptySwap, text, leaked) /\ Kept(q, file, EmptySwap, text, leaked)
               /\ \A c \in Procs \ {p} : ~Own(cmd[c]) /\ ~Mends(cmd[c]) /\ Kept(cmd[c], file, EmptySwap, text, leaked)
    <3>1. Unowned(file, swap, text, leaked) /\ swap.record = NoFile
      BY <1>1, <1>3, <2>3, <2>5, Alone, Constants DEF Sound
    <3>2. \A c \in Procs \ {p} : ~Own(cmd[c]) /\ ~Mends(cmd[c]) /\ Shaped(cmd[c])
      BY <1>3, <2>3, <2>5, Alone DEF SwapInv
    <3>3. Backups(EmptySwap, text, leaked) /\ Kept(q, file, EmptySwap, text, leaked)
      BY <2>1, <2>2, <3>1, Constants DEF Backups, Kept, Guarded, RecordTells, Mending, Unowned
    <3> QED
      BY <3>2, <3>3, BystanderKnowsNothing
  <2> QED
    BY <1>1, <1>3, <2>1, <2>2, <2>3, <2>4, <2>5, Typed, StepKeeps DEF TypeOK
<1> QED
  BY <1>2, <1>3 DEF Mkdir, Return

(* A build finds the directory gone: it can only have been overtaken.      *)
LEMMA GiveUpKeeps ==
    ASSUME SwapInv, NEW p \in Procs, Own(cmd[p]), ~cmd[p].swapped, GiveUp(p), ~swap.exists,
           UNCHANGED <<file, swap, text, overtaken, leaked, runs, kills>>
    PROVE  SwapInv'
<1> DEFINE q == [cmd[p] EXCEPT !.at = "remove", !.then = "idle"]
<1>1. cmd[p] \in Command /\ Shaped(cmd[p]) /\ TypeOK /\ cmd[p].pid \in Pids
  BY Typed DEF SwapInv, Shaped, Own
<1>2. /\ q \in Command /\ q.at = "remove" /\ q.then = "idle" /\ ~q.swapped /\ q.pid = cmd[p].pid
      /\ cmd' = [cmd EXCEPT ![p] = q]
  BY <1>1 DEF Command, Steps, GiveUp
<1> HIDE DEF q
<1>3. Shaped(q) /\ ~Own(q) /\ overtaken
  BY <1>1, <1>2, Alone DEF Shaped, Own
<1> QED
  BY <1>1, <1>2, <1>3, Typed, QuietKeeps

(* The owner goes on, with what it then knows of files, swap and itself.   *)
LEMMA OwnerKeeps ==
    ASSUME SwapInv, NEW p \in Procs, Own(cmd[p]), NEW q \in Command, cmd' = [cmd EXCEPT ![p] = q],
           Shaped(q), Own(q), UNCHANGED <<text, overtaken, runs, kills>>,
           leaked' \in BOOLEAN,
           file' \in [yaml : Yaml, asset : Channels \cup {NoFile}],
           swap' \in [exists : BOOLEAN, yaml : Yaml \cup {NoFile}, asset : Channels \cup {NoFile},
                      record : SwapRecord \cup {NoFile}],
           Sound(swap'),
           ~overtaken => Backups(swap', text, leaked') /\ Kept(q, file', swap', text, leaked')
    PROVE  SwapInv'
<1>1. ~Mends(q) /\ TypeOK
  BY DEF Own, Mends, Shaped, SwapInv
<1>2. ~overtaken => \A c \in Procs \ {p} : ~Own(cmd[c]) /\ ~Mends(cmd[c]) /\ Kept(cmd[c], file', swap', text, leaked')
  BY Alone
<1> QED
  BY <1>1, <1>2, Typed, StepKeeps

LEMMA BackupYamlKeeps ==
    ASSUME SwapInv, NEW p \in Procs, BackupYaml(p)
    PROVE  SwapInv'
<1>1. /\ cmd[p].at = "backupYaml" /\ UNCHANGED <<file, text, overtaken, leaked, runs, kills>>
      /\ cmd[p] \in Command /\ Shaped(cmd[p]) /\ TypeOK /\ Sound(swap) /\ ~cmd[p].swapped /\ cmd[p].todo = {}
      /\ Own(cmd[p]) /\ file.yaml \in Yaml /\ file.yaml # NoFile
  BY Typed, Constants DEF BackupYaml, Backup, SwapInv, Shaped, Own
<1>2. CASE GiveUp(p) /\ ~swap.exists /\ UNCHANGED swap
  BY <1>1, <1>2, GiveUpKeeps
<1>3. CASE /\ swap.exists /\ swap' = [swap EXCEPT !["yaml"] = file["yaml"]]
           /\ cmd' = [cmd EXCEPT ![p].at = "backupAsset", ![p].todo = @ \cup {"yaml"}]
  <2> DEFINE q == [cmd[p] EXCEPT !.at = "backupAsset", !.todo = @ \cup {"yaml"}]
  <2>1. /\ q \in Command /\ q.at = "backupAsset" /\ ~q.swapped /\ q.todo = {"yaml"} /\ q.pid = cmd[p].pid
        /\ cmd' = [cmd EXCEPT ![p] = q]
    <3>1. cmd[p].todo \cup {"yaml"} = {"yaml"} /\ {"yaml"} \in SUBSET Files
      BY <1>1 DEF Files
    <3> QED
      BY ZenonT(30), <1>1, <1>3, <3>1 DEF Command, Steps
  <2> HIDE DEF q
  <2>2. Shaped(q) /\ Own(q)
    BY <1>1, <2>1 DEF Shaped, Own
  <2>3. /\ swap' \in [exists : BOOLEAN, yaml : Yaml \cup {NoFile}, asset : Channels \cup {NoFile},
                       record : SwapRecord \cup {NoFile}]
        /\ swap'.exists /\ swap'.yaml = file.yaml /\ swap'.asset = swap.asset /\ swap'.record = swap.record
    BY <1>1, <1>3 DEF TypeOK
  <2>4. Sound(swap')
    BY <1>1, <2>3 DEF Sound
  <2>5. ASSUME ~overtaken
        PROVE  Backups(swap', text, leaked) /\ Kept(q, file, swap', text, leaked)
    <3>1. Backups(swap, text, leaked) /\ Kept(cmd[p], file, swap, text, leaked)
      BY <2>5, Alone
    <3> QED
      BY <1>1, <2>1, <2>3, <3>1 DEF Backups, Kept, Guarded, RecordTells, Mending
  <2> QED
    BY <1>1, <2>1, <2>2, <2>3, <2>4, <2>5, Typed, OwnerKeeps DEF TypeOK
<1> QED
  BY <1>1, <1>2, <1>3 DEF BackupYaml, Backup

LEMMA BackupAssetKeeps ==
    ASSUME SwapInv, NEW p \in Procs, BackupAsset(p)
    PROVE  SwapInv'
<1>1. /\ cmd[p].at = "backupAsset" /\ UNCHANGED <<file, text, overtaken, leaked, runs, kills>>
      /\ cmd[p] \in Command /\ Shaped(cmd[p]) /\ TypeOK /\ Sound(swap) /\ ~cmd[p].swapped /\ Own(cmd[p])
      /\ "yaml" \in cmd[p].todo /\ "asset" \notin cmd[p].todo
  BY Typed DEF BackupAsset, Backup, SwapInv, Shaped, Own
<1>2. CASE GiveUp(p) /\ ~swap.exists /\ UNCHANGED swap
  BY <1>1, <1>2, GiveUpKeeps
<1>3. CASE /\ file.asset # NoFile /\ swap.exists /\ swap' = [swap EXCEPT !["asset"] = file["asset"]]
           /\ cmd' = [cmd EXCEPT ![p].at = "record", ![p].todo = @ \cup {"asset"}]
  <2> DEFINE q == [cmd[p] EXCEPT !.at = "record", !.todo = @ \cup {"asset"}]
  <2>1. /\ q \in Command /\ q.at = "record" /\ ~q.swapped /\ "yaml" \in q.todo /\ q.pid = cmd[p].pid
        /\ cmd' = [cmd EXCEPT ![p] = q]
    <3>1. cmd[p].todo \cup {"asset"} \in SUBSET Files
      BY <1>1 DEF Command, Files
    <3> QED
      BY ZenonT(30), <1>1, <1>3, <3>1 DEF Command, Steps
  <2> HIDE DEF q
  <2>2. Shaped(q) /\ Own(q)
    BY <1>1, <2>1 DEF Shaped, Own
  <2>3. /\ swap' \in [exists : BOOLEAN, yaml : Yaml \cup {NoFile}, asset : Channels \cup {NoFile},
                       record : SwapRecord \cup {NoFile}]
        /\ swap'.exists /\ swap'.yaml = swap.yaml /\ swap'.asset = file.asset /\ swap'.record = swap.record
    BY <1>1, <1>3, Typed DEF TypeOK
  <2>4. Sound(swap')
    BY <1>1, <2>3 DEF Sound
  <2>5. ASSUME ~overtaken
        PROVE  Backups(swap', text, leaked) /\ Kept(q, file, swap', text, leaked)
    <3>1. Backups(swap, text, leaked) /\ Kept(cmd[p], file, swap, text, leaked)
      BY <2>5, Alone
    <3>2. leaked \/ file.asset = Top
      BY <1>1, <1>3, <3>1 DEF Kept, Guarded, AssetOk
    <3> QED
      BY <1>1, <2>1, <2>3, <3>1, <3>2 DEF Backups, Kept, Guarded, RecordTells, Mending
  <2> QED
    BY <1>1, <2>1, <2>2, <2>3, <2>4, <2>5, Typed, OwnerKeeps DEF TypeOK
<1>4. CASE Goto(p, "record") /\ UNCHANGED swap
  <2> DEFINE q == [cmd[p] EXCEPT !.at = "record"]
  <2>1. /\ q \in Command /\ q.at = "record" /\ ~q.swapped /\ q.todo = cmd[p].todo /\ q.pid = cmd[p].pid
        /\ cmd' = [cmd EXCEPT ![p] = q]
    BY <1>1, <1>4, Moves DEF Goto, Steps
  <2> HIDE DEF q
  <2>2. Shaped(q) /\ Own(q)
    BY <1>1, <2>1 DEF Shaped, Own
  <2>3. ASSUME ~overtaken
        PROVE  Backups(swap, text, leaked) /\ Kept(q, file, swap, text, leaked)
    <3>1. Backups(swap, text, leaked) /\ Kept(cmd[p], file, swap, text, leaked)
      BY <2>3, Alone
    <3> QED
      BY <1>1, <2>1, <2>2, <3>1 DEF Kept, Guarded, RecordTells, Mending
  <2> QED
    BY <1>1, <1>4, <2>1, <2>2, <2>3, Typed, OwnerKeeps DEF TypeOK
<1> QED
  BY <1>1, <1>2, <1>3, <1>4 DEF BackupAsset, Backup

LEMMA WriteRecordKeeps ==
    ASSUME SwapInv, NEW p \in Procs, WriteRecord(p)
    PROVE  SwapInv'
<1> DEFINE st == [pid |-> cmd[p].pid, existed |-> cmd[p].todo]
<1>1. /\ cmd[p].at = "record" /\ UNCHANGED <<file, text, overtaken, leaked, runs, kills>>
      /\ cmd[p] \in Command /\ Shaped(cmd[p]) /\ TypeOK /\ Sound(swap) /\ ~cmd[p].swapped /\ Own(cmd[p])
  BY Typed DEF WriteRecord, SwapInv, Shaped, Own
<1>2. st \in SwapRecord /\ st # NoFile /\ "yaml" \in st.existed /\ st.existed = cmd[p].todo
  <2>1. cmd[p].pid \in Pids /\ "yaml" \in cmd[p].todo /\ cmd[p].todo \in SUBSET Files
    BY <1>1 DEF Shaped, Command
  <2>2. st \in SwapRecord
    BY <2>1 DEF SwapRecord
  <2> QED
    BY <2>1, <2>2, Constants
<1>3. CASE GiveUp(p) /\ ~swap.exists /\ UNCHANGED swap
  BY <1>1, <1>3, GiveUpKeeps
<1>4. CASE /\ swap.exists /\ swap' = [swap EXCEPT !.record = st]
           /\ cmd' = [cmd EXCEPT ![p].at = "swap", ![p].st = st, ![p].todo = {}]
  <2> DEFINE q == [cmd[p] EXCEPT !.at = "swap", !.st = st, !.todo = {}]
  <2> HIDE DEF st
  <2>1. /\ q \in Command /\ q.at = "swap" /\ ~q.swapped /\ q.st = st /\ q.pid = cmd[p].pid
        /\ cmd' = [cmd EXCEPT ![p] = q]
    BY <1>1, <1>2, <1>4 DEF Command, Steps
  <2> HIDE DEF q
  <2>2. Shaped(q) /\ Own(q)
    BY <1>1, <1>2, <2>1 DEF Shaped, Own
  <2>3. /\ swap' \in [exists : BOOLEAN, yaml : Yaml \cup {NoFile}, asset : Channels \cup {NoFile},
                       record : SwapRecord \cup {NoFile}]
        /\ swap'.exists /\ swap'.yaml = swap.yaml /\ swap'.asset = swap.asset /\ swap'.record = st
    BY <1>1, <1>2, <1>4, Typed DEF TypeOK
  <2>4. Sound(swap')
    BY <1>2, <2>3 DEF Sound
  <2>5. ASSUME ~overtaken
        PROVE  Backups(swap', text, leaked) /\ Kept(q, file, swap', text, leaked)
    <3>1. Backups(swap, text, leaked) /\ Kept(cmd[p], file, swap, text, leaked)
      BY <2>5, Alone
    <3> QED
      BY <1>1, <1>2, <2>1, <2>3, <3>1 DEF Backups, Kept, Guarded, RecordTells, Mending, AssetBacked
  <2> QED
    BY <1>1, <2>1, <2>2, <2>3, <2>4, <2>5, Typed, OwnerKeeps DEF TypeOK
<1> QED
  BY <1>1, <1>3, <1>4 DEF WriteRecord

LEMMA SwapYamlKeeps ==
    ASSUME SwapInv, NEW p \in Procs, SwapYaml(p)
    PROVE  SwapInv'
<1> DEFINE q == [cmd[p] EXCEPT !.at = "build", !.swapped = TRUE, !.original = Idle.original]
<1>1. /\ cmd[p].at = "swap" /\ UNCHANGED <<swap, text, overtaken, leaked, runs, kills>>
      /\ cmd[p] \in Command /\ Shaped(cmd[p]) /\ TypeOK /\ Sound(swap) /\ ~cmd[p].swapped /\ Own(cmd[p])
      /\ cmd' = [cmd EXCEPT ![p] = q]
      /\ file' = [file EXCEPT !.yaml = [cmd[p].original EXCEPT !.channel = cmd[p].channel]]
  BY Typed DEF SwapYaml, SwapInv, Shaped, Own
<1>2. Idle.original \in Yaml /\ cmd[p].original \in Yaml /\ cmd[p].channel \in Channels
  BY <1>1, IdleIs DEF Command
<1>3. /\ q \in Command /\ q.at = "build" /\ q.swapped /\ q.st = cmd[p].st /\ q.channel = cmd[p].channel /\ q.pid = cmd[p].pid
  BY <1>1, <1>2 DEF Command, Steps
<1> HIDE DEF q
<1>4. Shaped(q) /\ Own(q)
  BY <1>1, <1>3 DEF Shaped, Own
<1>5. /\ file'.yaml \in Yaml /\ file'.yaml.channel = cmd[p].channel
      /\ file' \in [yaml : Yaml, asset : Channels \cup {NoFile}]
  <2>1. [cmd[p].original EXCEPT !.channel = cmd[p].channel] \in Yaml
        /\ [cmd[p].original EXCEPT !.channel = cmd[p].channel].channel = cmd[p].channel
    BY <1>2 DEF Yaml
  <2> QED
    BY <1>1, <2>1 DEF TypeOK
<1>6. ASSUME ~overtaken
      PROVE  Backups(swap, text, leaked) /\ Kept(q, file', swap, text, leaked)
  <2>1. Backups(swap, text, leaked) /\ Kept(cmd[p], file, swap, text, leaked)
    BY <1>6, Alone
  <2> QED
    BY <1>1, <1>3, <1>4, <1>5, <2>1 DEF Kept, Guarded, RecordTells, Mending
<1> QED
  BY <1>1, <1>3, <1>4, <1>5, <1>6, Typed, OwnerKeeps DEF TypeOK

LEMMA BuildKeeps ==
    ASSUME SwapInv, NEW p \in Procs, BuildFlavor(p)
    PROVE  SwapInv'
<1> DEFINE seen == IF cmd[p].kind = "native" THEN cmd[p].channel ELSE file.yaml.channel
           q == [cmd[p] EXCEPT !.at = "end", !.seen = seen]
<1>1. /\ cmd[p].at = "build" /\ UNCHANGED <<swap, text, overtaken, runs, kills>> /\ Reads(p)
      /\ cmd[p] \in Command /\ Shaped(cmd[p]) /\ TypeOK /\ Sound(swap)
      /\ cmd' = [cmd EXCEPT ![p] = q]
      /\ file' = [file EXCEPT !.asset = file.yaml.channel]
  BY Typed DEF BuildFlavor, SwapInv
<1>2. seen \in Channels /\ file.yaml.channel \in Channels
  BY <1>1, Typed, Constants DEF Command
<1>3. /\ q \in Command /\ q.at = "end" /\ q.swapped = cmd[p].swapped /\ q.st = cmd[p].st /\ q.channel = cmd[p].channel
      /\ q.pid = cmd[p].pid /\ q.seen = seen
  <2> HIDE DEF seen
  <2> QED
    BY <1>1, <1>2 DEF Command, Steps
<1> HIDE DEF q
<1>4. Shaped(q) /\ (Own(q) <=> Own(cmd[p])) /\ ~Mends(q)
  BY <1>1, <1>3 DEF Shaped, Own, Mends
<1>5. /\ file'.yaml = file.yaml /\ file'.asset = file.yaml.channel
      /\ file' \in [yaml : Yaml, asset : Channels \cup {NoFile}]
  BY <1>1, <1>2, Typed DEF TypeOK
<1>6. /\ leaked \in BOOLEAN /\ leaked' \in BOOLEAN /\ (leaked => leaked')
      /\ (leaked' \/ file.yaml.channel = Top \/ cmd[p].swapped)
  BY <1>1, ReadsIs, Typed
<1>7. CASE Own(cmd[p])
  <2>1. ASSUME ~overtaken
        PROVE  Backups(swap, text, leaked') /\ Kept(q, file', swap, text, leaked')
    <3>1. Backups(swap, text, leaked) /\ Kept(cmd[p], file, swap, text, leaked)
      BY <2>1, Alone
    <3>2. Backups(swap, text, leaked') /\ Kept(cmd[p], file, swap, text, leaked') /\ cmd[p].swapped
      BY <1>1, <1>6, <1>7, <3>1, KnownStaysKnown DEF Own
    <3>3. seen = cmd[p].channel
      BY <1>1, <3>2 DEF Kept
    <3> QED
      BY <1>1, <1>3, <1>4, <3>2, <3>3 DEF Kept, Guarded, RecordTells, Mending
  <2> QED
    BY <1>1, <1>3, <1>4, <1>5, <1>6, <1>7, <2>1, Typed, OwnerKeeps DEF TypeOK
<1>8. CASE ~Own(cmd[p])
  <2>1. ~cmd[p].swapped /\ (leaked' \/ file'.asset = Top)
    BY <1>5, <1>6, <1>8 DEF Own
  <2>2. AssetOk(file', leaked')
    BY <2>1 DEF AssetOk
  <2>3. Kept(q, file', swap, text, leaked')
    BY <1>4, <1>8, BystanderKnowsNothing
  <2>4. ASSUME ~overtaken
        PROVE  /\ Backups(swap, text, leaked') /\ Unowned(file', swap, text, leaked')
               /\ \A c \in Procs : Kept(cmd[c], file', swap, text, leaked')
    <3>1. /\ Backups(swap, text, leaked) /\ Unowned(file, swap, text, leaked)
          /\ \A c \in Procs : Kept(cmd[c], file, swap, text, leaked)
      BY <2>4, Alone
    <3>2. /\ Backups(swap, text, leaked') /\ Unowned(file, swap, text, leaked')
          /\ \A c \in Procs : Kept(cmd[c], file, swap, text, leaked')
      BY <1>6, <3>1, KnownStaysKnown
    <3>3. Unowned(file', swap, text, leaked')
      BY <1>5, <2>2, <3>2 DEF Unowned
    <3>4. ASSUME NEW c \in Procs PROVE Kept(cmd[c], file', swap, text, leaked')
      BY <1>5, <2>2, <3>2 DEF Kept, Guarded, RecordTells, Mending
    <3> QED
      BY <3>2, <3>3, <3>4
  <2> QED
    BY <1>1, <1>3, <1>4, <1>5, <1>6, <1>8, <2>3, <2>4, Typed, StepKeeps DEF TypeOK
<1> QED
  BY <1>7, <1>8

LEMMA EndBuildKeeps ==
    ASSUME SwapInv, NEW p \in Procs, EndBuild(p)
    PROVE  SwapInv'
<1>1. /\ cmd[p].at = "end" /\ UNCHANGED <<file, swap, text, overtaken, leaked, runs, kills>>
      /\ cmd[p] \in Command /\ Shaped(cmd[p]) /\ TypeOK
  BY Typed DEF EndBuild, SwapInv
<1>2. CASE cmd' = [cmd EXCEPT ![p] = Idle]
  BY <1>1, <1>2, IdleIs, Typed, QuietKeeps
<1>3. CASE cmd[p].swapped /\ cmd' = [cmd EXCEPT ![p].at = "restore", ![p].todo = Files, ![p].then = "idle"]
  <2> DEFINE q == [cmd[p] EXCEPT !.at = "restore", !.todo = Files, !.then = "idle"]
  <2>1. /\ q \in Command /\ q.at = "restore" /\ q.swapped /\ q.todo = Files /\ q.then = "idle" /\ q.st = cmd[p].st
        /\ q.pid = cmd[p].pid
    BY <1>1, <1>3 DEF Command, Steps
  <2>2. cmd' = [cmd EXCEPT ![p] = q]
    BY <1>3
  <2> HIDE DEF q
  <2>3. Shaped(q) /\ Own(q) /\ Own(cmd[p]) /\ ~Mends(q)
    BY <1>1, <1>3, <2>1 DEF Shaped, Own, Mends
  <2>4. ASSUME ~overtaken
        PROVE  Kept(q, file, swap, text, leaked)
    <3>1. Kept(cmd[p], file, swap, text, leaked)
      BY <2>4, Alone
    <3> QED
      BY <1>1, <1>3, <2>1, <2>3, <3>1 DEF Kept, Guarded, RecordTells, Mending, Files
  <2> QED
    BY <1>1, <2>1, <2>2, <2>3, <2>4, Typed, QuietKeeps
<1> QED
  BY <1>2, <1>3 DEF EndBuild, Return

LEMMA KillKeeps ==
    ASSUME SwapInv, NEW p \in Procs, Kill(p)
    PROVE  SwapInv'
<1>1. /\ cmd' = [cmd EXCEPT ![p] = Idle] /\ UNCHANGED <<file, swap, text, overtaken, leaked, runs>>
      /\ TypeOK /\ kills' \in 0 .. MaxKills
  BY Typed, FlavorAssumption DEF Kill, Return, SwapInv
<1> QED
  BY <1>1, IdleIs, Typed, QuietKeeps

(* The developer edits where there is no swap, and so no owner.            *)
LEMMA EditKeeps ==
    ASSUME SwapInv, Edit
    PROVE  SwapInv'
<1>1. /\ text' = text + 1 /\ ~swap.exists /\ UNCHANGED <<swap, cmd, overtaken, leaked, runs, kills>>
      /\ file.yaml.channel = Top /\ file' = [file EXCEPT !.yaml.text = text + 1]
      /\ TypeOK /\ Sound(swap) /\ swap = NoSwap
  BY DEF Edit, SwapInv, Sound
<1>2. text' \in 0 .. MaxEdits
  BY <1>1, Typed, FlavorAssumption DEF Edit
<1>3. /\ file'.yaml = OnTop(text') /\ file'.asset = file.asset /\ OnTop(text') \in Yaml
  <2>1. OnTop(text') \in Yaml
    BY <1>2, Constants DEF Yaml, OnTop
  <2>2. file.yaml = [text |-> file.yaml.text, channel |-> Top]
    BY <1>1, Typed, Constants
  <2>3. [file.yaml EXCEPT !.text = text + 1] = OnTop(text')
    BY <1>1, <2>2 DEF OnTop
  <2> QED
    BY <1>1, <2>1, <2>3, Typed
<1>4. file' \in [yaml : Yaml, asset : Channels \cup {NoFile}]
  BY <1>1, <1>3 DEF TypeOK
<1>5. TypeOK'
  BY <1>1, <1>2, <1>4 DEF TypeOK
<1>6. ASSUME ~overtaken
      PROVE  /\ Backups(swap, text', leaked) /\ Unowned(file', swap, text', leaked)
             /\ \A c \in Procs : Kept(cmd[c], file', swap, text', leaked)
  <2>1. ASSUME NEW c \in Procs
        PROVE  ~Own(cmd[c]) /\ Kept(cmd[c], file, swap, text, leaked) /\ Unowned(file, swap, text, leaked)
               /\ Backups(swap, text, leaked)
    BY <1>1, <1>6, Alone
  <2>2. (\A c \in Procs : ~Own(cmd[c])) => Unowned(file, swap, text, leaked)
    BY <1>6 DEF SwapInv
  <2>3. Backups(swap, text', leaked) /\ Unowned(file', swap, text', leaked)
    BY <1>1, <1>3, <1>6, <2>1, <2>2, Constants DEF Backups, Unowned, AssetOk
  <2>4. ASSUME NEW c \in Procs PROVE Kept(cmd[c], file', swap, text', leaked)
    BY <1>3, <2>1 DEF Kept, Guarded, RecordTells, Mending, Own, AssetOk
  <2> QED
    BY <2>3, <2>4
<1>7. SwapInv' = (/\ TypeOK' /\ Sound(swap)
                  /\ \A c \in Procs : Shaped(cmd[c])
                  /\ ~overtaken =>
                        /\ \A c, d \in Procs : Own(cmd[c]) /\ (Own(cmd[d]) \/ Mends(cmd[d])) => c = d
                        /\ Backups(swap, text', leaked)
                        /\ \A c \in Procs : Kept(cmd[c], file', swap, text', leaked)
                        /\ (\A c \in Procs : ~Own(cmd[c])) => Unowned(file', swap, text', leaked))
  BY <1>1 DEF SwapInv
<1> QED
  BY <1>5, <1>6, <1>7 DEF SwapInv
-----------------------------------------------------------------------------
LEMMA SwapInvInductive ==
    ASSUME SwapInv, [Next]_vars
    PROVE  SwapInv'
<1>1. ASSUME NEW p \in Procs, Step(p)
      PROVE  SwapInv'
  BY <1>1, StartKeeps, RecoverKeeps, RestoreFileKeeps, RestoreDoneKeeps, RemoveEntryKeeps,
     RemoveDirectoryKeeps, ReadKeeps, MkdirKeeps, BackupYamlKeeps, BackupAssetKeeps, WriteRecordKeeps,
     SwapYamlKeeps, BuildKeeps, EndBuildKeeps, KillKeeps DEF Step
<1>2. CASE UNCHANGED vars
  BY <1>2 DEF vars, SwapInv, TypeOK
<1> QED
  BY <1>1, <1>2, EditKeeps DEF Next

LEMMA SwapInvInitially ==
    ASSUME Init
    PROVE  SwapInv
<1>1. PICK asset \in {NoFile, Top} : file = [yaml |-> [text |-> 0, channel |-> Top], asset |-> asset]
  BY DEF Init
<1>2. /\ swap = NoSwap /\ cmd = [p \in Procs |-> Idle]
      /\ text = 0 /\ overtaken = FALSE /\ leaked = FALSE /\ runs = 0 /\ kills = 0
  BY DEF Init
<1>3. file.yaml = OnTop(0) /\ file.asset \in {NoFile, Top} /\ file.yaml \in Yaml
  BY <1>1, FlavorAssumption DEF OnTop, Yaml, Channels
<1>4. TypeOK
  <2>1. file \in [yaml : Yaml, asset : Channels \cup {NoFile}]
    BY <1>1, <1>3, Constants
  <2>2. swap \in [exists : BOOLEAN, yaml : Yaml \cup {NoFile}, asset : Channels \cup {NoFile},
                  record : SwapRecord \cup {NoFile}]
    BY <1>2 DEF NoSwap
  <2>3. cmd \in [Procs -> Command]
    BY <1>2, IdleIs
  <2>4. text \in 0 .. MaxEdits /\ runs \in 0 .. MaxRuns /\ kills \in 0 .. MaxKills
    BY <1>2, FlavorAssumption
  <2>5. overtaken \in BOOLEAN /\ leaked \in BOOLEAN
    BY <1>2
  <2> QED
    BY <2>1, <2>2, <2>3, <2>4, <2>5 DEF TypeOK
<1>5. Sound(swap) /\ Backups(swap, text, leaked) /\ Unowned(file, swap, text, leaked)
  BY <1>2, <1>3, Constants DEF Sound, Backups, Unowned, AssetOk
<1>6. \A p \in Procs : Shaped(cmd[p]) /\ ~Own(cmd[p]) /\ Kept(cmd[p], file, swap, text, leaked)
  BY <1>2, IdleIs
<1> QED
  BY <1>4, <1>5, <1>6 DEF SwapInv

THEOREM SwapInvHolds == Spec => []SwapInv
<1>1. Init => SwapInv
  BY SwapInvInitially
<1>2. SwapInv /\ [Next]_vars => SwapInv'
  BY SwapInvInductive
<1> QED
  BY <1>1, <1>2, PTL DEF Spec

(***************************************************************************)
(* The developer's soroq.yaml is never lost and one swap is under way at a *)
(* time (withFlavorChannel, recoverInterruptedFlavorChannelSwap), whatever *)
(* number of commands interleave and wherever they are killed, until a     *)
(* repair runs into the swap of a live build.                              *)
(***************************************************************************)
THEOREM OriginalIsSafe == Spec => []OriginalSafe
<1>1. SwapInv => OriginalSafe
  <2> SUFFICES ASSUME SwapInv PROVE OriginalSafe
    OBVIOUS
  <2>1. TypeOK
    BY DEF SwapInv
  <2>2. ASSUME ~overtaken PROVE OriginalKept
    BY <2>2, Recoverable DEF OriginalKept, Developers, Unowned, OnTop
  <2>3. SwapExclusive
    BY DEF SwapExclusive, SwapInv, Owning, Own
  <2> QED
    BY <2>1, <2>2, <2>3 DEF OriginalSafe, OriginalRecoverable
<1> QED
  BY <1>1, SwapInvHolds, PTL

(***************************************************************************)
(* A build that swapped is bundled with the channel of its flavor, and     *)
(* when the last command is gone neither the file nor the preview asset is *)
(* a flavor's (the restore at the end of withFlavorChannel, or the repair).*)
(***************************************************************************)
THEOREM BuildsAreAsFlavored == Spec => []BuildsAsFlavored
<1>1. SwapInv => BuildsAsFlavored
  <2> SUFFICES ASSUME SwapInv PROVE BuildsAsFlavored
    OBVIOUS
  <2>1. BundledWithItsChannel
    BY Alone DEF BundledWithItsChannel, Kept
  <2>2. ASSUME ~overtaken, ~leaked, ~swap.exists
        PROVE  file.yaml = Developers /\ file.asset \in {NoFile, Top}
    <3>1. swap.record = NoFile
      BY <2>2, Constants DEF SwapInv, Sound
    <3> QED
      BY <2>2, <3>1, Recoverable DEF Unowned, AssetOk, OnTop, Developers
  <2> QED
    BY <2>1, <2>2 DEF BuildsAsFlavored, NothingLeftBehind
<1> QED
  BY <1>1, SwapInvHolds, PTL

(***************************************************************************)
(* A command gets past its repair only with the developer's soroq.yaml in  *)
(* place, or next to a live build that has swapped it                      *)
(* (recoverInterruptedFlavorChannelSwap).                                  *)
(***************************************************************************)
THEOREM RepairComesFirst == Spec => RepairedBeforeUse
<1>1. SwapInv /\ [Next]_vars =>
        [\A p \in Procs :
          cmd[p].at \in {"recover", "remove"} /\ cmd'[p].at = "read" /\ ~overtaken'
              => \/ file'.yaml = Developers'
                 \/ \E q \in Procs : Owning(q)']_vars
  <2> SUFFICES ASSUME SwapInv, [Next]_vars, NEW p \in Procs, cmd[p].at \in {"recover", "remove"},
                      cmd'[p].at = "read", ~overtaken', \A q \in Procs : ~Owning(q)'
               PROVE  file'.yaml = Developers'
    OBVIOUS
  <2>1. SwapInv'
    BY SwapInvInductive
  <2>2. cmd \in [Procs -> Command]
    BY Typed DEF SwapInv
  <2>3. Recover(p) \/ RemoveDirectory(p)
    <3>1. ASSUME NEW q \in Procs, Step(q), q # p
          PROVE  cmd'[p] = cmd[p]
      <4>1. CASE Start(q) \/ RestoreDone(q) \/ RemoveEntry(q) \/ RemoveDirectory(q) \/ Read(q) \/ Mkdir(q)
        BY <2>2, <3>1, <4>1 DEF Start, RestoreDone, RemoveEntry, RemoveDirectory, Read, Mkdir, Return, Goto
      <4>2. CASE Recover(q) \/ RestoreFile(q)
        BY <2>2, <3>1, <4>2 DEF Recover, Recovered, RestoreFile, Return, Goto
      <4>3. CASE BackupYaml(q) \/ BackupAsset(q)
        BY <2>2, <3>1, <4>3 DEF BackupYaml, BackupAsset, Backup, GiveUp, Goto
      <4>4. CASE WriteRecord(q) \/ SwapYaml(q) \/ BuildFlavor(q) \/ EndBuild(q) \/ Kill(q)
        BY <2>2, <3>1, <4>4 DEF WriteRecord, GiveUp, SwapYaml, BuildFlavor, EndBuild, Kill, Return
      <4> QED
        BY <3>1, <4>1, <4>2, <4>3, <4>4 DEF Step
    <3>2. Step(p)
      BY <3>1 DEF Next, Edit, vars
    <3> QED
      BY <2>2, <3>2, IdleIs DEF Step, Start, Recover, RestoreFile, RestoreDone, RemoveEntry, RemoveDirectory, Read,
         Mkdir, BackupYaml, BackupAsset, Backup, WriteRecord, SwapYaml, BuildFlavor, EndBuild, Kill, Return, Goto, GiveUp
  <2>4. ~swap'.exists
    <3>1. CASE RemoveDirectory(p)
      BY <3>1, Constants DEF RemoveDirectory
    <3>2. CASE Recover(p) /\ swap.exists
      <4>1. cmd'[p] = Idle \/ cmd'[p].at = "remove" \/ cmd'[p].at = "restore"
        <5>1. CASE swap.record = NoFile
          BY <2>2, <3>2, <5>1 DEF Recover, Command
        <5>2. CASE swap.record # NoFile /\ Alive(swap.record.pid)
          BY <2>2, <3>2, <5>2 DEF Recover, Return
        <5>3. CASE swap.record # NoFile /\ ~Alive(swap.record.pid)
          BY <2>2, <3>2, <5>3 DEF Recover, Command
        <5> QED
          BY <5>1, <5>2, <5>3
      <4> QED
        BY <4>1, IdleIs
    <3>3. CASE Recover(p) /\ ~swap.exists
      BY <3>3 DEF Recover
    <3> QED
      BY <2>3, <3>1, <3>2, <3>3
  <2>5. swap'.record = NoFile
    BY <2>1, <2>4, Constants DEF SwapInv, Sound
  <2>6. Unowned(file, swap, text, leaked)'
    BY <2>1 DEF SwapInv, Owning, Own
  <2> QED
    BY <2>5, <2>6 DEF Unowned, Developers, OnTop
<1> QED
  BY <1>1, SwapInvHolds, PTL DEF Spec, RepairedBeforeUse

=============================================================================
