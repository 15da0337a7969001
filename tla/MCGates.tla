------------------------------ MODULE MCGates ------------------------------
(***************************************************************************)
(* The instances of the gates that TLC checks together: each behaviour is  *)
(* of one subject, and the state of the others rests.                      *)
(***************************************************************************)
EXTENDS TLC, DependencyGate, DeliveryGates, FreehandPlan, Catalog, ProjectKeys

CONSTANTS pa, pb, ps, f, g, h, ios, android, r2, r9, f2, f9, i2, a2, i9, a9, d2, d9, k1, k2

VARIABLE subject

(***************************************************************************)
(* DependencyGate: two packages that depend on each other and on one of    *)
(* the SDK, with releases and directories of every kind.                   *)
(***************************************************************************)
Plain(deps) == [deps |-> deps, plugin |-> "none", assets |-> FALSE, hook |-> FALSE, native |-> FALSE, code |-> 1]
Dart(deps) == [Plain(deps) EXCEPT !.code = 2]
Native(deps) == [Plain(deps) EXCEPT !.plugin = "native", !.native = TRUE]
Hidden(deps) == [Plain(deps) EXCEPT !.native = TRUE]
Rel(src, ver, body) == [src |-> src, ver |-> ver, pinned |-> TRUE, body |-> body]

MCReleases ==
    pa :> {Rel("hosted", 1, Plain({pb})), Rel("hosted", 2, Native({pb})), Rel("path", 1, Plain({}))} @@
    pb :> {Rel("git", 1, Plain({pa, ps})), Rel("git", 1, [Plain({}) EXCEPT !.hook = TRUE])} @@
    ps :> {Rel("sdk", 1, Hidden({}))}
MCBodies == pa :> {Plain({pb}), Dart({}), Hidden({pb})} @@ pb :> {Plain({})} @@ ps :> {Plain({})}

DepIdle ==
    /\ wants = {} /\ pick = [p \in Pkgs |-> CHOOSE r \in Releases[p] : TRUE]
    /\ local = [p \in Pkgs |-> CHOOSE x \in Bodies[p] : TRUE]
    /\ lock = [p \in Pkgs |-> Nil] /\ config = [p \in Pkgs |-> Nil]
    /\ base = Nil /\ shipped = Nil /\ plan = Nil /\ stage = "idle" /\ depEdits = 0

LaneIdle ==
    /\ stack = [cached |-> FALSE, abis |-> {Primary}, multi |-> FALSE] /\ source = FirstSource
    /\ apk = NoApk /\ candidate = NoApk /\ patch = NoApk /\ request = DefaultRequest /\ at = "start"

(***************************************************************************)
(* FreehandPlan: a public function, a method of a private class and a third*)
(* declaration, in bases of six engines.                                   *)
(***************************************************************************)
PublicFunction == [kind |-> "function", class |-> "none", private |-> FALSE, whole |-> TRUE, selector |-> FALSE]
BuildMethod == [kind |-> "method", class |-> "private", private |-> FALSE, whole |-> FALSE, selector |-> TRUE]
Constructor == [kind |-> "constructor", class |-> "public", private |-> FALSE, whole |-> TRUE, selector |-> FALSE]
ScopedGetter == [PublicFunction EXCEPT !.kind = "getter", !.whole = FALSE]
PrivateMember == [BuildMethod EXCEPT !.private = TRUE]
Shaped(third) == f :> PublicFunction @@ g :> BuildMethod @@ h :> third

PathA == {"pathA", "private"}
WithMap == PathA \cup {"map"}
WithPrints == WithMap \cup {"tagged", "prints", "kinds"}
WithCalls == WithPrints \cup {"calls"}

Edges == {e \in (Decls \cup {Frozen}) \X Decls : e[1] # e[2]}
Compiled3(engines, thirds, renamed, copies, folds, literals) ==
    {[engine |-> e, shape |-> Shaped(t), renamed |-> r, copies |-> c, folds |-> x, literals |-> l, quiet |-> {}] :
        e \in engines, t \in thirds, r \in renamed, c \in copies, x \in folds, l \in literals}

\* A reader that a value was folded into and that writes the same literal itself, or has a part that
\* does; and one that got a value by a route which its owner does not name.
Unnamed(bases, S) == {[b EXCEPT !.quiet = S] : b \in bases}
Residuals ==
    Compiled3({{}, PathA}, {ScopedGetter}, {FALSE}, {{}}, {{<<g, f>>}}, {{<<g, f>>}})
    \cup Compiled3({WithMap}, {PublicFunction}, {FALSE}, {{<<g, h>>}}, {{<<g, f>>}}, {{<<h, f>>}})
    \cup Unnamed(Compiled3({{}, PathA}, {ScopedGetter}, {FALSE}, {{}}, {{<<g, f>>}}, {{}}), {f})

MCBases ==
    Residuals \cup
    Compiled3({{}, PathA}, {ScopedGetter}, {FALSE}, {{}}, {{<<g, f>>}}, {{}})
    \cup Compiled3({{}, PathA}, {Constructor}, {FALSE}, {{}}, {{}}, {{<<g, h>>}})
    \cup Compiled3({WithMap}, {PublicFunction}, {FALSE}, {{<<g, f>>}, {<<Frozen, h>>}}, {{<<h, g>>}}, {{}})
    \cup Compiled3({WithPrints}, {Constructor}, {FALSE}, {{<<g, f>>, <<h, g>>}}, {{}}, {{}})
    \cup Compiled3({WithCalls}, {PrivateMember}, {TRUE}, {{<<g, f>>}}, {{<<f, g>>}}, {{}})
    \cup Compiled3({WithCalls \cup {"swap"}}, {Constructor}, {TRUE}, {{<<g, f>>}}, {{}}, {{}})

PlanIdle == image = (CHOOSE x \in Bases : TRUE) /\ PlanReset

(***************************************************************************)
(* Catalog: the frontend f2 with the toolchains of its revision, one of    *)
(* which names its Dart in another form; f9 and i9 of a newer revision; and*)
(* documents that pair what does not fit, or that are ambiguous.           *)
(***************************************************************************)
Fe(rev, dart, tcs) == [rev |-> rev, dart |-> dart, compatible |-> tcs]
Tc(p, rev, dart) == [platform |-> p, rev |-> rev, dart |-> dart]
MCManifests ==
    f2 :> {Fe(r2, Version, {i2, a2}), Fe(r9, d9, {i2})} @@
    f9 :> {Fe(r9, d9, {i9, i2, a9}), Missing} @@
    i2 :> {Tc(ios, r2, d2)} @@ a2 :> {Tc(android, r2, Version), Tc(android, r2, d9)} @@
    i9 :> {Tc(ios, r9, d9), Tc(ios, r9, d2)} @@ a9 :> {Tc(android, r9, d2)}
OfPlatforms(i, x) == ios :> i @@ android :> x
MCCatalogs1 ==
    {OfPlatforms([fe |-> i[1], tc |-> i[2]], [fe |-> f2, tc |-> a2]) : i \in {<<f2, i2>>, <<f9, i9>>}}
MCEntry(rev, fe, tc) == [rev |-> rev, fe |-> fe, tc |-> tc]
MCCatalogs2 ==
    {OfPlatforms({MCEntry(r2, f2, i2), MCEntry(r9, f9, i9)}, {MCEntry(r2, f2, a2), MCEntry(r9, f9, a9)}),
     OfPlatforms({MCEntry(r9, f9, i2)}, {MCEntry(r9, f2, a2)}),
     OfPlatforms({MCEntry(r9, f9, i9), MCEntry(r9, f9, i2)}, Missing)}
MCLegacyPairs == {<<f2, i2, d2>>}

CatalogIdle ==
    /\ catalog1 = (CHOOSE d \in Catalogs1 : TRUE) /\ catalog2 = (CHOOSE d \in Catalogs2 : TRUE)
    /\ CatalogReset

(* ProjectKeys: two commands in one checkout; at rest as it begins *)
KeySymmetry == Permutations(KeyCmds)

PlanOnly == subject = "plan" /\ PlanInit /\ DepIdle /\ LaneIdle /\ CatalogIdle /\ KeysInit
CatalogOnly == subject = "catalog" /\ CatalogInit /\ DepIdle /\ LaneIdle /\ PlanIdle /\ KeysInit

GatesInit ==
    \/ subject = "dependencies" /\ DepInit /\ LaneIdle /\ PlanIdle /\ CatalogIdle /\ KeysInit
    \/ subject = "android" /\ LaneInit /\ DepIdle /\ PlanIdle /\ CatalogIdle /\ KeysInit
    \/ subject = "keys" /\ KeysInit /\ DepIdle /\ LaneIdle /\ PlanIdle /\ CatalogIdle
    \/ PlanOnly
    \/ CatalogOnly

GatesNext ==
    \/ subject = "dependencies" /\ DepNext /\ UNCHANGED <<subject, laneVars, planVars, catalogVars, keysVars>>
    \/ subject = "android" /\ LaneNext /\ UNCHANGED <<subject, depVars, planVars, catalogVars, keysVars>>
    \/ subject = "plan" /\ PlanNext /\ UNCHANGED <<subject, depVars, laneVars, catalogVars, keysVars>>
    \/ subject = "catalog" /\ CatalogNext /\ UNCHANGED <<subject, depVars, laneVars, planVars, keysVars>>
    \/ subject = "keys" /\ KeysNext /\ UNCHANGED <<subject, depVars, laneVars, planVars, catalogVars>>
=============================================================================
