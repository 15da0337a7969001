---------------------------- MODULE AndroidPatch ----------------------------
(***************************************************************************)
(* `soroq patch android' (patch_cmd.go), on the state that                 *)
(* AndroidRelease leaves: the choice of the base, the base's artifact, the *)
(* candidate built with the base's toolchain and names, and the            *)
(* publication.  Left out: the numbering and serving of patches (see       *)
(* Publication), the asset and code lanes (see DeliveryGates), a candidate *)
(* or a base named by its path.                                            *)
(***************************************************************************)
EXTENDS AndroidRelease

(* A patch aims at the last release, at a release id, or at the newest     *)
(* release of a version.                                                   *)
Aims == {"last", "id", "version"}

Newest(v) ==
    LET of == {n \in DOMAIN registered : registered[n].version = v}
    IN  IF of = {} THEN Nil ELSE registered[CHOOSE n \in of : \A m \in of : m <= n]

Target(aim, wanted) ==
    CASE aim = "last"    -> IF last = Nil THEN Nil ELSE last.id
      [] aim = "id"      -> wanted
      [] aim = "version" -> Newest(wanted.version)

(* A patch with no known base first builds, to learn the version from the  *)
(* candidate; an obfuscated one cannot be built before its base is known.  *)
StartPatch ==
    /\ cmd.at = "idle" /\ used.commands < MaxCommands /\ registered # <<>>
    /\ used' = [used EXCEPT !.commands = @ + 1]
    /\ \E f \in Flavors, o \in BOOLEAN, aim \in Aims, r \in Range(registered), t \in Toolchains \cup {Nil} :
          LET early == aim = "last" /\ last = Nil
              id == Target(aim, r)
          IN  cmd' = IF early /\ o THEN Idle
                     ELSE [Idle EXCEPT !.flavor = f, !.obfuscate = o, !.toolchain = t,
                              !.early = early, !.id = id,
                              !.at = IF early THEN "earlyBuild" ELSE "base"]
    /\ UNCHANGED <<project, out, server, local, marks>>

(* loadSoroqLockPin and loadSoroqLockFlavorPin: the pin of this release;   *)
(* with no release known yet, the flavor's own pin or the latest.          *)
PinOf(id) ==
    LET keys == {k \in LockKeys : pin[k] # Nil /\ pin[k].id = id}
    IN  IF keys = {} THEN Nil ELSE pin[IF Latest \in keys THEN Latest ELSE CHOOSE k \in keys : TRUE]
EarlyPin(f) ==
    IF f # None /\ pin[FlavorKey(f)] # Nil THEN PinOf(pin[FlavorKey(f)].id) ELSE pin[Latest]

(* resolveAndroidPatchToolchain: the pin wins, and a different --toolchain *)
(* is refused; with no pin the flag or the frontend's own decides.         *)
Toolchain(p, flag) ==
    IF p # Nil THEN p.toolchain ELSE IF flag # Nil THEN flag ELSE active
Agrees(p, flag) == p # Nil => flag \in {Nil, p.toolchain}

EarlyBuild ==
    /\ cmd.at = "earlyBuild"
    /\ LET f == cmd.flavor
           p == EarlyPin(f)
           t == Toolchain(p, cmd.toolchain)
       IN  \/ /\ ~Agrees(p, cmd.toolchain)
              /\ Fail /\ UNCHANGED <<out, used>>
           \/ /\ Agrees(p, cmd.toolchain)
              /\ out' = [out EXCEPT ![f] = Built(f, t, 0)]
              /\ LET id == Newest(tree.version)
                 IN  cmd' = IF id = Nil THEN Idle
                            ELSE [cmd EXCEPT !.at = "base", !.id = id,
                                     !.pinned = (p # Nil /\ p.id = id)]
              /\ UNCHANGED used
           \/ f # None /\ CanFault /\ Fault /\ Fail /\ UNCHANGED out  \* refused as stale
    /\ UNCHANGED <<project, server, local, marks>>

(* guardPatchFlavorMatchesBase *)
FlavorGuard(id, f) == KnownFlavor(id) = f \/ (KnownFlavor(id) = Nil /\ f = None)

(* The base's artifact: the one cli-state.json remembers for this release, *)
(* or else the hosted one, downloaded to the release's directory.  The     *)
(* downloaded path then replaces the one in cli-state.json.                *)
RememberedPath(id) ==
    IF last # Nil /\ last.id = id /\ stash[last.path] # Nil THEN last.path ELSE Nil

Base ==
    /\ cmd.at = "base"
    /\ LET id == cmd.id
           path == RememberedPath(id)
           go(p) == cmd' = [cmd EXCEPT !.at = "stashBase", !.path = p, !.known = (KnownFlavor(id) # Nil)]
       IN  \/ /\ FlavorGuard(id, cmd.flavor) /\ path # Nil
              /\ go(path) /\ UNCHANGED <<last, stash, marks>>
           \/ /\ FlavorGuard(id, cmd.flavor) /\ path = Nil /\ hosted[id] # Nil
              /\ stash' = [stash EXCEPT ![id] = hosted[id]]
              /\ last' = IF last = Nil THEN Nil ELSE [last EXCEPT !.path = id]
              /\ marks' = IF last # Nil /\ last.id # id THEN marks \cup {"mixed"} ELSE marks
              /\ go(id)
           \/ /\ ~FlavorGuard(id, cmd.flavor) \/ (path = Nil /\ hosted[id] = Nil)
              /\ Fail /\ UNCHANGED <<last, stash, marks>>
    /\ UNCHANGED <<project, out, server, frec, obf, pin, used>>

(* A build to come could overwrite the base: it is kept in the release's   *)
(* own directory first.                                                    *)
StashBase ==
    /\ cmd.at = "stashBase"
    /\ IF cmd.early THEN UNCHANGED <<last, stash>> /\ Goto("plan")
       ELSE /\ stash' = [stash EXCEPT ![cmd.id] = stash[cmd.path]]
            /\ last' = IF last # Nil /\ last.id = cmd.id THEN [last EXCEPT !.path = cmd.id] ELSE last
            /\ cmd' = [cmd EXCEPT !.at = "plan", !.path = cmd.id]
    /\ UNCHANGED <<project, out, server, frec, obf, pin, marks, used>>

(* loadAndroidReleaseObfuscation: the record vouches for the map; a map    *)
(* with no record, or another map than the recorded one, is an error.      *)
ObfuscationReadable(id) == obf[id].map = obf[id].record

(* planAndroidPatchObfuscation, or its check when a candidate is already   *)
(* there: the patch is obfuscated exactly if the base is recorded as such. *)
ObfuscationPlan(id) ==
    /\ ObfuscationReadable(id)
    /\ cmd.obfuscate = (obf[id].record # 0)

Plan ==
    /\ cmd.at = "plan"
    /\ LET id == cmd.id
           p == IF cmd.early THEN Nil ELSE PinOf(id)
           passes == /\ CollisionGuard(id, stash[cmd.path].version, cmd.flavor)
                     /\ Agrees(p, cmd.toolchain) /\ ObfuscationPlan(id)
       IN  \/ /\ passes
              /\ cmd' = IF cmd.early THEN [cmd EXCEPT !.at = "publish", !.fresh = TRUE]
                        ELSE [cmd EXCEPT !.at = "patchBuild", !.pinned = (p # Nil),
                                 !.toolchain = Toolchain(p, cmd.toolchain)]
              /\ UNCHANGED used
           \/ ~passes /\ Fail /\ UNCHANGED used
           \/ NeedsListing(cmd.flavor) /\ CanFault /\ Fault /\ Fail
    /\ UNCHANGED <<project, out, server, local, marks>>

(* An obfuscated candidate is seeded from the base's map; the compiler     *)
(* that does not keep a name is caught by the verification that follows.   *)
PatchBuild ==
    /\ cmd.at = "patchBuild"
    /\ \E names \in IF cmd.obfuscate THEN {obf[cmd.id].map, tree.source} ELSE {0} :
          \/ /\ out' = [out EXCEPT ![cmd.flavor] = Built(cmd.flavor, cmd.toolchain, names)]
             /\ cmd' = [cmd EXCEPT !.at = "verify", !.map = names, !.fresh = TRUE]
             /\ UNCHANGED used
          \/ /\ cmd.flavor # None /\ CanFault /\ Fault
             /\ cmd' = [cmd EXCEPT !.at = "verify", !.map = names]
             /\ UNCHANGED out
    /\ UNCHANGED <<project, server, local, marks>>

(* Mutant: the seeded candidate is not verified.                           *)
VerifyNothing ==
    /\ cmd.at = "verify" /\ Goto("publish")
    /\ UNCHANGED <<project, out, server, local, marks, used>>

(* verifyAndroidSeededCandidate *)
Verify ==
    /\ cmd.at = "verify"
    /\ IF cmd.obfuscate => cmd.map = obf[cmd.id].map THEN Goto("publish") ELSE Fail
    /\ UNCHANGED <<project, out, server, local, marks, used>>

(* The candidate is the flavor's output, of the base's version (its        *)
(* runtime id) and, for a flavor, from this build; something changed; and  *)
(* the control plane requires the runtime id to be the release's.          *)
Publishable(id, base, candidate) ==
    /\ candidate # Nil /\ candidate.version = base.version
    /\ cmd.flavor # None => cmd.fresh
    /\ candidate.source # base.source
    /\ base.version = id.version

Publish ==
    /\ cmd.at = "publish"
    /\ LET base == stash[cmd.path]
           candidate == out[cmd.flavor]
       IN  patches' = IF ~Publishable(cmd.id, base, candidate) THEN patches
                      ELSE patches \cup {[id |-> cmd.id, base |-> base, candidate |-> candidate,
                                          known |-> cmd.known, pinned |-> cmd.pinned,
                                          marks |-> marks]}
    /\ Fail
    /\ UNCHANGED <<project, out, registered, hosted, local, marks, used>>

Next ==
    \/ ReleaseNext
    \/ StartPatch \/ EarlyBuild \/ Base \/ StashBase \/ Plan \/ PatchBuild \/ Verify \/ Publish

Spec == Init /\ [][Next]_vars

-----------------------------------------------------------------------------
(* Properties.                                                             *)

(* Every variable has its type (the records this lane reads and writes).   *)
TypeOK ==
    /\ tree \in [version : Versions, source : Sources]
    /\ active \in Toolchains
    /\ \A f \in Flavors : out[f] # Nil => out[f] \in Artifact /\ out[f].flavor = f
    /\ \A i \in Ids : /\ hosted[i] # Nil => hosted[i] \in Artifact /\ Known(i)
                      /\ stash[i] # Nil => stash[i] \in Artifact
                      /\ frec[i] \in Flavors \cup {Nil}
    /\ last # Nil => last \in [id : Ids, path : Ids, flavor : Flavors] /\ Known(last.id)
    /\ \A k \in LockKeys : pin[k] # Nil => pin[k].id \in Ids /\ pin[k].toolchain \in Toolchains
    /\ used \in [commands : 0..MaxCommands, setups : 0..MaxSetups,
                 clones : 0..MaxClones, faults : 0..MaxFaults]

(* The local snapshot of a release is the artifact its users run: patches  *)
(* are diffed against it, and the preflight compares it with the hosted    *)
(* digest.  (stashAndroidReleaseArtifact, localReleaseSnapshotDigest)      *)
StashIsHosted == \A i \in Ids : stash[i] # Nil => stash[i] = hosted[i]

(* The same, as long as no patch of another release than the last one has  *)
(* redirected cli-state.json to that release's artifact.                   *)
StashIsHostedUnlessMixed == "mixed" \notin marks => StashIsHosted

(* A patch is built against the bytes its release's users have, by the     *)
(* toolchain that built them whenever soroq.lock pinned it.                *)
BaseIsTheReleases ==
    \A p \in patches :
        "mixed" \notin p.marks =>
            /\ p.base = hosted[p.id]
            /\ p.pinned => p.candidate.toolchain = hosted[p.id].toolchain

(* Published code keeps every name the base's users have persisted, unless *)
(* the record of the names was lost with a clone, overwritten by a second  *)
(* release command for the same release, or was not the release's own.     *)
(* (verifyAndroidSeededCandidate)                                          *)
NamesKept ==
    \A p \in patches :
        p.marks = {} => p.candidate.names = hosted[p.id].names

(* An obfuscated release is never registered before its map and its record *)
(* are on disk, so that every one of them can be patched.                  *)
(* (commitAndroidReleaseObfuscation)                                       *)
MapBeforeRegistration ==
    marks \cap {"cloned", "overwritten", "unrecorded"} = {} =>
        \A r \in Range(registered) :
            hosted[r] # Nil /\ hosted[r].names # 0 =>
                obf[r] = [map |-> hosted[r].names, record |-> hosted[r].names]

(* A pin of soroq.lock names a release that exists and the toolchain that  *)
(* built it, however runs were repeated or cut short.  (recordSoroqLockPin) *)
PinIsTrue ==
    \A k \in LockKeys :
        pin[k] # Nil => /\ Known(pin[k].id) /\ hosted[pin[k].id] # Nil
                        /\ hosted[pin[k].id].toolchain = pin[k].toolchain
                        /\ hosted[pin[k].id].flavor = pin[k].flavor

(* A patch never crosses flavors: only an unflavored patch of a release    *)
(* whose flavor nobody recorded may be offered to a flavored app.          *)
(* (guardPatchFlavorMatchesBase)                                           *)
FlavorKept ==
    \A p \in patches :
        p.candidate.flavor # p.id.flavor => p.candidate.flavor = None /\ ~p.known

(* Two flavors of one version share a runtime id, by which the control     *)
(* plane selects patches: both are registered only if nobody recorded the  *)
(* flavor of one, as when its release was killed.                          *)
(* (guardAndroidReleaseFlavorCollision)                                    *)
OneFlavorPerRuntime ==
    \A r, q \in Range(registered) :
        r # q /\ r.version = q.version => KnownFlavor(r) = Nil \/ KnownFlavor(q) = Nil

(* What is kept of a release (its snapshot, its record and its pin) is the *)
(* release's own, and so is the base and the toolchain of its patches.     *)
BaseIsTrue == TypeOK /\ StashIsHostedUnlessMixed /\ BaseIsTheReleases /\ PinIsTrue

(* The names that an obfuscated release gave are on disk before it is      *)
(* registered and kept by its patches.                                     *)
NamesSurvive == NamesKept /\ MapBeforeRegistration

(* Neither a patch nor a registration mixes flavors.                       *)
FlavorsApart == FlavorKept /\ OneFlavorPerRuntime
=============================================================================
