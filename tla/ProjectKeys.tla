---------------------------- MODULE ProjectKeys ----------------------------
(***************************************************************************)
(* The project's own signing key (manifest_trust_scaffold.go): a private   *)
(* seed in .soroq/manifest_signing_key.seed, which .gitignore must cover,  *)
(* its public half among the keys that soroq.yaml trusts, and, under       *)
(* another name, pinned in every iOS base.  `soroq init`, `doctor`, a      *)
(* release, a patch and a rollback each make the seed if there is none.    *)
(*                                                                         *)
(* A key is the number it was generated as; 0 is the control plane's, whose*)
(* seed is not here.  The seed file of a command that is creating it, or   *)
(* was killed there, holds no key yet and is 0 as well.  soroq.yaml is     *)
(* written in place but by one step of init: a kill leaves it empty (Cut). *)
(* Outside of the model: editing of .gitignore, keys a developer adds.     *)
(***************************************************************************)
EXTENDS Naturals, FiniteSets

CONSTANTS
    KeyCmds,      \* the commands that may run at a time
    NoKey,        \* no such file, no key
    MaxKeys,      \* bound on the keys generated
    MaxKeyFaults  \* bound on kills and on the developer's deletions

VARIABLES
    seed,    \* .soroq/manifest_signing_key.seed
    ignored, \* .gitignore: "covers" .soroq/, "lacks" it, or was "cut" by who writes it
    yaml,    \* soroq.yaml
    issued,  \* the keys generated so far
    pinned,  \* the key the app of the last release verifies with
    keyCmd,  \* the state of each command
    signed,  \* the signature just published, by the last step (history)
    moved,   \* the seed was deleted since that release (history)
    killed,  \* a command was killed (history)
    keyFaults

keysVars == <<seed, ignored, yaml, issued, pinned, keyCmd, signed, moved, killed, keyFaults>>
records == <<pinned, moved, killed, keyFaults>>

KeyEntry(id, k) == [id |-> id, key |-> k]
TrustKeys == {KeyEntry("hosted", 0)} \cup [id : {"signing", "project"}, key : 1 .. MaxKeys]
Cut == [whole |-> FALSE, keys |-> {}]
Yamls == [whole : BOOLEAN, keys : SUBSET TrustKeys]
Ids(y) == {e.id : e \in y.keys}

ASSUME KeysAssumption ==
    MaxKeys \in Nat /\ MaxKeyFaults \in Nat /\ NoKey \notin 0 .. MaxKeys \cup Yamls

(* For: what the command is; then: where it goes once it has the key; read:*)
(* what it read of soroq.yaml; touched: the seed was deleted meanwhile.    *)
KeySteps == {"idle", "render", "rendering", "provision", "load", "create", "fill", "ignore", "cover",
             "covering", "anchor", "append", "trust", "inject", "injecting", "build", "plan", "sign"}
KeyIdle == [at |-> "idle", for |-> "none", then |-> "idle", online |-> FALSE, override |-> FALSE,
            key |-> 0, read |-> Cut, pin |-> NoKey, touched |-> FALSE]

KeysTypeOK ==
    /\ seed \in 0 .. MaxKeys \cup {NoKey} /\ pinned \in 1 .. MaxKeys \cup {NoKey}
    /\ yaml \in Yamls \cup {NoKey} /\ issued \in 0 .. MaxKeys
    /\ \A c \in KeyCmds :
           /\ keyCmd[c].at \in KeySteps /\ keyCmd[c].key \in 0 .. issued /\ keyCmd[c].read \in Yamls
           /\ keyCmd[c].at \in {"fill", "ignore", "cover", "covering", "anchor", "append", "inject",
                                "injecting", "build", "plan"} => keyCmd[c].key > 0
    /\ ignored \in {"lacks", "cut", "covers"} /\ moved \in BOOLEAN /\ killed \in BOOLEAN /\ keyFaults \in 0 .. MaxKeyFaults

-----------------------------------------------------------------------------
Doing(c, step) == keyCmd[c].at = step
NothingSigned == signed' = NoKey /\ UNCHANGED records
To(c, step) == keyCmd' = [keyCmd EXCEPT ![c].at = step]
ToTrust(c) == keyCmd' = [keyCmd EXCEPT ![c].at = "trust", ![c].then = "idle", ![c].key = 0, ![c].read = Cut]
EndKeys(c) == keyCmd' = [keyCmd EXCEPT ![c] = KeyIdle]
Command(c, for, step) ==
    /\ Doing(c, "idle")
    /\ keyCmd' = [keyCmd EXCEPT ![c] = [KeyIdle EXCEPT !.at = step, !.for = for]]

(* init renders soroq.yaml if there is none or with --force, and refuses   *)
(* one that does not say what it must.                                     *)
Renders(force) == yaml = NoKey \/ force

RunInit(c, force, online) ==
    /\ Doing(c, "idle")
    /\ IF Renders(force) THEN TRUE ELSE yaml.whole
    /\ keyCmd' = [keyCmd EXCEPT ![c] = [KeyIdle EXCEPT
           !.at = IF Renders(force) THEN "render" ELSE "provision", !.for = "init", !.online = online]]
    /\ NothingSigned /\ UNCHANGED <<seed, ignored, yaml, issued>>

(* doctor renders only a soroq.yaml that is missing, without hosted keys *)
ApplyOfflineDoctorFixes(c) ==
    /\ Command(c, "doctor", IF yaml = NoKey THEN "render" ELSE "trust")
    /\ NothingSigned /\ UNCHANGED <<seed, ignored, yaml, issued>>

RunRelease(c) ==
    /\ Command(c, "release", "trust")
    /\ NothingSigned /\ UNCHANGED <<seed, ignored, yaml, issued>>

RunPatch(c, override) ==
    /\ Doing(c, "idle") /\ pinned # NoKey
    /\ keyCmd' = [keyCmd EXCEPT ![c] = [KeyIdle EXCEPT
           !.at = "load", !.then = "plan", !.for = "patch", !.override = override, !.pin = pinned]]
    /\ NothingSigned /\ UNCHANGED <<seed, ignored, yaml, issued>>

RunRollback(c, override) ==
    /\ Doing(c, "idle") /\ pinned # NoKey
    /\ keyCmd' = [keyCmd EXCEPT ![c] = [KeyIdle EXCEPT
           !.at = "sign", !.for = "rollback", !.override = override, !.pin = pinned, !.touched = moved]]
    /\ NothingSigned /\ UNCHANGED <<seed, ignored, yaml, issued>>

RenderSoroqConfig(c) ==
    /\ NothingSigned /\ UNCHANGED <<seed, ignored, issued>>
    /\ \/ Doing(c, "render") /\ yaml' = Cut /\ To(c, "rendering")
       \/ /\ Doing(c, "rendering")
          /\ yaml' = [whole |-> TRUE, keys |-> IF keyCmd[c].online THEN {KeyEntry("hosted", 0)} ELSE {}]
          /\ keyCmd' = [keyCmd EXCEPT ![c].at = IF keyCmd[c].for = "init" THEN "provision" ELSE "trust",
                                          ![c].online = FALSE]

(* init takes a seed that exists, whatever is in it, to be in soroq.yaml   *)
(* and .gitignore already.                                                 *)
SeedToMake == seed = NoKey

EnsureProjectSigningKey(c) ==
    /\ Doing(c, "provision")
    /\ IF SeedToMake THEN keyCmd' = [keyCmd EXCEPT ![c].at = "load", ![c].then = "anchor"]
       ELSE ToTrust(c)
    /\ NothingSigned /\ UNCHANGED <<seed, ignored, yaml, issued>>

(* A seed that cannot be read as one is an error: it is not made anew *)
LoadSeed(c) ==
    /\ Doing(c, "load")
    /\ IF seed = NoKey THEN To(c, "create")
       ELSE IF seed = 0 THEN EndKeys(c)
       ELSE keyCmd' = [keyCmd EXCEPT ![c].at = "ignore", ![c].key = seed]
    /\ NothingSigned /\ UNCHANGED <<seed, ignored, yaml, issued>>

\* Mutant: the second command writes over the seed of the first.
CreateOver == TRUE

(* O_EXCL: the second of two commands that found no seed fails *)
MayCreate == seed = NoKey

CreateSeed(c) ==
    /\ Doing(c, "create") /\ issued < MaxKeys
    /\ IF MayCreate
       THEN /\ seed' = 0 /\ issued' = issued + 1
            /\ keyCmd' = [keyCmd EXCEPT ![c].at = "fill", ![c].key = issued + 1]
       ELSE EndKeys(c) /\ UNCHANGED <<seed, issued>>
    /\ NothingSigned /\ UNCHANGED <<ignored, yaml>>

FillSeed(c) ==
    /\ Doing(c, "fill")
    /\ seed' = keyCmd[c].key /\ To(c, "ignore")
    /\ NothingSigned /\ UNCHANGED <<ignored, yaml, issued>>

(* A .gitignore without the line is written again, in place *)
EnsureGitignoreLine(c) ==
    /\ NothingSigned /\ UNCHANGED <<seed, yaml, issued>>
    /\ \/ /\ Doing(c, "ignore")
          /\ To(c, IF ignored = "covers" THEN keyCmd[c].then ELSE "cover")
          /\ UNCHANGED ignored
       \/ Doing(c, "cover") /\ ignored' = "cut" /\ To(c, "covering")
       \/ Doing(c, "covering") /\ ignored' = "covers" /\ To(c, keyCmd[c].then)

-----------------------------------------------------------------------------
(* init's key goes among the trusted ones, in the place of its id *)
AppendManifestTrustKey(keys, e) == {o \in keys : o.id # e.id} \cup {e}

AnchorProjectKey(c) ==
    /\ NothingSigned /\ UNCHANGED <<seed, ignored, issued>>
    /\ \/ /\ Doing(c, "anchor")
          /\ IF \E e \in yaml.keys : e.key = keyCmd[c].key THEN ToTrust(c)
             ELSE keyCmd' = [keyCmd EXCEPT ![c].at = "append", ![c].read = yaml]
          /\ UNCHANGED yaml
       \/ /\ Doing(c, "append")
          /\ yaml' = [keyCmd[c].read EXCEPT
                         !.keys = AppendManifestTrustKey(@, KeyEntry("project", keyCmd[c].key))]
          /\ ToTrust(c)

Trusted(c) ==
    IF keyCmd[c].for = "release"
    THEN keyCmd' = [keyCmd EXCEPT ![c].at = "load", ![c].then = "build", ![c].key = 0, ![c].read = Cut]
    ELSE EndKeys(c)

(* A block that is there is validated and left alone *)
ValidTrust(y) == \A e, o \in y.keys : e.id = o.id => e = o

EnsureManifestTrust(c) ==
    /\ Doing(c, "trust")
    /\ IF yaml = NoKey THEN EndKeys(c)
       ELSE IF yaml.keys = {}
       THEN keyCmd' = [keyCmd EXCEPT ![c].at = "load", ![c].then = "inject", ![c].read = yaml]
       ELSE IF ValidTrust(yaml) THEN Trusted(c) ELSE EndKeys(c)
    /\ NothingSigned /\ UNCHANGED <<seed, ignored, yaml, issued>>

ScaffoldManifestTrust(c) ==
    /\ NothingSigned /\ UNCHANGED <<seed, ignored, issued>>
    /\ \/ Doing(c, "inject") /\ yaml' = Cut /\ To(c, "injecting")
       \/ /\ Doing(c, "injecting")
          /\ yaml' = [keyCmd[c].read EXCEPT !.keys = {KeyEntry("signing", keyCmd[c].key)}]
          /\ Trusted(c)

-----------------------------------------------------------------------------
(* A release pins the key its command loaded *)
PinKey(c) ==
    /\ Doing(c, "build")
    /\ pinned' = keyCmd[c].key /\ moved' = keyCmd[c].touched /\ EndKeys(c)
    /\ signed' = NoKey /\ UNCHANGED <<seed, ignored, yaml, issued, killed, keyFaults>>

\* Mutant: a bootstrap with another key passes for unchanged.
PlanAnyway(c) == TRUE

(* The candidate's bootstrap is generated with the key that is there now:  *)
(* with another than the base's it is a change that cannot be patched.     *)
SameBootstrap(c) == keyCmd[c].key = keyCmd[c].pin

PlanWithKey(c) ==
    /\ Doing(c, "plan")
    /\ IF SameBootstrap(c) THEN To(c, "sign") ELSE EndKeys(c)
    /\ NothingSigned /\ UNCHANGED <<seed, ignored, yaml, issued>>

(* --seed-base64 or SOROQ_ENGINE_SIGNING_SEED, or the file, read again *)
ResolveSigningSeed(c) ==
    /\ Doing(c, "sign")
    /\ \/ /\ keyCmd[c].override \/ seed \in 1 .. MaxKeys
          /\ signed' = [by |-> IF keyCmd[c].override THEN 0 ELSE seed, pin |-> keyCmd[c].pin,
                        override |-> keyCmd[c].override, touched |-> keyCmd[c].touched]
       \/ ~keyCmd[c].override /\ seed \in {0, NoKey} /\ UNCHANGED signed
    /\ EndKeys(c)
    /\ UNCHANGED <<seed, ignored, yaml, issued, pinned, moved, killed, keyFaults>>

-----------------------------------------------------------------------------
KeyFault == keyFaults < MaxKeyFaults /\ keyFaults' = keyFaults + 1

KillKeyCmd(c) ==
    /\ ~Doing(c, "idle") /\ KeyFault /\ killed' = TRUE /\ EndKeys(c)
    /\ signed' = NoKey /\ UNCHANGED <<seed, ignored, yaml, issued, pinned, moved>>

(* The developer deletes the seed, as the messages tell, or clones afresh *)
DeleteSeed ==
    /\ KeyFault /\ seed # NoKey /\ \A c \in KeyCmds : ~Doing(c, "fill")
    /\ seed' = NoKey /\ moved' = TRUE
    /\ keyCmd' = [c \in KeyCmds |-> [keyCmd[c] EXCEPT !.touched = ~Doing(c, "idle")]]
    /\ signed' = NoKey /\ UNCHANGED <<ignored, yaml, issued, pinned, killed>>

LoseTrust ==
    /\ KeyFault /\ yaml # NoKey /\ yaml.keys # {}
    /\ yaml' = [yaml EXCEPT !.keys = {}]
    /\ signed' = NoKey /\ UNCHANGED <<seed, ignored, issued, pinned, keyCmd, moved, killed>>

-----------------------------------------------------------------------------
KeysInit ==
    /\ seed = NoKey /\ ignored = "lacks" /\ yaml = NoKey /\ issued = 0 /\ pinned = NoKey
    /\ keyCmd = [c \in KeyCmds |-> KeyIdle] /\ signed = NoKey
    /\ moved = FALSE /\ killed = FALSE /\ keyFaults = 0

KeysNext ==
    \/ \E c \in KeyCmds :
           \/ \E force, online \in BOOLEAN : RunInit(c, force, online)
           \/ ApplyOfflineDoctorFixes(c) \/ RunRelease(c)
           \/ \E override \in BOOLEAN : RunPatch(c, override) \/ RunRollback(c, override)
           \/ RenderSoroqConfig(c) \/ EnsureProjectSigningKey(c)
           \/ LoadSeed(c) \/ CreateSeed(c) \/ FillSeed(c) \/ EnsureGitignoreLine(c)
           \/ AnchorProjectKey(c) \/ EnsureManifestTrust(c) \/ ScaffoldManifestTrust(c)
           \/ PinKey(c) \/ PlanWithKey(c) \/ ResolveSigningSeed(c) \/ KillKeyCmd(c)
    \/ DeleteSeed \/ LoseTrust

-----------------------------------------------------------------------------
(* "a re-run cannot orphan a key that already signed shipped patches": no  *)
(* command replaces a seed that holds a key, in any interleaving.          *)
SeedIsKept == seed \in 1 .. MaxKeys => seed' \in {seed, NoKey}

(* "a key id must identify exactly one key": whatever was regenerated,     *)
(* rendered again or lost, no id is in soroq.yaml with two keys.           *)
OneKeyPerId == yaml # NoKey => ValidTrust(yaml)

(* What is published for a base without an override is signed with the key *)
(* its app pins; a rollback, which is not planned, and a patch except a    *)
(* seed that was deleted since the release, or under the patch.            *)
SignedAsPinned ==
    signed # NoKey /\ ~signed.override /\ ~signed.touched => signed.by = signed.pin

(* "`.soroq/` is added to .gitignore": before a base pins the key, and     *)
(* where no command was killed, before any command that made it has ended; *)
(* and it stays there but for as long as a command writes the file again.  *)
SeedIgnored ==
    /\ pinned # NoKey => ignored # "lacks"
    /\ ~killed /\ ignored = "cut" => \E c \in KeyCmds : Doing(c, "covering")
    /\ ~killed /\ seed # NoKey =>
           \/ ignored # "lacks"
           \/ \E c \in KeyCmds : Doing(c, "fill") \/ Doing(c, "ignore") \/ Doing(c, "cover")

(* "init is where that gap belongs": an init that ends well leaves a key to*)
(* sign with, unless one was killed or the seed deleted; and the trusted   *)
(* keys are not empty.                                                     *)
InitMakesSignable ==
    \A c \in KeyCmds :
        Doing(c, "trust") /\ keyCmd[c].for = "init" /\ Doing(c, "idle")' /\ killed' = killed /\ ~killed
        /\ yaml # NoKey /\ ~keyCmd[c].touched =>
            seed \in 1 .. MaxKeys \/ \E o \in KeyCmds : Doing(o, "fill")

(* The key that is trusted, pinned and signed with is one, and git ignores *)
(* its seed as far as SeedIgnored says.                                    *)
KeysHold == KeysTypeOK /\ OneKeyPerId /\ SignedAsPinned /\ SeedIgnored

(* A seed is never replaced, and init leaves one.                          *)
SeedStays == [][SeedIsKept /\ InitMakesSignable]_keysVars
=============================================================================
