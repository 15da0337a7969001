----------------------------- MODULE Publication -----------------------------
(***************************************************************************)
(* Hosted publication of iOS engine patches: `soroq patch ios --engine     *)
(* --rollout N`, the signed version-0 rollback `soroq rollback ios`, and   *)
(* the record rollback `soroq rollback ios --patch-record`, run by several *)
(* operators against one control plane.                                    *)
(*                                                                         *)
(* The manifest a device obeys is signed before the patch is registered,   *)
(* so its deployment version is a prediction of the number the control     *)
(* plane will allocate.  Between the listing it is predicted from, the     *)
(* registration, the bundle upload and the check of the prediction, every  *)
(* other operator may run, the process may be killed, and the answer to a  *)
(* request may be lost after the control plane acted on it.                *)
(*                                                                         *)
(* The control plane and the device are not in the repository: the three   *)
(* operators ServerAllocate, Served and DevicePoll state what the client   *)
(* code relies on.                                                         *)
(***************************************************************************)
EXTENDS Integers, Sequences, FiniteSets

CONSTANTS
    Operators,        \* command-line invocations that may overlap
    Runtimes,         \* engine runtime ids
    Channels,         \* release channels
    Releases,         \* control-plane release ids; a runtime may carry several
    Artifacts,        \* content identities of compiled patches
    Base,             \* the content of the store build: what version 0 returns to
    BaselineChannel,  \* the channel recorded in the persisted baseline
    PublishChannels,  \* the values --channel takes (the baseline's when it is absent)
    PatchVersions,    \* the values --patch-version takes (none when it is absent)
    MaxPatches        \* bound on the patches the control plane registers

ASSUME ConstantsAssumption ==
    /\ Runtimes # {} /\ Releases # {}
    /\ Base \notin Artifacts
    /\ BaselineChannel \in Channels
    /\ PublishChannels \subseteq Channels
    /\ PatchVersions \subseteq Nat
    /\ MaxPatches \in Nat

VARIABLES
    patches,    \* the control plane's append-only patch table, in creation order
    allocated,  \* per (runtime, channel), the last number handed out
    op,         \* the invocation each operator is running
    device,     \* per (runtime, channel), what a device there is running
    announced   \* patches an operator was told are published (history)

vars == <<patches, allocated, op, device, announced>>

Scopes == Runtimes \X Channels
Contents == Artifacts \cup {Base}

(* The version that a signed rollback carries and no patch may. *)
ReservedRollbackVersion == 0

(***************************************************************************)
(* A registered patch.  artifact and version are what its registrant       *)
(* signed; uploaded says whether the bundle that carries them is stored.   *)
(***************************************************************************)
Patch == [runtime : Runtimes, channel : Channels, release : Releases,
          number : Nat, artifact : Contents, version : Nat,
          uploaded : BOOLEAN, rolledBack : BOOLEAN]

(* An invocation.  listed is the length of the table when it was read: it  *)
(* is a history variable of the properties, no guard reads it.             *)
Invocation == [pc : {"idle", "planned", "signed", "registered", "uploaded", "rollback"},
               runtime : Runtimes, channel : Channels, release : Releases,
               artifact : Contents, version : Nat, patch : Nat, listed : Nat]

NoInvocation ==
    [pc |-> "idle", runtime |-> CHOOSE r \in Runtimes : TRUE,
     channel |-> BaselineChannel, release |-> CHOOSE r \in Releases : TRUE,
     artifact |-> Base, version |-> 0, patch |-> 0, listed |-> 0]

TypeOK ==
    /\ patches \in Seq(Patch)
    /\ allocated \in [Scopes -> Nat]
    /\ op \in [Operators -> Invocation]
    /\ device \in [Scopes -> [version : Nat, content : Contents]]
    /\ announced \subseteq DOMAIN patches

-----------------------------------------------------------------------------
(* The version rules *)

(* Mutant: the listing came back empty (no API base was passed). *)
EmptyListing(all, runtime, channel) == {}

(* The patches of one deployment scope.  Neither the release nor the       *)
(* rolled-back mark takes a patch out of its scope.                        *)
ScopedPatches(all, runtime, channel) ==
    {i \in DOMAIN all : all[i].channel = channel /\ all[i].runtime = runtime}

(* Mutants: the version is always 1; a rolled-back number is free again;   *)
(* one too many.                                                           *)
AlwaysOne(all, existing) == 1
ReusingRolledBack(all, existing) ==
    LET numbers == {0} \cup {all[i].number : i \in {j \in existing : ~all[j].rolledBack}}
    IN  1 + CHOOSE n \in numbers : \A m \in numbers : m <= n
OneTooMany(all, existing) ==
    LET numbers == {0} \cup {all[i].number : i \in existing}
    IN  2 + CHOOSE n \in numbers : \A m \in numbers : m <= n

(* One more than the highest number in the listing, 1 for an empty one. *)
NextManifestVersion(all, existing) ==
    LET numbers == {0} \cup {all[i].number : i \in existing}
    IN  1 + CHOOSE n \in numbers : \A m \in numbers : m <= n

(* Mutant: only the reserved version is refused. *)
ValidateReservedOnly(version, all, existing) == version # ReservedRollbackVersion

ValidateManifestVersion(version, all, existing) ==
    /\ version # ReservedRollbackVersion
    /\ version >= NextManifestVersion(all, existing)

(* Mutants: no gate; a gate that only refuses a lower number. *)
NoGate(version, patch) == TRUE
GateAtLeast(version, patch) == patch.number >= version

AssertAllocatedVersionMatches(version, patch) == patch.number = version

(* `freehand-<artifact>-v<version>` is already a key of the patch table.  A *)
(* rollback's id carries a timestamp and a random suffix, so it never is.   *)
DuplicateID(artifact, version) ==
    /\ artifact # Base
    /\ \E i \in DOMAIN patches :
          patches[i].artifact = artifact /\ patches[i].version = version

(* The number the control plane allocates: per (app, runtime, channel). *)
ServerAllocate(scope) == allocated[scope] + 1

-----------------------------------------------------------------------------
Init ==
    /\ patches = <<>>
    /\ allocated = [s \in Scopes |-> 0]
    /\ op = [o \in Operators |-> NoInvocation]
    /\ device = [s \in Scopes |-> [version |-> 0, content |-> Base]]
    /\ announced = {}

(* `soroq patch ios`: a verified artifact for one base, and the flags that *)
(* say where to publish it.                                                *)
Plan(o, runtime, release, artifact, channel) ==
    /\ op[o].pc = "idle"
    /\ op' = [op EXCEPT ![o] =
                 [pc |-> "planned", runtime |-> runtime, channel |-> channel,
                  release |-> release, artifact |-> artifact,
                  version |-> 0, patch |-> 0, listed |-> 0]]
    /\ UNCHANGED <<patches, allocated, device, announced>>

Listing(o) == ScopedPatches(patches, op[o].runtime, BaselineChannel)

(* The listing is asked for the baseline's channel, whatever --channel     *)
(* says; the version is the next one or --patch-version; a version that is *)
(* not above everything listed ends the command before anything is signed. *)
ResolveVersion(o, flag) ==
    /\ op[o].pc = "planned"
    /\ LET existing == Listing(o)
           version  == IF flag = 0 THEN NextManifestVersion(patches, existing) ELSE flag
       IN  op' = [op EXCEPT ![o] =
                     IF ValidateManifestVersion(version, patches, existing)
                     THEN [op[o] EXCEPT !.pc = "signed", !.version = version,
                                        !.listed = Len(patches)]
                     ELSE NoInvocation]
    /\ UNCHANGED <<patches, allocated, device, announced>>

(* `soroq rollback ios`: a manifest with version 0 for the selected base. *)
SignRollback(o, runtime, release, channel) ==
    /\ op[o].pc = "idle"
    /\ op' = [op EXCEPT ![o] =
                 [pc |-> "signed", runtime |-> runtime, channel |-> channel,
                  release |-> release, artifact |-> Base,
                  version |-> ReservedRollbackVersion, patch |-> 0,
                  listed |-> Len(patches)]]
    /\ UNCHANGED <<patches, allocated, device, announced>>

(* POST /v1/patches.  The number is allocated and the row appended, then   *)
(* the answer arrives or is lost: a request that times out is not retried. *)
Register(o, answered) ==
    LET scope == <<op[o].runtime, op[o].channel>>
    IN  /\ op[o].pc = "signed"
        /\ ~DuplicateID(op[o].artifact, op[o].version)
        /\ Len(patches) < MaxPatches
        /\ patches' = Append(patches,
              [runtime |-> op[o].runtime, channel |-> op[o].channel,
               release |-> op[o].release, number |-> ServerAllocate(scope),
               artifact |-> op[o].artifact, version |-> op[o].version,
               uploaded |-> FALSE, rolledBack |-> FALSE])
        /\ allocated' = [allocated EXCEPT ![scope] = ServerAllocate(scope)]
        /\ op' = [op EXCEPT ![o] =
                     IF answered
                     THEN [op[o] EXCEPT !.pc = "registered", !.patch = Len(patches) + 1]
                     ELSE NoInvocation]
        /\ UNCHANGED <<device, announced>>

(* The patch id is taken: the registration is refused, nothing is stored. *)
RegisterRefused(o) ==
    /\ op[o].pc = "signed"
    /\ DuplicateID(op[o].artifact, op[o].version)
    /\ op' = [op EXCEPT ![o] = NoInvocation]
    /\ UNCHANGED <<patches, allocated, device, announced>>

(* POST /v1/patches/{id}/bundle: from here on a device can fetch it. *)
Upload(o, answered) ==
    /\ op[o].pc = "registered"
    /\ patches' = [patches EXCEPT ![op[o].patch].uploaded = TRUE]
    /\ op' = [op EXCEPT ![o] =
                 IF answered THEN [op[o] EXCEPT !.pc = "uploaded"] ELSE NoInvocation]
    /\ UNCHANGED <<allocated, device, announced>>

(* The concurrency gate, and the last line the operator reads.  A rollback *)
(* has no version to compare.                                              *)
Report(o) ==
    /\ op[o].pc = "uploaded"
    /\ announced' =
          IF /\ op[o].artifact # Base
             /\ AssertAllocatedVersionMatches(op[o].version, patches[op[o].patch])
          THEN announced \cup {op[o].patch} ELSE announced
    /\ op' = [op EXCEPT ![o] = NoInvocation]
    /\ UNCHANGED <<patches, allocated, device>>

(* The record rollback resolves the newest patch of (channel, release) that *)
(* is not rolled back, across runtimes and kinds ...                        *)
ResolveRollback(o, channel, release) ==
    LET candidates == {i \in DOMAIN patches : /\ patches[i].channel = channel
                                              /\ patches[i].release = release
                                              /\ ~patches[i].rolledBack}
    IN  /\ op[o].pc = "idle"
        /\ \E newest \in candidates :
              /\ \A i \in candidates : i <= newest
              /\ op' = [op EXCEPT ![o] = [NoInvocation EXCEPT
                           !.pc = "rollback", !.patch = newest]]
        /\ UNCHANGED <<patches, allocated, device, announced>>

(* ... and then posts the rollback of exactly that id. *)
PostRollback(o) ==
    /\ op[o].pc = "rollback"
    /\ patches' = [patches EXCEPT ![op[o].patch].rolledBack = TRUE]
    /\ op' = [op EXCEPT ![o] = NoInvocation]
    /\ UNCHANGED <<allocated, device, announced>>

(* The process is killed, or a request fails before the control plane acts. *)
Abandon(o) ==
    /\ op[o].pc # "idle"
    /\ op' = [op EXCEPT ![o] = NoInvocation]
    /\ UNCHANGED <<patches, allocated, device, announced>>

-----------------------------------------------------------------------------
(* The device *)

Servable(scope) ==
    {i \in ScopedPatches(patches, scope[1], scope[2]) :
        patches[i].uploaded /\ ~patches[i].rolledBack}

(* The control plane serves the newest patch that is not rolled back. *)
Served(scope, i) ==
    /\ i \in Servable(scope)
    /\ \A j \in Servable(scope) : patches[j].number <= patches[i].number

(* The device controller: version 0 returns to the base, the version it    *)
(* already runs is already applied, any other version is applied.          *)
DevicePoll(scope) ==
    /\ \E i \in DOMAIN patches :
          /\ Served(scope, i)
          /\ patches[i].version # device[scope].version
          /\ device' = [device EXCEPT ![scope] =
                [version |-> patches[i].version, content |-> patches[i].artifact]]
    /\ UNCHANGED <<patches, allocated, op, announced>>

-----------------------------------------------------------------------------
Publish(o) ==
    \/ \E r \in Runtimes, l \in Releases, a \in Artifacts, c \in PublishChannels :
          Plan(o, r, l, a, c)
    \/ \E flag \in {0} \cup PatchVersions : ResolveVersion(o, flag)
    \/ \E answered \in BOOLEAN : Register(o, answered)
    \/ RegisterRefused(o)
    \/ \E answered \in BOOLEAN : Upload(o, answered)
    \/ Report(o)

Rollback(o) ==
    \/ \E r \in Runtimes, l \in Releases : SignRollback(o, r, l, BaselineChannel)
    \/ \E c \in Channels, l \in Releases : ResolveRollback(o, c, l)
    \/ PostRollback(o)

Next ==
    \/ \E o \in Operators : Publish(o) \/ Rollback(o) \/ Abandon(o)
    \/ \E s \in Scopes : DevicePoll(s)

Spec == Init /\ [][Next]_vars

(* A device keeps polling; nothing obliges an operator to go on. *)
FairSpec == Spec /\ \A s \in Scopes : WF_vars(DevicePoll(s))

-----------------------------------------------------------------------------
(* Properties *)

ScopeOf(i) == <<patches[i].runtime, patches[i].channel>>

(***************************************************************************)
(* Whatever flags are used and whoever publishes at the same time: of two  *)
(* patches of one scope that operators were told are published, the one    *)
(* registered later carries the higher version (the concurrency gate,      *)
(* assertAllocatedVersionMatches, on top of the server's allocation).      *)
(***************************************************************************)
AnnouncedVersionsIncrease ==
    \A i, j \in announced :
        i < j /\ ScopeOf(i) = ScopeOf(j) => patches[i].version < patches[j].version

(***************************************************************************)
(* A signed version never runs ahead of the number its patch was given, so *)
(* it cannot take a version that a later publication will be told to sign. *)
(***************************************************************************)
SignedNotAhead ==
    \A i \in DOMAIN patches : patches[i].version <= patches[i].number

(***************************************************************************)
(* A version about to be signed is above every version any patch listed    *)
(* for its scope carries, the ones that failed the gate, that never got a  *)
(* bundle or that were rolled back included: nextManifestVersion counts    *)
(* them all so that no device can take the new patch for an old one.       *)
(***************************************************************************)
FreshAfterListing ==
    \A o \in Operators :
        op[o].pc = "signed" /\ op[o].artifact # Base =>
            \A i \in 1 .. op[o].listed :
                ScopeOf(i) = <<op[o].runtime, op[o].channel>> =>
                    patches[i].version < op[o].version

(***************************************************************************)
(* The gate stops a publication only for the reason its message gives,     *)
(* "another publish won the race": some other patch of the scope was       *)
(* registered between the listing and this registration.                   *)
(***************************************************************************)
GateNamesARealRace ==
    \A o \in Operators :
        /\ op[o].pc = "uploaded" /\ op[o].artifact # Base
        /\ ~AssertAllocatedVersionMatches(op[o].version, patches[op[o].patch])
        => \E i \in (op[o].listed + 1) .. (op[o].patch - 1) :
               ScopeOf(i) = ScopeOf(op[o].patch)

(***************************************************************************)
(* No bundle is stored whose signed version is not the number its patch    *)
(* was allocated ("Nothing was served with a mismatched version").         *)
(***************************************************************************)
NothingServedMismatched ==
    \A i \in DOMAIN patches :
        patches[i].uploaded /\ patches[i].artifact # Base =>
            AssertAllocatedVersionMatches(patches[i].version, patches[i])

(***************************************************************************)
(* The original defect of freehand_manifest_version.go: a device takes the *)
(* patch it is served for the one it already runs, and runs other content. *)
(***************************************************************************)
NoSilentNoOp ==
    \A s \in Scopes : \A i \in DOMAIN patches :
        Served(s, i) /\ patches[i].version = device[s].version =>
            patches[i].artifact = device[s].content

(***************************************************************************)
(* A device's version falls only to the base or when the patch it runs has *)
(* been rolled back: publishing never takes a device back.                 *)
(***************************************************************************)
DeviceOnlyMovesForward ==
    [][\A s \in Scopes :
          device'[s].version < device[s].version =>
              \/ device'[s].content = Base
              \/ \E i \in DOMAIN patches :
                    /\ ScopeOf(i) = s /\ patches[i].rolledBack
                    /\ patches[i].version = device[s].version]_device

(***************************************************************************)
(* A patch that stays the served one is eventually what the device runs,   *)
(* after crashed publications, lost answers and rollbacks alike.           *)
(***************************************************************************)
DeviceCatchesUp ==
    \A s \in Scopes : \A i \in 1 .. MaxPatches :
        (i \in DOMAIN patches /\ Served(s, i)) ~>
            \/ ~(i \in DOMAIN patches /\ Served(s, i))
            \/ device[s].content = patches[i].artifact

(***************************************************************************)
(* The refinement: the table's numbers are the ones handed out, and the    *)
(* announced patches, under the versions they carry, are the ledger.       *)
(***************************************************************************)
Ledger ==
    INSTANCE VersionLedger WITH
        Contents <- Artifacts,
        handedOut <- allocated,
        ledger <- {<<ScopeOf(i), patches[i].version, patches[i].artifact>> : i \in announced}

(* Publication implements the ledger: registration, in any interleaving,   *)
(* hands out a number, and only the gate announces one.                    *)
ImplementsLedger == Ledger!Spec

=============================================================================
