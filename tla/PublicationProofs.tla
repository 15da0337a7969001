-------------------------- MODULE PublicationProofs --------------------------
(***************************************************************************)
(* Proofs about Publication, for every set of runtimes, channels, releases *)
(* and artifacts and every bound on the patch table.                       *)
(*                                                                         *)
(*   1. The table.  TableInv holds whatever flags the operators pass: each *)
(*      scope is numbered upwards, the counter is the highest number given,*)
(*      and what was announced passed the gate.                            *)
(*   2. Default flags.  LaneInv: a publication in the baseline's channel   *)
(*      predicts a version that is never ahead, and misses it only where   *)
(*      another registration came between.                                 *)
(*   3. One operator.  SoloInv: there is no other registration, so every   *)
(*      bundle carries its own number and every device what it names.      *)
(*   4. The refinement of VersionLedger, from TableInv.                    *)
(***************************************************************************)
EXTENDS Publication, TLAPS

(* Numbers rise with the position in the table, scope by scope. *)
NumbersIncrease ==
    \A i, j \in DOMAIN patches :
        i < j /\ ScopeOf(i) = ScopeOf(j) => patches[i].number < patches[j].number

(* No number is above the scope's counter, none is zero, and the counter's *)
(* value is itself some patch's number.                                    *)
CounterIsHighest ==
    /\ \A i \in DOMAIN patches :
          patches[i].number >= 1 /\ patches[i].number <= allocated[ScopeOf(i)]
    /\ \A s \in Scopes :
          allocated[s] > 0 =>
              \E i \in DOMAIN patches : ScopeOf(i) = s /\ patches[i].number = allocated[s]

(* What is announced carries the number it was allocated and is a patch. *)
AnnouncedPassedGate ==
    \A i \in announced :
        patches[i].version = patches[i].number /\ patches[i].artifact # Base

(* An invocation past its registration holds the row it created. *)
RowBound(v) ==
    /\ v.pc \in {"registered", "uploaded", "rollback"} => v.patch \in DOMAIN patches
    /\ v.pc \in {"registered", "uploaded"} =>
          /\ patches[v.patch].version = v.version
          /\ patches[v.patch].artifact = v.artifact
          /\ ScopeOf(v.patch) = <<v.runtime, v.channel>>

HoldsItsRow == \A o \in Operators : RowBound(op[o])

TableInv ==
    /\ TypeOK
    /\ NumbersIncrease
    /\ CounterIsHighest
    /\ AnnouncedPassedGate
    /\ HoldsItsRow

-----------------------------------------------------------------------------
(* Typing *)

LEMMA NoInvocationType == NoInvocation \in Invocation
BY ConstantsAssumption DEF NoInvocation, Invocation, Contents

(* NextManifestVersion over a listing with a greatest number returns one   *)
(* more than it: the only way CHOOSE can go.                               *)
LEMMA NextIsOneAbove ==
    ASSUME NEW all, NEW existing, NEW top \in Nat,
           \A i \in existing : all[i].number \in Nat /\ all[i].number <= top,
           top = 0 \/ \E i \in existing : all[i].number = top
    PROVE  NextManifestVersion(all, existing) = top + 1
<1> DEFINE numbers == {0} \cup {all[i].number : i \in existing}
           IsMax(n) == n \in numbers /\ \A m \in numbers : m <= n
<1>1. top \in numbers
  OBVIOUS
<1>2. \A m \in numbers : m \in Nat /\ m <= top
  OBVIOUS
<1>3. \A n : IsMax(n) => n = top
  BY <1>1, <1>2
<1>4. IsMax(top)
  BY <1>1, <1>2
<1>5. (CHOOSE n \in numbers : \A m \in numbers : m <= n) = top
  BY <1>3, <1>4
<1>6. NextManifestVersion(all, existing)
         = 1 + CHOOSE n \in numbers : \A m \in numbers : m <= n
  BY Zenon DEF NextManifestVersion
<1>7. NextManifestVersion(all, existing) = 1 + top
  BY <1>5, <1>6, Zenon
<1>8. QED
  BY <1>7

(* The prediction is a version: a natural number, above zero. *)
LEMMA ListingHasTop ==
    ASSUME TypeOK, CounterIsHighest, NEW r \in Runtimes, NEW c \in Channels
    PROVE  NextManifestVersion(patches, ScopedPatches(patches, r, c))
              = allocated[<<r, c>>] + 1
<1> DEFINE existing == ScopedPatches(patches, r, c)
           top == allocated[<<r, c>>]
<1>1. <<r, c>> \in Scopes /\ top \in Nat
  BY DEF TypeOK, Scopes
<1>2. \A i \in existing : i \in DOMAIN patches /\ ScopeOf(i) = <<r, c>>
  BY DEF ScopedPatches, ScopeOf
<1>3. \A i \in DOMAIN patches : patches[i] \in Patch
  BY DEF TypeOK
<1>4. \A i \in existing : patches[i].number \in Nat /\ patches[i].number <= top
  BY <1>2, <1>3 DEF CounterIsHighest, Patch
<1>5. top = 0 \/ \E i \in existing : patches[i].number = top
  <2>1. SUFFICES ASSUME top > 0
                 PROVE  \E i \in existing : patches[i].number = top
    BY <1>1
  <2>2. PICK i \in DOMAIN patches : ScopeOf(i) = <<r, c>> /\ patches[i].number = top
    BY <1>1, <2>1 DEF CounterIsHighest
  <2>3. i \in existing
    BY <2>2, <1>3 DEF ScopedPatches, ScopeOf
  <2>4. QED
    BY <2>2, <2>3
<1>6. QED
  BY <1>1, <1>4, <1>5, NextIsOneAbove

-----------------------------------------------------------------------------
LEMMA InitTable == Init => TableInv
<1> SUFFICES ASSUME Init PROVE TableInv
  OBVIOUS
<1>1. DOMAIN patches = {} /\ patches \in Seq(Patch) /\ announced = {}
  BY DEF Init
<1>2. TypeOK
  BY <1>1, NoInvocationType DEF Init, TypeOK, Contents
<1>3. NumbersIncrease /\ AnnouncedPassedGate
  BY <1>1 DEF NumbersIncrease, AnnouncedPassedGate
<1>4. CounterIsHighest
  BY <1>1 DEF Init, CounterIsHighest
<1>5. HoldsItsRow
  BY <1>1, NoInvocationType DEF Init, HoldsItsRow, RowBound, NoInvocation
<1>6. QED
  BY <1>2, <1>3, <1>4, <1>5 DEF TableInv

(* Which steps touch the table, and how: Register appends one row,         *)
(* Upload and PostRollback set one mark, everything else leaves it alone.  *)
MarksOnly ==
    /\ DOMAIN patches' = DOMAIN patches
    /\ Len(patches') = Len(patches)
    /\ patches' \in Seq(Patch)
    /\ \A i \in DOMAIN patches :
          /\ patches'[i].runtime = patches[i].runtime
          /\ patches'[i].channel = patches[i].channel
          /\ patches'[i].number = patches[i].number
          /\ patches'[i].artifact = patches[i].artifact
          /\ patches'[i].version = patches[i].version

LEMMA RowType ==
    ASSUME TypeOK, NEW i \in DOMAIN patches
    PROVE  patches[i] \in Patch /\ i \in Nat /\ i \in 1 .. Len(patches) /\ ScopeOf(i) \in Scopes
<1>1. i \in 1 .. Len(patches) /\ Len(patches) \in Nat
  BY DEF TypeOK
<1>2. patches[i] \in Patch
  BY <1>1 DEF TypeOK
<1>3. ScopeOf(i) \in Scopes
  BY <1>2 DEF ScopeOf, Scopes, Patch
<1>4. QED
  BY <1>1, <1>2, <1>3

LEMMA UploadMarks ==
    ASSUME TypeOK, HoldsItsRow, NEW o \in Operators, NEW b \in BOOLEAN, Upload(o, b)
    PROVE  MarksOnly
<1>1. op[o].patch \in DOMAIN patches
  BY DEF HoldsItsRow, RowBound, Upload
<1>2. patches' = [patches EXCEPT ![op[o].patch].uploaded = TRUE]
  BY DEF Upload
<1>3. patches[op[o].patch] \in Patch
  BY <1>1, RowType
<1>4. [patches[op[o].patch] EXCEPT !.uploaded = TRUE] \in Patch
  BY <1>3 DEF Patch
<1>5. patches' = [patches EXCEPT ![op[o].patch] = [patches[op[o].patch] EXCEPT !.uploaded = TRUE]]
  BY <1>1, <1>2
<1>6. patches' \in Seq(Patch) /\ Len(patches') = Len(patches) /\ DOMAIN patches' = DOMAIN patches
  BY <1>1, <1>4, <1>5 DEF TypeOK
<1>7. QED
  BY <1>1, <1>3, <1>5, <1>6, RowType DEF MarksOnly, Patch

LEMMA PostRollbackMarks ==
    ASSUME TypeOK, HoldsItsRow, NEW o \in Operators, PostRollback(o)
    PROVE  MarksOnly
<1>1. op[o].patch \in DOMAIN patches
  BY DEF HoldsItsRow, RowBound, PostRollback
<1>2. patches' = [patches EXCEPT ![op[o].patch].rolledBack = TRUE]
  BY DEF PostRollback
<1>3. patches[op[o].patch] \in Patch
  BY <1>1, RowType
<1>4. [patches[op[o].patch] EXCEPT !.rolledBack = TRUE] \in Patch
  BY <1>3 DEF Patch
<1>5. patches' = [patches EXCEPT ![op[o].patch] = [patches[op[o].patch] EXCEPT !.rolledBack = TRUE]]
  BY <1>1, <1>2
<1>6. patches' \in Seq(Patch) /\ Len(patches') = Len(patches) /\ DOMAIN patches' = DOMAIN patches
  BY <1>1, <1>4, <1>5 DEF TypeOK
<1>7. QED
  BY <1>1, <1>3, <1>5, <1>6, RowType DEF MarksOnly, Patch

(* A step that at most sets marks, leaves the counters, keeps invocations  *)
(* typed and bound to their rows, and announces only what passed the gate. *)
LEMMA MarksKeepTable ==
    ASSUME TableInv, MarksOnly, UNCHANGED allocated,
           op' \in [Operators -> Invocation],
           device' \in [Scopes -> [version : Nat, content : Contents]],
           announced' \subseteq DOMAIN patches,
           \A i \in announced' : patches[i].version = patches[i].number /\ patches[i].artifact # Base,
           \A o \in Operators : RowBound(op'[o])
    PROVE  TableInv'
<1> USE DEF MarksOnly, ScopeOf
<1>1. \A i \in DOMAIN patches : ScopeOf(i)' = ScopeOf(i)
  OBVIOUS
<1>2. TypeOK'
  BY DEF TableInv, TypeOK
<1>3. NumbersIncrease'
  BY <1>1 DEF TableInv, NumbersIncrease
<1>4. CounterIsHighest'
  <2>1. CounterIsHighest
    BY DEF TableInv
  <2>2. \A i \in DOMAIN patches' :
           patches'[i].number >= 1 /\ patches'[i].number <= allocated'[ScopeOf(i)']
    BY <1>1, <2>1 DEF CounterIsHighest
  <2>3. ASSUME NEW s \in Scopes, allocated'[s] > 0
        PROVE  \E i \in DOMAIN patches' : ScopeOf(i)' = s /\ patches'[i].number = allocated'[s]
    <3>1. PICK i \in DOMAIN patches : ScopeOf(i) = s /\ patches[i].number = allocated[s]
      BY <2>1, <2>3 DEF CounterIsHighest
    <3>2. QED
      BY <1>1, <3>1
  <2>4. QED
    BY <2>2, <2>3 DEF CounterIsHighest
<1>5. AnnouncedPassedGate'
  BY DEF AnnouncedPassedGate
<1>6. HoldsItsRow'
  BY <1>1 DEF HoldsItsRow, RowBound
<1>7. QED
  BY <1>2, <1>3, <1>4, <1>5, <1>6 DEF TableInv

-----------------------------------------------------------------------------
(* The steps.  One lemma per action that can disturb the invariant. *)

(* What Register does to the table: one row, with the next number of its  *)
(* scope, behind rows that do not change.                                  *)
Appends(o) ==
    LET scope == <<op[o].runtime, op[o].channel>>
    IN  /\ scope \in Scopes
        /\ Len(patches) \in Nat
        /\ patches' \in Seq(Patch)
        /\ DOMAIN patches' = 1 .. (Len(patches) + 1)
        /\ DOMAIN patches = 1 .. Len(patches)
        /\ Len(patches') = Len(patches) + 1
        /\ \A i \in DOMAIN patches : patches'[i] = patches[i] /\ ScopeOf(i)' = ScopeOf(i)
        /\ \A k : k = Len(patches) + 1 =>
              /\ patches'[k].number = allocated[scope] + 1
              /\ patches'[k].version = op[o].version
              /\ patches'[k].artifact = op[o].artifact
              /\ ScopeOf(k)' = scope
        /\ allocated[scope] \in Nat
        /\ allocated' = [allocated EXCEPT ![scope] = allocated[scope] + 1]

LEMMA RegisterAppends ==
    ASSUME TableInv, NEW o \in Operators, NEW b \in BOOLEAN, Register(o, b)
    PROVE  Appends(o)
<1> DEFINE scope == <<op[o].runtime, op[o].channel>>
           row == [runtime |-> op[o].runtime, channel |-> op[o].channel,
                   release |-> op[o].release, number |-> allocated[scope] + 1,
                   artifact |-> op[o].artifact, version |-> op[o].version,
                   uploaded |-> FALSE, rolledBack |-> FALSE]
<1>1. op[o] \in Invocation
  BY DEF TableInv, TypeOK
<1>2. scope \in Scopes
  BY <1>1 DEF Invocation, Scopes
<1>3. allocated[scope] \in Nat
  BY <1>2 DEF TableInv, TypeOK
<1>4. row \in Patch
  BY <1>1, <1>3 DEF Invocation, Patch
<1>5. patches' = Append(patches, row)
  BY DEF Register, ServerAllocate
<1>6. patches \in Seq(Patch)
  BY DEF TableInv, TypeOK
<1> HIDE DEF row
<1>7. /\ patches' \in Seq(Patch)
      /\ Len(patches') = Len(patches) + 1
      /\ Len(patches) \in Nat
      /\ DOMAIN patches' = 1 .. (Len(patches) + 1)
      /\ DOMAIN patches = 1 .. Len(patches)
      /\ \A i \in DOMAIN patches : patches'[i] = patches[i]
      /\ patches'[Len(patches) + 1] = row
  BY <1>4, <1>5, <1>6
<1>8. allocated' = [allocated EXCEPT ![scope] = allocated[scope] + 1]
  BY DEF Register, ServerAllocate
<1>9. \A i \in DOMAIN patches : ScopeOf(i)' = ScopeOf(i)
  BY <1>7 DEF ScopeOf
<1>10. ASSUME NEW k, k = Len(patches) + 1
       PROVE  /\ patches'[k].number = allocated[scope] + 1
              /\ patches'[k].version = op[o].version
              /\ patches'[k].artifact = op[o].artifact
              /\ ScopeOf(k)' = scope
  BY <1>7, <1>10 DEF row, ScopeOf
<1>11. QED
  BY <1>2, <1>3, <1>7, <1>8, <1>9, <1>10 DEF Appends

LEMMA RegisterInvocation ==
    ASSUME TypeOK, NEW o \in Operators, NEW b \in BOOLEAN, Register(o, b)
    PROVE  /\ op' \in [Operators -> Invocation]
           /\ \A q \in Operators \ {o} : op'[q] = op[q]
           /\ \/ op'[o] = NoInvocation
              \/ /\ op'[o].pc = "registered"
                 /\ op'[o].patch = Len(patches) + 1
                 /\ op'[o].version = op[o].version
                 /\ op'[o].artifact = op[o].artifact
                 /\ op'[o].runtime = op[o].runtime
                 /\ op'[o].channel = op[o].channel
                 /\ op'[o].listed = op[o].listed
<1>1. op[o] \in Invocation /\ Len(patches) \in Nat
  BY DEF TypeOK
<1>2. [op[o] EXCEPT !.pc = "registered", !.patch = Len(patches) + 1] \in Invocation
  <2> DEFINE half == [op[o] EXCEPT !.pc = "registered"]
  <2>1. half \in Invocation
    BY <1>1 DEF Invocation
  <2>2. [half EXCEPT !.patch = Len(patches) + 1]
           = [op[o] EXCEPT !.pc = "registered", !.patch = Len(patches) + 1]
    BY <1>1 DEF Invocation
  <2> HIDE DEF half
  <2>3. [half EXCEPT !.patch = Len(patches) + 1] \in Invocation
    BY <1>1, <2>1 DEF Invocation
  <2>4. QED
    BY <2>2, <2>3
<1>3. CASE b
  <2>1. op' = [op EXCEPT ![o] = [op[o] EXCEPT !.pc = "registered", !.patch = Len(patches) + 1]]
    BY <1>3 DEF Register
  <2>2. QED
    BY <1>1, <1>2, <2>1 DEF TypeOK, Invocation
<1>4. CASE ~b
  <2>1. op' = [op EXCEPT ![o] = NoInvocation]
    BY <1>4 DEF Register
  <2>2. QED
    BY <2>1, NoInvocationType DEF TypeOK
<1>5. QED
  BY <1>3, <1>4

LEMMA RegisterTable ==
    ASSUME TableInv, NEW o \in Operators, NEW b \in BOOLEAN, Register(o, b)
    PROVE  TableInv'
<1>1. TypeOK /\ NumbersIncrease /\ CounterIsHighest /\ AnnouncedPassedGate /\ HoldsItsRow
  BY DEF TableInv
<1>0. PICK scope, new : scope = <<op[o].runtime, op[o].channel>> /\ new = Len(patches) + 1
  OBVIOUS
<1>a. /\ scope \in Scopes /\ new \in Nat \ {0}
      /\ patches' \in Seq(Patch)
      /\ DOMAIN patches' = 1 .. new
      /\ DOMAIN patches = 1 .. (new - 1)
  BY <1>0, RegisterAppends DEF Appends
<1>b. \A i \in DOMAIN patches : patches'[i] = patches[i] /\ ScopeOf(i)' = ScopeOf(i)
  BY RegisterAppends DEF Appends
<1>c. /\ patches'[new].number = allocated[scope] + 1
      /\ patches'[new].version = op[o].version
      /\ patches'[new].artifact = op[o].artifact
      /\ ScopeOf(new)' = scope
  BY <1>0, RegisterAppends DEF Appends
<1>d. allocated[scope] \in Nat /\ allocated' = [allocated EXCEPT ![scope] = allocated[scope] + 1]
  BY <1>0, RegisterAppends DEF Appends
<1>e. \A s \in Scopes :
         /\ allocated[s] \in Nat /\ allocated'[s] \in Nat
         /\ s # scope => allocated'[s] = allocated[s]
         /\ s = scope => allocated'[s] = allocated[s] + 1
  BY <1>1, <1>a, <1>d DEF TypeOK
<1>2. UNCHANGED <<device, announced>>
  BY DEF Register
<1>3. TypeOK'
  <2>1. allocated' \in [Scopes -> Nat]
    BY <1>1, <1>a, <1>d DEF TypeOK
  <2>2. announced' \subseteq DOMAIN patches'
    BY <1>1, <1>2, <1>a, <1>b, <1>c, <1>e DEF TypeOK
  <2>3. QED
    BY <1>a, <1>b, <1>c, <1>e, <1>1, <1>2, <2>1, <2>2, <1>0, RegisterInvocation DEF TypeOK
<1>4. \A i \in DOMAIN patches : patches[i].number <= allocated[ScopeOf(i)] /\ patches[i].number \in Nat
  BY <1>1, RowType DEF CounterIsHighest, Patch
<1>5. NumbersIncrease'
  <2>1. SUFFICES ASSUME NEW i \in DOMAIN patches', NEW j \in DOMAIN patches',
                        i < j, ScopeOf(i)' = ScopeOf(j)'
                 PROVE  patches'[i].number < patches'[j].number
    BY DEF NumbersIncrease
  <2>2. i \in DOMAIN patches
    BY <2>1, <1>a, <1>b, <1>c, <1>e
  <2>3. CASE j \in DOMAIN patches
    BY <1>1, <2>1, <2>2, <2>3, <1>a, <1>b, <1>c, <1>e DEF NumbersIncrease
  <2>4. CASE j = new
    <3>1. ScopeOf(i) = scope
      BY <2>1, <2>2, <2>4, <1>a, <1>b, <1>c, <1>e
    <3>2. patches[i].number <= allocated[scope] /\ patches[i].number \in Nat
      BY <1>4, <2>2, <3>1
    <3>3. allocated[scope] \in Nat
      BY <1>1, <1>a, <1>d DEF TypeOK
    <3>4. QED
      BY <2>2, <2>4, <3>2, <3>3, <1>a, <1>b, <1>c, <1>e
  <2>5. QED
    BY <2>1, <2>3, <2>4, <1>a, <1>b, <1>c, <1>e
<1>6. CounterIsHighest'
  <2>2. ASSUME NEW i \in DOMAIN patches'
        PROVE  patches'[i].number >= 1 /\ patches'[i].number <= allocated'[ScopeOf(i)']
    <3>1. CASE i \in DOMAIN patches
      <4>1. ScopeOf(i)' = ScopeOf(i) /\ ScopeOf(i) \in Scopes /\ patches'[i] = patches[i]
        BY <1>1, <3>1, RowType, <1>a, <1>b, <1>c, <1>e
      <4>2. allocated[ScopeOf(i)] <= allocated'[ScopeOf(i)]
        BY <4>1, <1>a, <1>b, <1>c, <1>e DEF TypeOK
      <4>3. patches[i].number >= 1 /\ patches[i].number <= allocated[ScopeOf(i)]
        BY <1>1, <3>1 DEF CounterIsHighest
      <4>4. QED
        BY <1>4, <1>e, <3>1, <4>1, <4>2, <4>3
    <3>2. CASE i = new
      BY <1>1, <3>2, <1>a, <1>b, <1>c, <1>e DEF TypeOK
    <3>3. QED
      BY <3>1, <3>2, <1>a, <1>b, <1>c, <1>e
  <2>3. ASSUME NEW s \in Scopes, allocated'[s] > 0
        PROVE  \E i \in DOMAIN patches' : ScopeOf(i)' = s /\ patches'[i].number = allocated'[s]
    <3>1. CASE s = scope
      <4>1. new \in DOMAIN patches' /\ allocated'[s] = allocated[scope] + 1
        BY <1>1, <2>3, <3>1, <1>a, <1>b, <1>c, <1>e DEF TypeOK
      <4>2. QED
        BY <3>1, <4>1, <1>a, <1>b, <1>c, <1>e
    <3>2. CASE s # scope
      <4>1. allocated'[s] = allocated[s]
        BY <1>1, <3>2, <1>a, <1>b, <1>c, <1>e DEF TypeOK
      <4>2. PICK i \in DOMAIN patches : ScopeOf(i) = s /\ patches[i].number = allocated[s]
        BY <1>1, <2>3, <4>1 DEF CounterIsHighest
      <4>3. QED
        BY <4>1, <4>2, <1>a, <1>b, <1>c, <1>e
    <3>3. QED
      BY <3>1, <3>2
  <2>4. QED
    BY <2>2, <2>3 DEF CounterIsHighest
<1>7. AnnouncedPassedGate'
  BY <1>1, <1>2, <1>a, <1>b, <1>c, <1>e DEF AnnouncedPassedGate, TypeOK
<1>8. HoldsItsRow'
  <2>1. SUFFICES ASSUME NEW q \in Operators
                 PROVE  /\ op'[q].pc \in {"registered", "uploaded", "rollback"} => op'[q].patch \in DOMAIN patches'
                        /\ op'[q].pc \in {"registered", "uploaded"} =>
                              /\ patches'[op'[q].patch].version = op'[q].version
                              /\ patches'[op'[q].patch].artifact = op'[q].artifact
                              /\ \A k : k = op'[q].patch =>
                                    ScopeOf(k)' = <<op'[q].runtime, op'[q].channel>>
    BY DEF HoldsItsRow, RowBound, ScopeOf
  <2>2. CASE q = o
    <3>1. CASE op'[o] = NoInvocation
      BY <2>2, <3>1 DEF NoInvocation
    <3>2. CASE op'[o] # NoInvocation
      <4>1. /\ op'[o].patch = new /\ op'[o].version = op[o].version
            /\ op'[o].artifact = op[o].artifact
            /\ op'[o].runtime = op[o].runtime /\ op'[o].channel = op[o].channel
        BY <1>0, <1>1, <3>2, RegisterInvocation
      <4>2. QED
        BY <2>2, <4>1, <1>0, <1>a, <1>c
    <3>3. QED
      BY <3>1, <3>2
  <2>3. CASE q # o
    <3>1. op'[q] = op[q]
      BY <1>1, <2>3, <1>0, RegisterInvocation
    <3>2. QED
      BY <1>1, <3>1, <1>a, <1>b DEF HoldsItsRow, RowBound
  <2>4. QED
    BY <2>2, <2>3
<1>9. QED
  BY <1>3, <1>5, <1>6, <1>7, <1>8 DEF TableInv

(* Replacing one invocation by a typed one that is bound to its row. *)
LEMMA ReplaceInvocation ==
    ASSUME TableInv, NEW o \in Operators, NEW v \in Invocation, RowBound(v),
           op' = [op EXCEPT ![o] = v]
    PROVE  op' \in [Operators -> Invocation] /\ \A q \in Operators : RowBound(op'[q])
<1>1. op \in [Operators -> Invocation] /\ \A q \in Operators : RowBound(op[q])
  BY DEF TableInv, TypeOK, HoldsItsRow
<1>2. op' \in [Operators -> Invocation]
  BY <1>1
<1>3. \A q \in Operators : op'[q] = IF q = o THEN v ELSE op[q]
  BY <1>1
<1>4. QED
  BY <1>1, <1>2, <1>3

LEMMA NoInvocationBound == NoInvocation \in Invocation /\ RowBound(NoInvocation)
BY NoInvocationType DEF NoInvocation, RowBound

(* The steps that leave the table and the announcements alone. *)
LEMMA QuietTable ==
    ASSUME TableInv, UNCHANGED <<patches, allocated, announced>>,
           op' \in [Operators -> Invocation],
           \A o \in Operators : RowBound(op'[o]),
           device' \in [Scopes -> [version : Nat, content : Contents]]
    PROVE  TableInv'
<1>1. MarksOnly
  BY DEF MarksOnly, TableInv, TypeOK
<1>2. announced' \subseteq DOMAIN patches
  BY DEF TableInv, TypeOK
<1>3. \A i \in announced' : patches[i].version = patches[i].number /\ patches[i].artifact # Base
  BY DEF TableInv, AnnouncedPassedGate
<1>4. QED
  BY <1>1, <1>2, <1>3, MarksKeepTable

LEMMA PlanTable ==
    ASSUME TableInv, NEW o \in Operators, NEW r \in Runtimes, NEW l \in Releases,
           NEW a \in Artifacts, NEW c \in PublishChannels, Plan(o, r, l, a, c)
    PROVE  TableInv'
<1> DEFINE v == [pc |-> "planned", runtime |-> r, channel |-> c, release |-> l,
                 artifact |-> a, version |-> 0, patch |-> 0, listed |-> 0]
<1>2. v \in Invocation /\ RowBound(v)
  BY ConstantsAssumption DEF Invocation, Contents, RowBound
<1>3. op' = [op EXCEPT ![o] = v] /\ UNCHANGED <<patches, allocated, device, announced>>
  BY DEF Plan
<1> HIDE DEF v
<1>4. QED
  BY <1>2, <1>3, ReplaceInvocation, QuietTable DEF TableInv, TypeOK

LEMMA SignRollbackTable ==
    ASSUME TableInv, NEW o \in Operators, NEW r \in Runtimes, NEW l \in Releases,
           SignRollback(o, r, l, BaselineChannel)
    PROVE  TableInv'
<1> DEFINE v == [pc |-> "signed", runtime |-> r, channel |-> BaselineChannel, release |-> l,
                 artifact |-> Base, version |-> 0, patch |-> 0, listed |-> Len(patches)]
<1>2. Len(patches) \in Nat
  BY DEF TableInv, TypeOK
<1>3. v \in Invocation /\ RowBound(v)
  BY <1>2, ConstantsAssumption DEF Invocation, Contents, RowBound
<1>4. op' = [op EXCEPT ![o] = v] /\ UNCHANGED <<patches, allocated, device, announced>>
  BY DEF SignRollback, ReservedRollbackVersion
<1> HIDE DEF v
<1>5. QED
  BY <1>3, <1>4, ReplaceInvocation, QuietTable DEF TableInv, TypeOK

(* Signing changes three fields of an invocation and keeps the others. *)
SignedAs(i, n, m) == [i EXCEPT !.pc = "signed", !.version = n, !.listed = m]

LEMMA SignedInvocation ==
    ASSUME NEW i \in Invocation, NEW n \in Nat, NEW m \in Nat
    PROVE  /\ SignedAs(i, n, m) \in Invocation
           /\ SignedAs(i, n, m).pc = "signed"
           /\ SignedAs(i, n, m).version = n
           /\ SignedAs(i, n, m).listed = m
           /\ SignedAs(i, n, m).artifact = i.artifact
           /\ SignedAs(i, n, m).runtime = i.runtime
           /\ SignedAs(i, n, m).channel = i.channel
<1> DEFINE a == [i EXCEPT !.pc = "signed"]
           b == [a EXCEPT !.version = n]
           c == [b EXCEPT !.listed = m]
<1>1. c = SignedAs(i, n, m)
  BY DEF SignedAs
<1>2. /\ a \in Invocation /\ a.pc = "signed"
      /\ a.artifact = i.artifact /\ a.runtime = i.runtime /\ a.channel = i.channel
  BY DEF Invocation
<1> HIDE DEF a
<1>3. /\ b \in Invocation /\ b.pc = "signed" /\ b.version = n
      /\ b.artifact = i.artifact /\ b.runtime = i.runtime /\ b.channel = i.channel
  BY <1>2 DEF Invocation
<1> HIDE DEF b
<1>4. /\ c \in Invocation /\ c.pc = "signed" /\ c.version = n /\ c.listed = m
      /\ c.artifact = i.artifact /\ c.runtime = i.runtime /\ c.channel = i.channel
  BY <1>3 DEF Invocation
<1> HIDE DEF c
<1>5. QED
  BY <1>1, <1>4

(* A resolved invocation keeps its target and is signed for a version that *)
(* is a natural number.                                                    *)
LEMMA ResolveInvocation ==
    ASSUME TableInv, NEW o \in Operators, NEW flag \in {0} \cup PatchVersions,
           ResolveVersion(o, flag), op'[o] # NoInvocation
    PROVE  LET next == allocated[<<op[o].runtime, BaselineChannel>>] + 1
               v == [op[o] EXCEPT !.pc = "signed",
                         !.version = IF flag = 0 THEN next ELSE flag,
                         !.listed = Len(patches)]
           IN  /\ op' = [op EXCEPT ![o] = v]
               /\ (IF flag = 0 THEN next ELSE flag) >= next
               /\ v \in Invocation
<1> DEFINE next == allocated[<<op[o].runtime, BaselineChannel>>] + 1
           version == IF flag = 0 THEN next ELSE flag
           v == [op[o] EXCEPT !.pc = "signed", !.version = version, !.listed = Len(patches)]
           existing == ScopedPatches(patches, op[o].runtime, BaselineChannel)
<1>1. op[o] \in Invocation /\ Len(patches) \in Nat
  BY DEF TableInv, TypeOK
<1>2. NextManifestVersion(patches, existing) = next
  BY <1>1, ConstantsAssumption, ListingHasTop DEF TableInv, Invocation
<1>3. op' = [op EXCEPT ![o] = IF ValidateManifestVersion(version, patches, existing)
                              THEN v ELSE NoInvocation]
  BY <1>2 DEF ResolveVersion, Listing
<1>4. ValidateManifestVersion(version, patches, existing)
  <2> HIDE DEF v, version, existing
  <2>1. QED
    BY <1>3 DEF TableInv, TypeOK
<1>5. op' = [op EXCEPT ![o] = v]
  BY <1>3, <1>4
<1>6. version >= next
  BY <1>2, <1>4 DEF ValidateManifestVersion
<1>7. version \in Nat
  <2>1. <<op[o].runtime, BaselineChannel>> \in Scopes
    BY <1>1, ConstantsAssumption DEF Invocation, Scopes
  <2>2. QED
    BY <2>1, ConstantsAssumption DEF TableInv, TypeOK
<1>8. v \in Invocation
  <2>1. v = SignedAs(op[o], version, Len(patches))
    BY DEF SignedAs
  <2> HIDE DEF version, v
  <2>2. QED
    BY <1>1, <1>7, <2>1, SignedInvocation
<1>9. QED
  BY <1>5, <1>6, <1>8

LEMMA ResolveTable ==
    ASSUME TableInv, NEW o \in Operators, NEW flag \in {0} \cup PatchVersions,
           ResolveVersion(o, flag)
    PROVE  TableInv'
<1>1. UNCHANGED <<patches, allocated, device, announced>> /\ op[o].pc = "planned"
  BY DEF ResolveVersion
<1>2. CASE op'[o] = NoInvocation
  <2>1. op' = [op EXCEPT ![o] = NoInvocation]
    BY <1>2 DEF ResolveVersion, TableInv, TypeOK
  <2>2. QED
    BY <1>1, <2>1, NoInvocationBound, ReplaceInvocation, QuietTable DEF TableInv, TypeOK
<1>3. CASE op'[o] # NoInvocation
  <2>1. PICK v \in Invocation : op' = [op EXCEPT ![o] = v] /\ v.pc = "signed"
    <3> DEFINE next == allocated[<<op[o].runtime, BaselineChannel>>] + 1
               version == IF flag = 0 THEN next ELSE flag
               v == [op[o] EXCEPT !.pc = "signed", !.version = version, !.listed = Len(patches)]
    <3>1. op' = [op EXCEPT ![o] = v] /\ v \in Invocation
      BY <1>3, ResolveInvocation
    <3>2. v.pc = "signed"
      BY DEF TableInv, TypeOK, Invocation
    <3> HIDE DEF v
    <3>3. QED
      BY <3>1, <3>2
  <2>2. RowBound(v)
    BY <2>1 DEF RowBound
  <2>3. QED
    BY <1>1, <2>1, <2>2, ReplaceInvocation, QuietTable DEF TableInv, TypeOK
<1>4. QED
  BY <1>2, <1>3

LEMMA UploadTable ==
    ASSUME TableInv, NEW o \in Operators, NEW b \in BOOLEAN, Upload(o, b)
    PROVE  TableInv'
<1>1. MarksOnly
  BY UploadMarks DEF TableInv
<1>2. UNCHANGED <<allocated, device, announced>> /\ op[o].pc = "registered"
  BY DEF Upload
<1>3. op[o] \in Invocation /\ RowBound(op[o])
  BY DEF TableInv, TypeOK, HoldsItsRow
<1>4. PICK v \in Invocation : op' = [op EXCEPT ![o] = v] /\ RowBound(v)
  <2>1. CASE b
    <3> DEFINE v == [op[o] EXCEPT !.pc = "uploaded"]
    <3>1. v \in Invocation
      BY <1>3 DEF Invocation
    <3>2. /\ v.patch = op[o].patch /\ v.version = op[o].version /\ v.artifact = op[o].artifact
          /\ v.runtime = op[o].runtime /\ v.channel = op[o].channel
      BY <1>3 DEF Invocation
    <3>3. op' = [op EXCEPT ![o] = v]
      BY <2>1 DEF Upload
    <3> HIDE DEF v
    <3>4. RowBound(v)
      BY <1>2, <1>3, <3>2 DEF RowBound
    <3>5. QED
      BY <3>1, <3>3, <3>4
  <2>2. CASE ~b
    <3>1. op' = [op EXCEPT ![o] = NoInvocation]
      BY <2>2 DEF Upload
    <3>2. QED
      BY <3>1, NoInvocationBound
  <2>3. QED
    BY <2>1, <2>2
<1>5. op' \in [Operators -> Invocation] /\ \A q \in Operators : RowBound(op'[q])
  BY <1>4, ReplaceInvocation
<1>6. /\ announced' \subseteq DOMAIN patches
      /\ \A i \in announced' : patches[i].version = patches[i].number /\ patches[i].artifact # Base
  BY <1>2 DEF TableInv, TypeOK, AnnouncedPassedGate
<1>7. QED
  BY <1>1, <1>2, <1>5, <1>6, MarksKeepTable DEF TableInv, TypeOK

LEMMA PostRollbackTable ==
    ASSUME TableInv, NEW o \in Operators, PostRollback(o)
    PROVE  TableInv'
<1>1. MarksOnly
  BY PostRollbackMarks DEF TableInv
<1>2. UNCHANGED <<allocated, device, announced>> /\ op' = [op EXCEPT ![o] = NoInvocation]
  BY DEF PostRollback
<1>3. op' \in [Operators -> Invocation] /\ \A q \in Operators : RowBound(op'[q])
  BY <1>2, NoInvocationBound, ReplaceInvocation
<1>4. /\ announced' \subseteq DOMAIN patches
      /\ \A i \in announced' : patches[i].version = patches[i].number /\ patches[i].artifact # Base
  BY <1>2 DEF TableInv, TypeOK, AnnouncedPassedGate
<1>5. QED
  BY <1>1, <1>2, <1>3, <1>4, MarksKeepTable DEF TableInv, TypeOK

(* The gate is what lets a patch into the announcements. *)
LEMMA ReportTable ==
    ASSUME TableInv, NEW o \in Operators, Report(o)
    PROVE  TableInv'
<1>1. op' = [op EXCEPT ![o] = NoInvocation] /\ UNCHANGED <<patches, allocated, device>>
  BY DEF Report
<1>2. op' \in [Operators -> Invocation] /\ \A q \in Operators : RowBound(op'[q])
  BY <1>1, NoInvocationBound, ReplaceInvocation
<1>3. RowBound(op[o]) /\ op[o].pc = "uploaded"
  BY DEF TableInv, HoldsItsRow, Report
<1>4. /\ announced' \subseteq DOMAIN patches
      /\ \A i \in announced' : patches[i].version = patches[i].number /\ patches[i].artifact # Base
  <2>1. /\ announced \subseteq DOMAIN patches
        /\ \A i \in announced : patches[i].version = patches[i].number /\ patches[i].artifact # Base
    BY DEF TableInv, TypeOK, AnnouncedPassedGate
  <2>2. \/ announced' = announced
        \/ /\ announced' = announced \cup {op[o].patch}
           /\ op[o].artifact # Base
           /\ patches[op[o].patch].number = op[o].version
    BY DEF Report, AssertAllocatedVersionMatches
  <2>3. QED
    BY <1>3, <2>1, <2>2 DEF RowBound
<1>5. MarksOnly
  BY <1>1 DEF MarksOnly, TableInv, TypeOK
<1>6. QED
  BY <1>1, <1>2, <1>4, <1>5, MarksKeepTable DEF TableInv, TypeOK

LEMMA ResolveRollbackTable ==
    ASSUME TableInv, NEW o \in Operators, NEW c \in Channels, NEW l \in Releases,
           ResolveRollback(o, c, l)
    PROVE  TableInv'
<1>1. UNCHANGED <<patches, allocated, device, announced>>
  BY DEF ResolveRollback
<1>2. PICK newest \in DOMAIN patches :
         op' = [op EXCEPT ![o] = [NoInvocation EXCEPT !.pc = "rollback", !.patch = newest]]
  BY DEF ResolveRollback
<1> DEFINE half == [NoInvocation EXCEPT !.pc = "rollback"]
           v == [half EXCEPT !.patch = newest]
<1>3. op' = [op EXCEPT ![o] = v]
  BY <1>2
<1>4. half \in Invocation /\ half.pc = "rollback"
  BY NoInvocationType DEF Invocation
<1> HIDE DEF half
<1>5. v \in Invocation /\ v.pc = "rollback" /\ v.patch = newest
  BY <1>4, RowType DEF Invocation, TableInv
<1> HIDE DEF v
<1>6. RowBound(v)
  BY <1>5 DEF RowBound
<1>7. QED
  BY <1>1, <1>3, <1>5, <1>6, ReplaceInvocation, QuietTable DEF TableInv, TypeOK

LEMMA GiveUpTable ==
    ASSUME TableInv, NEW o \in Operators, RegisterRefused(o) \/ Abandon(o)
    PROVE  TableInv'
<1>1. op' = [op EXCEPT ![o] = NoInvocation] /\ UNCHANGED <<patches, allocated, device, announced>>
  BY DEF RegisterRefused, Abandon
<1>2. QED
  BY <1>1, NoInvocationBound, ReplaceInvocation, QuietTable DEF TableInv, TypeOK

LEMMA DevicePollTable ==
    ASSUME TableInv, NEW s \in Scopes, DevicePoll(s)
    PROVE  TableInv'
<1>1. UNCHANGED <<patches, allocated, op, announced>>
  BY DEF DevicePoll
<1>2. PICK i \in DOMAIN patches :
         device' = [device EXCEPT ![s] =
            [version |-> patches[i].version, content |-> patches[i].artifact]]
  BY DEF DevicePoll
<1>3. patches[i] \in Patch
  BY RowType DEF TableInv
<1>4. device' \in [Scopes -> [version : Nat, content : Contents]]
  BY <1>2, <1>3 DEF TableInv, TypeOK, Patch
<1>5. QED
  BY <1>1, <1>4, QuietTable DEF TableInv, TypeOK, HoldsItsRow

LEMMA NextTable == TableInv /\ [Next]_vars => TableInv'
<1> SUFFICES ASSUME TableInv, [Next]_vars PROVE TableInv'
  OBVIOUS
<1>1. ASSUME NEW o \in Operators, Publish(o) PROVE TableInv'
  BY <1>1, PlanTable, ResolveTable, RegisterTable, GiveUpTable, UploadTable, ReportTable
     DEF Publish
<1>2. ASSUME NEW o \in Operators, Rollback(o) PROVE TableInv'
  BY <1>2, SignRollbackTable, ResolveRollbackTable, PostRollbackTable DEF Rollback
<1>3. ASSUME NEW o \in Operators, Abandon(o) PROVE TableInv'
  BY <1>3, GiveUpTable
<1>4. ASSUME NEW s \in Scopes, DevicePoll(s) PROVE TableInv'
  BY <1>4, DevicePollTable
<1>5. CASE UNCHANGED vars
  BY <1>5, QuietTable DEF vars, TableInv, TypeOK, HoldsItsRow
<1>6. QED
  BY <1>1, <1>2, <1>3, <1>4, <1>5 DEF Next

(* The table invariant holds in every execution, whatever the flags. *)
THEOREM TableInvariant == Spec => []TableInv
<1>1. QED
  BY InitTable, NextTable, PTL DEF Spec

(* Every variable keeps its type: registrations, uploads and rollbacks     *)
(* always name rows that exist.                                            *)
THEOREM TypeCorrect == Spec => []TypeOK
<1>1. TableInv => TypeOK
  BY DEF TableInv
<1>2. QED
  BY <1>1, TableInvariant, PTL

(* Announced patches of one scope carry versions that rise with the order  *)
(* of registration, for any number of operators, crashes and lost answers, *)
(* and whatever --patch-version and --channel say: the gate compares the   *)
(* signed version with the allocated number, and numbers rise.             *)
THEOREM AnnouncedRise == Spec => []AnnouncedVersionsIncrease
<1>1. TableInv => AnnouncedVersionsIncrease
  <2> SUFFICES ASSUME TableInv, NEW i \in announced, NEW j \in announced,
                      i < j, ScopeOf(i) = ScopeOf(j)
               PROVE  patches[i].version < patches[j].version
    BY DEF AnnouncedVersionsIncrease
  <2>1. i \in DOMAIN patches /\ j \in DOMAIN patches
    BY DEF TableInv, TypeOK
  <2>2. patches[i].number < patches[j].number
    BY <2>1 DEF TableInv, NumbersIncrease
  <2>3. QED
    BY <2>2 DEF TableInv, AnnouncedPassedGate
<1>2. QED
  BY <1>1, TableInvariant, PTL

-----------------------------------------------------------------------------
(***************************************************************************)
(* 2.  What the version rules guarantee when an operator publishes in the  *)
(* channel of the baseline and picks no version above the first one.       *)
(*                                                                         *)
(* Both parts of DefaultFlags are needed: a publication in a second channel*)
(* is predicted from the baseline's listing and misses without a race, and *)
(* a --patch-version above the next number is ahead by construction.       *)
(***************************************************************************)
DefaultFlags ==
    /\ PublishChannels = {BaselineChannel}
    /\ PatchVersions \subseteq {0, 1}

RowScope(table, i) == <<table[i].runtime, table[i].channel>>

(* What an invocation v knows of the table and the counters, by phase.     *)
(* The table and the counters are parameters so that the same words can be *)
(* said of both ends of a step.                                            *)
Foresight(v, table, counter) ==
    LET scope == <<v.runtime, v.channel>>
    IN  /\ v.pc = "planned" => v.channel = BaselineChannel /\ v.artifact # Base
        /\ v.pc = "signed" /\ v.artifact = Base => v.version = 0
        /\ v.pc = "signed" /\ v.artifact # Base =>
              /\ v.listed <= Len(table)
              /\ v.version <= counter[scope] + 1
              /\ \A i \in 1 .. v.listed :
                    RowScope(table, i) = scope => table[i].number < v.version
              /\ \/ v.version = counter[scope] + 1
                 \/ \E i \in (v.listed + 1) .. Len(table) : RowScope(table, i) = scope
        /\ v.pc \in {"registered", "uploaded"} /\ v.artifact # Base =>
              \/ v.version = table[v.patch].number
              \/ \E i \in (v.listed + 1) .. (v.patch - 1) : RowScope(table, i) = scope

LaneInv ==
    /\ SignedNotAhead
    /\ \A o \in Operators : Foresight(op[o], patches, allocated)

-----------------------------------------------------------------------------
LEMMA InitLane == Init => LaneInv
<1> SUFFICES ASSUME Init PROVE LaneInv
  OBVIOUS
<1>1. SignedNotAhead
  BY DEF Init, SignedNotAhead
<1>2. Foresight(NoInvocation, patches, allocated)
  BY DEF Foresight, NoInvocation
<1>3. \A o \in Operators : op[o] = NoInvocation
  BY DEF Init
<1>4. QED
  BY <1>1, <1>2, <1>3 DEF LaneInv

LEMMA IdleForesight == \A table, counter : Foresight(NoInvocation, table, counter)
BY DEF Foresight, NoInvocation

(* Setting marks and leaving the counters alone disturbs no invocation.    *)
LEMMA MarksKeepForesight ==
    ASSUME TypeOK, MarksOnly, UNCHANGED allocated, NEW v \in Invocation, RowBound(v),
           Foresight(v, patches, allocated)
    PROVE  Foresight(v, patches', allocated')
<1>1. \A i \in DOMAIN patches : RowScope(patches', i) = RowScope(patches, i)
                               /\ patches'[i].number = patches[i].number
  BY DEF MarksOnly, RowScope
<1>2. DOMAIN patches = 1 .. Len(patches) /\ Len(patches) \in Nat /\ Len(patches') = Len(patches)
  BY DEF TypeOK, MarksOnly
<1>3. /\ v.listed \in Nat /\ v.patch \in Nat
      /\ v.pc \in {"registered", "uploaded"} => v.patch \in 1 .. Len(patches)
  BY <1>2 DEF Invocation, RowBound
<1>4. PICK scope : scope = <<v.runtime, v.channel>> /\ allocated'[scope] = allocated[scope]
  OBVIOUS
<1>5. ASSUME v.pc = "signed", v.artifact # Base
      PROVE  /\ v.listed <= Len(patches')
             /\ v.version <= allocated'[scope] + 1
             /\ \A i \in 1 .. v.listed :
                   RowScope(patches', i) = scope => patches'[i].number < v.version
             /\ \/ v.version = allocated'[scope] + 1
                \/ \E i \in (v.listed + 1) .. Len(patches') : RowScope(patches', i) = scope
  <2>1. /\ v.listed <= Len(patches)
        /\ v.version <= allocated[scope] + 1
        /\ \A i \in 1 .. v.listed :
              RowScope(patches, i) = scope => patches[i].number < v.version
        /\ \/ v.version = allocated[scope] + 1
           \/ \E i \in (v.listed + 1) .. Len(patches) : RowScope(patches, i) = scope
    BY <1>4, <1>5 DEF Foresight
  <2>2. QED
    BY <1>1, <1>2, <1>3, <1>4, <2>1
<1>6. ASSUME v.pc \in {"registered", "uploaded"}, v.artifact # Base
      PROVE  \/ v.version = patches'[v.patch].number
             \/ \E i \in (v.listed + 1) .. (v.patch - 1) : RowScope(patches', i) = scope
  <2>1. \/ v.version = patches[v.patch].number
        \/ \E i \in (v.listed + 1) .. (v.patch - 1) : RowScope(patches, i) = scope
    BY <1>4, <1>6 DEF Foresight
  <2>2. QED
    BY <1>1, <1>2, <1>3, <1>6, <2>1
<1>7. QED
  BY <1>4, <1>5, <1>6 DEF Foresight

(* Another row raises its scope's counter and lies behind every listing    *)
(* taken so far: a prediction it overtakes has met a real race.            *)
LEMMA AppendKeepsForesight ==
    ASSUME TypeOK, NEW q \in Operators, Appends(q), NEW v \in Invocation, RowBound(v),
           Foresight(v, patches, allocated)
    PROVE  Foresight(v, patches', allocated')
<1>0. PICK new, scope, mine : /\ new = Len(patches) + 1
                              /\ scope = <<op[q].runtime, op[q].channel>>
                              /\ mine = <<v.runtime, v.channel>>
  OBVIOUS
<1>1. /\ DOMAIN patches = 1 .. (new - 1) /\ new \in Nat /\ new = Len(patches) + 1
      /\ Len(patches') = new /\ scope \in Scopes
      /\ \A i \in DOMAIN patches : RowScope(patches', i) = RowScope(patches, i)
                                  /\ patches'[i].number = patches[i].number
  BY <1>0 DEF Appends, RowScope
<1>2. RowScope(patches', new) = scope
  BY <1>0 DEF Appends, RowScope, ScopeOf
<1>3. mine \in Scopes /\ v.listed \in Nat /\ v.patch \in Nat /\ v.version \in Nat
  BY <1>0 DEF Invocation, Scopes
<1>4. /\ allocated[mine] \in Nat
      /\ mine # scope => allocated'[mine] = allocated[mine]
      /\ mine = scope => allocated'[mine] = allocated[mine] + 1
  BY <1>0, <1>1, <1>3 DEF Appends, TypeOK
<1>5. v.pc \in {"registered", "uploaded"} => v.patch \in 1 .. (new - 1)
  BY <1>1 DEF RowBound
<1>6. ASSUME v.pc = "signed", v.artifact # Base
      PROVE  /\ v.listed <= new
             /\ v.version <= allocated'[mine] + 1
             /\ \A i \in 1 .. v.listed :
                   RowScope(patches', i) = mine => patches'[i].number < v.version
             /\ \/ v.version = allocated'[mine] + 1
                \/ \E i \in (v.listed + 1) .. new : RowScope(patches', i) = mine
  <2>1. /\ v.listed <= new - 1
        /\ v.version <= allocated[mine] + 1
        /\ \A i \in 1 .. v.listed :
              RowScope(patches, i) = mine => patches[i].number < v.version
        /\ \/ v.version = allocated[mine] + 1
           \/ \E i \in (v.listed + 1) .. (new - 1) : RowScope(patches, i) = mine
    BY <1>0, <1>1, <1>6 DEF Foresight
  <2>2. /\ v.listed <= new
        /\ v.version <= allocated'[mine] + 1
        /\ \A i \in 1 .. v.listed :
              RowScope(patches', i) = mine => patches'[i].number < v.version
    <3>1. v.listed <= new /\ v.version <= allocated'[mine] + 1
      BY <1>1, <1>3, <1>4, <2>1
    <3>2. ASSUME NEW i \in 1 .. v.listed, RowScope(patches', i) = mine
          PROVE  patches'[i].number < v.version
      <4>1. i \in DOMAIN patches
        BY <1>1, <1>3, <2>1
      <4>2. QED
        BY <1>1, <2>1, <3>2, <4>1
    <3>3. QED
      BY <3>1, <3>2
  <2>3. CASE mine = scope
    BY <2>1, <2>2, <2>3, <1>1, <1>2, <1>3
  <2>4. CASE mine # scope
    <3>1. CASE v.version = allocated[mine] + 1
      BY <1>4, <2>2, <2>4, <3>1
    <3>2. CASE \E i \in (v.listed + 1) .. (new - 1) : RowScope(patches, i) = mine
      <4>1. PICK i \in (v.listed + 1) .. (new - 1) : RowScope(patches, i) = mine
        BY <3>2
      <4>2. i \in DOMAIN patches /\ i \in (v.listed + 1) .. new
        BY <1>1, <1>3, <4>1
      <4>3. RowScope(patches', i) = mine
        BY <1>1, <4>1, <4>2
      <4>4. QED
        BY <2>2, <4>2, <4>3
    <3>3. QED
      BY <2>1, <3>1, <3>2
  <2>5. QED
    BY <2>3, <2>4
<1>7. ASSUME v.pc \in {"registered", "uploaded"}, v.artifact # Base
      PROVE  \/ v.version = patches'[v.patch].number
             \/ \E i \in (v.listed + 1) .. (v.patch - 1) : RowScope(patches', i) = mine
  <2>1. \/ v.version = patches[v.patch].number
        \/ \E i \in (v.listed + 1) .. (v.patch - 1) : RowScope(patches, i) = mine
    BY <1>0, <1>7 DEF Foresight
  <2>2. QED
    <3>1. v.patch \in DOMAIN patches /\ patches'[v.patch].number = patches[v.patch].number
      BY <1>1, <1>5, <1>7
    <3>2. ASSUME NEW i \in (v.listed + 1) .. (v.patch - 1), RowScope(patches, i) = mine
          PROVE  RowScope(patches', i) = mine
      <4>1. i \in DOMAIN patches
        BY <1>1, <1>3, <1>5, <1>7
      <4>2. QED
        BY <1>1, <3>2, <4>1
    <3>3. QED
      BY <2>1, <3>1, <3>2
<1>8. QED
  BY <1>0, <1>1, <1>6, <1>7 DEF Foresight

-----------------------------------------------------------------------------
(* The steps *)

(* An operator that gives up, or starts anew, has nothing to foresee, and  *)
(* the others see the same table.                                          *)
LEMMA QuietLane ==
    ASSUME TableInv, LaneInv, MarksOnly, UNCHANGED allocated, NEW o \in Operators,
           NEW v \in Invocation, op' = [op EXCEPT ![o] = v],
           Foresight(v, patches', allocated')
    PROVE  LaneInv'
<1>1. SignedNotAhead'
  <2>1. SignedNotAhead
    BY DEF LaneInv
  <2>2. QED
    BY <2>1 DEF SignedNotAhead, MarksOnly
<1>2. ASSUME NEW q \in Operators PROVE Foresight(op'[q], patches', allocated')
  <2>1. CASE q = o
    BY <2>1 DEF TableInv, TypeOK
  <2>2. CASE q # o
    <3>1. op'[q] = op[q] /\ op[q] \in Invocation /\ RowBound(op[q])
      BY <2>2 DEF TableInv, TypeOK, HoldsItsRow
    <3>2. Foresight(op[q], patches, allocated)
      BY DEF LaneInv
    <3>3. Foresight(op[q], patches', allocated')
      BY <3>1, <3>2, MarksKeepForesight DEF TableInv
    <3>4. QED
      BY <3>1, <3>3
  <2>3. QED
    BY <2>1, <2>2
<1>3. QED
  BY <1>1, <1>2 DEF LaneInv

LEMMA SameTableMarks ==
    ASSUME TypeOK, UNCHANGED patches PROVE MarksOnly
BY DEF MarksOnly, TypeOK

LEMMA PlanLane ==
    ASSUME DefaultFlags, TableInv, LaneInv, NEW o \in Operators, NEW r \in Runtimes,
           NEW l \in Releases, NEW a \in Artifacts, NEW c \in PublishChannels,
           Plan(o, r, l, a, c)
    PROVE  LaneInv'
<1> DEFINE v == [pc |-> "planned", runtime |-> r, channel |-> c, release |-> l,
                 artifact |-> a, version |-> 0, patch |-> 0, listed |-> 0]
<1>1. v \in Invocation
  BY ConstantsAssumption DEF Invocation, Contents
<1>2. Foresight(v, patches', allocated')
  BY ConstantsAssumption DEF Foresight, DefaultFlags
<1>3. op' = [op EXCEPT ![o] = v] /\ UNCHANGED <<patches, allocated>>
  BY DEF Plan
<1> HIDE DEF v
<1>4. QED
  BY <1>1, <1>2, <1>3, SameTableMarks, QuietLane DEF TableInv

LEMMA SignRollbackLane ==
    ASSUME TableInv, LaneInv, NEW o \in Operators, NEW r \in Runtimes, NEW l \in Releases,
           SignRollback(o, r, l, BaselineChannel)
    PROVE  LaneInv'
<1> DEFINE v == [pc |-> "signed", runtime |-> r, channel |-> BaselineChannel, release |-> l,
                 artifact |-> Base, version |-> 0, patch |-> 0, listed |-> Len(patches)]
<1>0. Len(patches) \in Nat
  BY DEF TableInv, TypeOK
<1>1. v \in Invocation
  BY <1>0, ConstantsAssumption DEF Invocation, Contents
<1>2. Foresight(v, patches', allocated')
  BY DEF Foresight
<1>3. op' = [op EXCEPT ![o] = v] /\ UNCHANGED <<patches, allocated>>
  BY DEF SignRollback, ReservedRollbackVersion
<1> HIDE DEF v
<1>4. QED
  BY <1>1, <1>2, <1>3, SameTableMarks, QuietLane DEF TableInv

(* The prediction: at the moment of the listing it is the next number of   *)
(* the very scope the patch will be registered in.                         *)
LEMMA ResolveLane ==
    ASSUME DefaultFlags, TableInv, LaneInv, NEW o \in Operators,
           NEW flag \in {0} \cup PatchVersions, ResolveVersion(o, flag)
    PROVE  LaneInv'
<1>1. UNCHANGED <<patches, allocated>> /\ op[o].pc = "planned"
  BY DEF ResolveVersion
<1>2. op[o] \in Invocation /\ TypeOK /\ Foresight(op[o], patches, allocated)
  BY DEF TableInv, TypeOK, LaneInv
<1>3. MarksOnly
  BY <1>1, <1>2, SameTableMarks
<1>4. CASE op'[o] = NoInvocation
  <2>1. op' = [op EXCEPT ![o] = NoInvocation]
    BY <1>4 DEF ResolveVersion, TableInv, TypeOK
  <2>2. QED
    BY <1>1, <1>3, <2>1, NoInvocationType, IdleForesight, QuietLane
<1>5. CASE op'[o] # NoInvocation
  <2>1. PICK next, scope, chosen :
           /\ scope = <<op[o].runtime, BaselineChannel>> /\ next = allocated[scope] + 1
           /\ chosen = (IF flag = 0 THEN next ELSE flag)
    OBVIOUS
  <2>2. op[o].channel = BaselineChannel /\ op[o].artifact # Base
    BY <1>1, <1>2 DEF Foresight
  <2>3. scope \in Scopes /\ allocated[scope] \in Nat /\ Len(patches) \in Nat
    BY <1>2, <2>1, <2>2 DEF Invocation, Scopes, TypeOK
  <2>4. flag \in {0, 1}
    BY DEF DefaultFlags
  <2>5. PICK w : w = SignedAs(op[o], chosen, Len(patches))
    OBVIOUS
  <2>6. op' = [op EXCEPT ![o] = w] /\ chosen >= next /\ w \in Invocation
    BY <1>5, <2>1, <2>5, ResolveInvocation DEF SignedAs
  <2>7. chosen = allocated[scope] + 1 /\ chosen \in Nat /\ op[o] \in Invocation
    BY <1>2, <2>1, <2>3, <2>4, <2>6
  <2>8. /\ w.pc = "signed" /\ w.version = chosen /\ w.listed = Len(patches)
        /\ w.artifact = op[o].artifact /\ w.runtime = op[o].runtime
        /\ w.channel = op[o].channel
    <3>1. op[o] \in Invocation /\ chosen \in Nat /\ Len(patches) \in Nat
      BY <2>3, <2>7
    <3>2. w.pc = "signed" /\ w.version = chosen /\ w.listed = Len(patches)
      BY ZenonT(30), <2>5, <3>1, SignedInvocation
    <3>3. w.artifact = op[o].artifact
      BY ZenonT(30), <2>5, <3>1, SignedInvocation
    <3>4. w.runtime = op[o].runtime
      BY ZenonT(30), <2>5, <3>1, SignedInvocation
    <3>5. w.channel = op[o].channel
      BY ZenonT(30), <2>5, <3>1, SignedInvocation
    <3>6. QED
      BY <3>2, <3>3, <3>4, <3>5
  <2>9. \A i \in DOMAIN patches : /\ patches[i].number \in Nat
                                  /\ patches[i].number <= allocated[ScopeOf(i)]
    BY <1>2, RowType DEF TableInv, CounterIsHighest, Patch
  <2>10. DOMAIN patches = 1 .. Len(patches)
    BY <1>2 DEF TypeOK
  <2>11. \A i \in 1 .. Len(patches) :
            RowScope(patches, i) = scope => patches[i].number < chosen
    BY <2>3, <2>7, <2>9, <2>10 DEF RowScope, ScopeOf
  <2>12. /\ <<w.runtime, w.channel>> = scope /\ w.artifact # Base
         /\ w.pc = "signed" /\ w.listed = Len(patches) /\ w.version = chosen
    BY <2>1, <2>2, <2>8
  <2>13. Foresight(w, patches, allocated)
    BY <2>3, <2>7, <2>11, <2>12 DEF Foresight
  <2>14. QED
    BY <1>1, <1>3, <2>6, <2>13, QuietLane
<1>6. QED
  BY <1>4, <1>5

(* Registration: the number given is at least the one signed, and above it *)
(* only if the scope gained a row since the listing.                       *)
LEMMA RegisterLane ==
    ASSUME TableInv, LaneInv, NEW o \in Operators, NEW b \in BOOLEAN, Register(o, b)
    PROVE  LaneInv'
<1>0. PICK scope, new : scope = <<op[o].runtime, op[o].channel>> /\ new = Len(patches) + 1
  OBVIOUS
<1>1. /\ scope \in Scopes /\ new \in Nat \ {0} /\ Appends(o)
      /\ DOMAIN patches' = 1 .. new /\ DOMAIN patches = 1 .. (new - 1)
      /\ allocated[scope] \in Nat
  BY <1>0, RegisterAppends DEF Appends
<1>2. \A i \in DOMAIN patches : patches'[i] = patches[i]
  BY <1>1 DEF Appends
<1>3. /\ patches'[new].number = allocated[scope] + 1
      /\ patches'[new].version = op[o].version
  BY <1>0, <1>1 DEF Appends
<1>4. op[o].pc = "signed" /\ op[o] \in Invocation /\ Foresight(op[o], patches, allocated)
  BY DEF Register, TableInv, TypeOK, LaneInv
<1>5. op[o].version <= allocated[scope] + 1
  BY <1>0, <1>1, <1>4 DEF Foresight, Invocation
<1>6. SignedNotAhead'
  <2>1. SignedNotAhead
    BY DEF LaneInv
  <2>2. QED
    BY <1>1, <1>2, <1>3, <1>5, <2>1 DEF SignedNotAhead
<1>7. ASSUME NEW q \in Operators PROVE Foresight(op'[q], patches', allocated')
  <2>1. CASE q # o
    <3>1. op'[q] = op[q] /\ op[q] \in Invocation /\ RowBound(op[q])
      BY <2>1, RegisterInvocation DEF TableInv, TypeOK, HoldsItsRow
    <3>2. Foresight(op[q], patches, allocated)
      BY DEF LaneInv
    <3>3. Foresight(op[q], patches', allocated')
      BY <1>1, <3>1, <3>2, AppendKeepsForesight DEF TableInv
    <3>4. QED
      BY <3>1, <3>3
  <2>2. CASE q = o /\ op'[o] = NoInvocation
    BY <2>2, IdleForesight
  <2>3. CASE q = o /\ op'[o] # NoInvocation
    <3>1. /\ op'[o].pc = "registered" /\ op'[o].patch = new
          /\ op'[o].version = op[o].version /\ op'[o].artifact = op[o].artifact
          /\ op'[o].runtime = op[o].runtime /\ op'[o].channel = op[o].channel
          /\ op'[o].listed = op[o].listed
      BY <1>0, <2>3, RegisterInvocation DEF TableInv
    <3>2. ASSUME op[o].artifact # Base
          PROVE  \/ op[o].version = patches'[new].number
                 \/ \E i \in (op[o].listed + 1) .. (new - 1) : RowScope(patches', i) = scope
      <4>1. \/ op[o].version = allocated[scope] + 1
            \/ \E i \in (op[o].listed + 1) .. (new - 1) : RowScope(patches, i) = scope
        BY <1>0, <1>1, <1>4, <3>2 DEF Foresight
      <4>2. op[o].listed \in Nat
        BY <1>4 DEF Invocation
      <4>3. \A i \in 1 .. (new - 1) : RowScope(patches', i) = RowScope(patches, i)
        BY <1>1, <1>2 DEF RowScope
      <4>4. QED
        BY <1>1, <1>3, <4>1, <4>2, <4>3
    <3>3. QED
      BY <1>0, <2>3, <3>1, <3>2 DEF Foresight
  <2>4. QED
    BY <2>1, <2>2, <2>3
<1>8. QED
  BY <1>6, <1>7 DEF LaneInv

LEMMA UploadLane ==
    ASSUME TableInv, LaneInv, NEW o \in Operators, NEW b \in BOOLEAN, Upload(o, b)
    PROVE  LaneInv'
<1>1. MarksOnly /\ UNCHANGED allocated /\ op[o].pc = "registered"
  BY UploadMarks DEF TableInv, Upload
<1>2. /\ op[o] \in Invocation /\ RowBound(op[o]) /\ Foresight(op[o], patches, allocated)
      /\ TypeOK
  BY DEF TableInv, TypeOK, HoldsItsRow, LaneInv
<1>3. CASE b
  <2> DEFINE v == [op[o] EXCEPT !.pc = "uploaded"]
  <2>1. v \in Invocation
    BY <1>2 DEF Invocation
  <2>2. /\ v.pc = "uploaded" /\ v.patch = op[o].patch /\ v.version = op[o].version
        /\ v.artifact = op[o].artifact /\ v.runtime = op[o].runtime
        /\ v.channel = op[o].channel /\ v.listed = op[o].listed
    BY <1>2 DEF Invocation
  <2>3. op' = [op EXCEPT ![o] = v]
    BY <1>3 DEF Upload
  <2> HIDE DEF v
  <2>4. RowBound(v)
    BY <1>1, <1>2, <2>2 DEF RowBound
  <2>5. Foresight(v, patches, allocated)
    BY <1>1, <1>2, <2>2 DEF Foresight
  <2>6. Foresight(v, patches', allocated')
    BY <1>1, <1>2, <2>1, <2>4, <2>5, MarksKeepForesight
  <2>7. QED
    BY <1>1, <2>1, <2>3, <2>6, QuietLane
<1>4. CASE ~b
  <2>1. op' = [op EXCEPT ![o] = NoInvocation]
    BY <1>4 DEF Upload
  <2>2. QED
    BY <1>1, <2>1, NoInvocationType, IdleForesight, QuietLane
<1>5. QED
  BY <1>3, <1>4

LEMMA ResolveRollbackLane ==
    ASSUME TableInv, LaneInv, NEW o \in Operators, NEW c \in Channels, NEW l \in Releases,
           ResolveRollback(o, c, l)
    PROVE  LaneInv'
<1>1. UNCHANGED <<patches, allocated>>
  BY DEF ResolveRollback
<1>2. PICK newest \in DOMAIN patches :
         op' = [op EXCEPT ![o] = [NoInvocation EXCEPT !.pc = "rollback", !.patch = newest]]
  BY DEF ResolveRollback
<1> DEFINE half == [NoInvocation EXCEPT !.pc = "rollback"]
           v == [half EXCEPT !.patch = newest]
<1>3. op' = [op EXCEPT ![o] = v]
  BY <1>2
<1>4. half \in Invocation /\ half.pc = "rollback"
  BY NoInvocationType DEF Invocation
<1> HIDE DEF half
<1>5. v \in Invocation /\ v.pc = "rollback"
  BY <1>4, RowType DEF Invocation, TableInv
<1> HIDE DEF v
<1>6. Foresight(v, patches', allocated')
  BY <1>5 DEF Foresight
<1>7. QED
  BY <1>1, <1>3, <1>5, <1>6, SameTableMarks, QuietLane DEF TableInv

(* Every step that ends an invocation and at most sets marks. *)
LEMMA EndLane ==
    ASSUME TableInv, LaneInv, NEW o \in Operators,
           \/ RegisterRefused(o) \/ Report(o) \/ PostRollback(o) \/ Abandon(o)
    PROVE  LaneInv'
<1>1. op' = [op EXCEPT ![o] = NoInvocation] /\ UNCHANGED allocated
  BY DEF RegisterRefused, Report, PostRollback, Abandon
<1>2. MarksOnly
  BY PostRollbackMarks, SameTableMarks
     DEF TableInv, RegisterRefused, Report, Abandon
<1>3. QED
  BY <1>1, <1>2, NoInvocationType, IdleForesight, QuietLane

(* A device's poll and a stuttering step see the operators as they are. *)
LEMMA IdleLane ==
    ASSUME LaneInv, UNCHANGED <<patches, allocated, op>>
    PROVE  LaneInv'
BY DEF LaneInv, SignedNotAhead

LEMMA NextLane == DefaultFlags /\ TableInv /\ LaneInv /\ [Next]_vars => LaneInv'
<1> SUFFICES ASSUME DefaultFlags, TableInv, LaneInv, [Next]_vars PROVE LaneInv'
  OBVIOUS
<1>1. ASSUME NEW o \in Operators, Publish(o) PROVE LaneInv'
  BY <1>1, PlanLane, ResolveLane, RegisterLane, EndLane, UploadLane DEF Publish
<1>2. ASSUME NEW o \in Operators, Rollback(o) PROVE LaneInv'
  BY <1>2, SignRollbackLane, ResolveRollbackLane, EndLane DEF Rollback
<1>3. ASSUME NEW o \in Operators, Abandon(o) PROVE LaneInv'
  BY <1>3, EndLane
<1>4. ASSUME NEW s \in Scopes, DevicePoll(s) PROVE LaneInv'
  BY <1>4, IdleLane DEF DevicePoll
<1>5. CASE UNCHANGED vars
  BY <1>5, IdleLane DEF vars
<1>6. QED
  BY <1>1, <1>2, <1>3, <1>4, <1>5 DEF Next

THEOREM LaneInvariant == ASSUME DefaultFlags PROVE Spec => []LaneInv
<1>1. Init => LaneInv
  BY InitLane
<1>2. TableInv /\ LaneInv /\ [Next]_vars => LaneInv'
  BY NextLane
<1>3. QED
  BY <1>1, <1>2, TableInvariant, PTL DEF Spec

-----------------------------------------------------------------------------
(* No signed version runs ahead of the number its patch was given, for any *)
(* number of operators, crashes and lost answers.                          *)
THEOREM NeverAhead == ASSUME DefaultFlags PROVE Spec => []SignedNotAhead
<1>1. LaneInv => SignedNotAhead
  BY DEF LaneInv
<1>2. QED
  BY <1>1, LaneInvariant, PTL

(* A version about to be signed is above the version of every patch that   *)
(* was listed for its scope, and so above whatever a device there may run. *)
THEOREM Fresh == ASSUME DefaultFlags PROVE Spec => []FreshAfterListing
<1>1. TableInv /\ LaneInv => FreshAfterListing
  <2>1. SUFFICES ASSUME TableInv, LaneInv, NEW o \in Operators,
                        op[o].pc = "signed", op[o].artifact # Base,
                        NEW i \in 1 .. op[o].listed,
                        ScopeOf(i) = <<op[o].runtime, op[o].channel>>
                 PROVE  patches[i].version < op[o].version
    BY DEF FreshAfterListing
  <2>2. Foresight(op[o], patches, allocated) /\ op[o] \in Invocation
    BY <2>1 DEF LaneInv, TableInv, TypeOK
  <2>3. op[o].listed <= Len(patches) /\ patches[i].number < op[o].version
    BY <2>1, <2>2 DEF Foresight, RowScope, ScopeOf
  <2>4. i \in DOMAIN patches
    BY <2>1, <2>2, <2>3 DEF TableInv, TypeOK, Invocation
  <2>5. patches[i] \in Patch /\ patches[i].version <= patches[i].number
    BY <2>1, <2>4, RowType DEF TableInv, LaneInv, SignedNotAhead
  <2>6. QED
    BY <2>2, <2>3, <2>5 DEF Patch, Invocation
<1>2. QED
  BY <1>1, TableInvariant, LaneInvariant, PTL

(* A publication that the gate stops has lost a race: some other patch of  *)
(* its scope was registered after its listing and before its own.          *)
THEOREM GateIsRight == ASSUME DefaultFlags PROVE Spec => []GateNamesARealRace
<1>1. TableInv /\ LaneInv => GateNamesARealRace
  <2>1. SUFFICES ASSUME TableInv, LaneInv, NEW o \in Operators,
                        op[o].pc = "uploaded", op[o].artifact # Base,
                        patches[op[o].patch].number # op[o].version
                 PROVE  \E i \in (op[o].listed + 1) .. (op[o].patch - 1) :
                            ScopeOf(i) = ScopeOf(op[o].patch)
    BY DEF GateNamesARealRace, AssertAllocatedVersionMatches
  <2>2. Foresight(op[o], patches, allocated) /\ RowBound(op[o])
    BY <2>1 DEF LaneInv, TableInv, HoldsItsRow
  <2>3. QED
    BY <2>1, <2>2 DEF Foresight, RowBound, RowScope, ScopeOf
<1>2. QED
  BY <1>1, TableInvariant, LaneInvariant, PTL

-----------------------------------------------------------------------------
(* 3.  One operator.  Nothing is registered between the listing and his    *)
(* own registration, so what he signs is what the control plane allocates, *)
(* and a device runs what the row of its version carries, or the base.     *)

OneOperator == \E me : Operators = {me}

SignedTrue(row) == IF row.artifact = Base THEN row.version = 0 ELSE row.version = row.number

RunsRow(running, table, s, i) ==
    /\ RowScope(table, i) = s /\ table[i].uploaded /\ table[i].artifact # Base
    /\ running[s].version = table[i].version /\ running[s].content = table[i].artifact

DeviceTrue(running, table) ==
    \A s \in Scopes :
        \/ running[s].version = 0 /\ running[s].content = Base
        \/ \E i \in DOMAIN table : RunsRow(running, table, s, i)

SoloInv ==
    /\ \A i \in DOMAIN patches : SignedTrue(patches[i])
    /\ \A o \in Operators : op[o].pc = "signed" => op[o].listed = Len(patches)
    /\ DeviceTrue(device, patches)

LEMMA InitSolo == Init => SoloInv
<1> SUFFICES ASSUME Init PROVE SoloInv
  OBVIOUS
<1>1. DOMAIN patches = {} /\ \A o \in Operators : op[o].pc # "signed"
  BY DEF Init, NoInvocation
<1>2. \A s \in Scopes : device[s].version = 0 /\ device[s].content = Base
  BY DEF Init
<1> QED
  BY <1>1, <1>2 DEF SoloInv, DeviceTrue

(* Rows that are added, uploaded or rolled back leave devices as they are. *)
LEMMA RowsKeepDevices ==
    ASSUME SoloInv, UNCHANGED device, DOMAIN patches \subseteq DOMAIN patches',
           \A i \in DOMAIN patches :
              /\ RowScope(patches', i) = RowScope(patches, i)
              /\ patches'[i].artifact = patches[i].artifact /\ patches'[i].version = patches[i].version
              /\ patches[i].uploaded => patches'[i].uploaded
    PROVE  DeviceTrue(device', patches')
<1> SUFFICES ASSUME NEW s \in Scopes, ~(device[s].version = 0 /\ device[s].content = Base)
             PROVE  \E i \in DOMAIN patches' : RunsRow(device', patches', s, i)
  BY DEF DeviceTrue
<1>1. PICK i \in DOMAIN patches : RunsRow(device, patches, s, i)
  BY DEF SoloInv, DeviceTrue
<1>2. i \in DOMAIN patches' /\ RunsRow(device', patches', s, i)
  BY <1>1 DEF RunsRow
<1> QED
  BY <1>2

LEMMA MarksKeepSolo ==
    ASSUME TableInv, SoloInv, MarksOnly, UNCHANGED device,
           \A i \in DOMAIN patches : patches[i].uploaded => patches'[i].uploaded,
           \A o \in Operators : op'[o].pc = "signed" => op'[o].listed = Len(patches)
    PROVE  SoloInv'
<1>1. DeviceTrue(device', patches')
  BY RowsKeepDevices DEF MarksOnly, RowScope
<1>2. \A i \in DOMAIN patches' : SignedTrue(patches'[i])
  BY DEF SoloInv, MarksOnly, SignedTrue
<1> QED
  BY <1>1, <1>2 DEF SoloInv, MarksOnly

LEMMA QuietSolo ==
    ASSUME TableInv, SoloInv, UNCHANGED <<patches, device>>,
           \A o \in Operators : op'[o].pc = "signed" => op'[o].listed = Len(patches)
    PROVE  SoloInv'
BY SameTableMarks, MarksKeepSolo DEF TableInv

(* The number given is the number signed: there was no other registration. *)
LEMMA RegisterSolo ==
    ASSUME TableInv, LaneInv, SoloInv, NEW me \in Operators, \A o \in Operators : o = me, NEW b \in BOOLEAN, Register(me, b)
    PROVE  SoloInv'
<1>0. PICK scope, new : scope = <<op[me].runtime, op[me].channel>> /\ new = Len(patches) + 1
  OBVIOUS
<1>1. /\ scope \in Scopes /\ new \in Nat \ {0} /\ Appends(me) /\ Len(patches) \in Nat
      /\ DOMAIN patches' = 1 .. new /\ DOMAIN patches = 1 .. (new - 1)
      /\ allocated[scope] \in Nat
  BY <1>0, RegisterAppends DEF Appends
<1>2. \A i \in DOMAIN patches : patches'[i] = patches[i]
  BY <1>1 DEF Appends
<1>3. /\ patches'[new].number = allocated[scope] + 1
      /\ patches'[new].version = op[me].version
      /\ patches'[new].artifact = op[me].artifact
  BY <1>0, <1>1 DEF Appends
<1>4. op[me].pc = "signed" /\ Foresight(op[me], patches, allocated) /\ op[me].listed = Len(patches)
  BY DEF Register, LaneInv, SoloInv
<1>5. SignedTrue(patches'[new])
  <2>1. CASE op[me].artifact = Base
    BY <1>3, <1>4, <2>1 DEF Foresight, SignedTrue
  <2>2. CASE op[me].artifact # Base
    <3>1. \/ op[me].version = allocated[scope] + 1
          \/ \E i \in (op[me].listed + 1) .. Len(patches) : RowScope(patches, i) = scope
      BY <1>0, <1>4, <2>2 DEF Foresight
    <3>2. (op[me].listed + 1) .. Len(patches) = {}
      BY <1>1, <1>4
    <3> QED
      BY <1>3, <2>2, <3>1, <3>2 DEF SignedTrue
  <2> QED
    BY <2>1, <2>2
<1>6. \A i \in DOMAIN patches' : SignedTrue(patches'[i])
  BY <1>1, <1>2, <1>5 DEF SoloInv
<1>7. op'[me].pc # "signed"
  <2>1. op'[me] = NoInvocation \/ op'[me].pc = "registered"
    BY RegisterInvocation DEF TableInv
  <2> QED
    BY <2>1 DEF NoInvocation
<1>8. DeviceTrue(device', patches')
  BY <1>1, <1>2, RowsKeepDevices DEF Register, RowScope
<1> QED
  BY <1>6, <1>7, <1>8 DEF SoloInv

LEMMA DevicePollSolo ==
    ASSUME TableInv, SoloInv, NEW s \in Scopes, DevicePoll(s)
    PROVE  SoloInv'
<1>1. PICK i \in DOMAIN patches :
         /\ Served(s, i)
         /\ device' = [device EXCEPT ![s] = [version |-> patches[i].version, content |-> patches[i].artifact]]
         /\ UNCHANGED <<patches, op>>
  BY DEF DevicePoll
<1>2. RowScope(patches, i) = s /\ patches[i].uploaded /\ SignedTrue(patches[i])
  <2>1. s = <<s[1], s[2]>>
    BY DEF Scopes
  <2> QED
    BY <1>1, <2>1 DEF Served, Servable, ScopedPatches, RowScope, SoloInv
<1>3. /\ device'[s].version = patches[i].version /\ device'[s].content = patches[i].artifact
      /\ \A t \in Scopes : t # s => device'[t] = device[t]
  BY <1>1 DEF TableInv, TypeOK
<1>4. \/ device'[s].version = 0 /\ device'[s].content = Base
      \/ RunsRow(device', patches, s, i)
  BY <1>2, <1>3 DEF SignedTrue, RunsRow
<1>5. DeviceTrue(device', patches)
  BY <1>1, <1>3, <1>4 DEF SoloInv, DeviceTrue, RunsRow
<1> QED
  BY <1>1, <1>5 DEF SoloInv

LEMMA NextSolo ==
    ASSUME NEW me, Operators = {me}, TableInv, LaneInv, SoloInv, [Next]_vars
    PROVE  SoloInv'
<1>1. TypeOK /\ HoldsItsRow /\ op \in [Operators -> Invocation] /\ me \in Operators
  BY DEF TableInv, TypeOK
<1>2. ASSUME Publish(me) PROVE SoloInv'
  <2>1. ASSUME NEW r \in Runtimes, NEW l \in Releases, NEW a \in Artifacts, NEW c \in PublishChannels, Plan(me, r, l, a, c)
        PROVE  SoloInv'
    <3>1. op'[me].pc = "planned" /\ UNCHANGED <<patches, device>>
      BY <1>1, <2>1 DEF Plan
    <3> QED
      BY <3>1, QuietSolo
  <2>2. ASSUME NEW flag \in {0} \cup PatchVersions, ResolveVersion(me, flag) PROVE SoloInv'
    <3>1. PICK version, accepted :
             op' = [op EXCEPT ![me] = IF accepted
                       THEN [op[me] EXCEPT !.pc = "signed", !.version = version, !.listed = Len(patches)]
                       ELSE NoInvocation]
      BY <2>2 DEF ResolveVersion
    <3>2. op'[me].pc = "signed" => op'[me].listed = Len(patches)
      BY <1>1, <3>1 DEF Invocation, NoInvocation
    <3> QED
      BY <2>2, <3>2, QuietSolo DEF ResolveVersion
  <2>3. ASSUME NEW b \in BOOLEAN, Register(me, b) PROVE SoloInv'
    BY <2>3, RegisterSolo
  <2>4. ASSUME NEW b \in BOOLEAN, Upload(me, b) PROVE SoloInv'
    <3>1. MarksOnly /\ op[me].patch \in DOMAIN patches /\ patches' = [patches EXCEPT ![op[me].patch].uploaded = TRUE]
      BY <1>1, <2>4, UploadMarks DEF HoldsItsRow, RowBound, Upload
    <3>2. op'[me].pc # "signed"
      BY <1>1, <2>4 DEF Upload, NoInvocation, Invocation
    <3>3. \A i \in DOMAIN patches : patches[i].uploaded => patches'[i].uploaded
      BY <1>1, <3>1, RowType DEF Patch
    <3> QED
      BY <2>4, <3>1, <3>2, <3>3, MarksKeepSolo DEF Upload
  <2>5. ASSUME RegisterRefused(me) \/ Report(me) PROVE SoloInv'
    BY <1>1, <2>5, QuietSolo DEF RegisterRefused, Report, NoInvocation
  <2> QED
    BY <1>2, <2>1, <2>2, <2>3, <2>4, <2>5 DEF Publish
<1>3. ASSUME Rollback(me) PROVE SoloInv'
  <2>1. ASSUME NEW r \in Runtimes, NEW l \in Releases, SignRollback(me, r, l, BaselineChannel) PROVE SoloInv'
    <3>1. op'[me].listed = Len(patches) /\ UNCHANGED <<patches, device>>
      BY <1>1, <2>1 DEF SignRollback
    <3> QED
      BY <3>1, QuietSolo
  <2>2. ASSUME NEW c \in Channels, NEW l \in Releases, ResolveRollback(me, c, l) PROVE SoloInv'
    <3>1. PICK newest : op' = [op EXCEPT ![me] = [NoInvocation EXCEPT !.pc = "rollback", !.patch = newest]]
      BY <2>2 DEF ResolveRollback
    <3>2. op'[me].pc # "signed" /\ UNCHANGED <<patches, device>>
      BY <1>1, <2>2, <3>1 DEF ResolveRollback, NoInvocation
    <3> QED
      BY <3>2, QuietSolo
  <2>3. ASSUME PostRollback(me) PROVE SoloInv'
    <3>1. MarksOnly /\ op[me].patch \in DOMAIN patches /\ patches' = [patches EXCEPT ![op[me].patch].rolledBack = TRUE]
      BY <1>1, <2>3, PostRollbackMarks DEF HoldsItsRow, RowBound, PostRollback
    <3>2. op'[me].pc # "signed"
      BY <1>1, <2>3 DEF PostRollback, NoInvocation
    <3>3. \A i \in DOMAIN patches : patches[i].uploaded => patches'[i].uploaded
      BY <1>1, <3>1, RowType DEF Patch
    <3> QED
      BY <2>3, <3>1, <3>2, <3>3, MarksKeepSolo DEF PostRollback
  <2> QED
    BY <1>3, <2>1, <2>2, <2>3 DEF Rollback
<1>4. ASSUME Abandon(me) PROVE SoloInv'
  BY <1>1, <1>4, QuietSolo DEF Abandon, NoInvocation
<1>5. ASSUME NEW s \in Scopes, DevicePoll(s) PROVE SoloInv'
  BY <1>5, DevicePollSolo
<1>6. CASE UNCHANGED vars
  BY <1>6, QuietSolo DEF vars, SoloInv
<1> QED
  BY <1>2, <1>3, <1>4, <1>5, <1>6 DEF Next

(* All three invariants, where one operator publishes with default flags.  *)
THEOREM SoloInvariant ==
    ASSUME DefaultFlags, OneOperator PROVE Spec => [](TableInv /\ LaneInv /\ SoloInv)
<1>1. PICK me : Operators = {me}
  BY DEF OneOperator
<1>2. Init => SoloInv
  BY InitSolo
<1>3. TableInv /\ LaneInv /\ SoloInv /\ [Next]_vars => SoloInv'
  BY <1>1, NextSolo
<1> QED
  BY <1>2, <1>3, TableInvariant, LaneInvariant, PTL DEF Spec

(***************************************************************************)
(* "Nothing was served with a mismatched version": where one operator      *)
(* publishes (assertAllocatedVersionMatches is then never needed), every   *)
(* stored bundle carries the number of its row, whatever was killed, lost, *)
(* rolled back or registered before.                                       *)
(***************************************************************************)
THEOREM NothingIsMismatched ==
    ASSUME DefaultFlags, OneOperator PROVE Spec => []NothingServedMismatched
<1>1. SoloInv => NothingServedMismatched
  BY DEF SoloInv, SignedTrue, NothingServedMismatched, AssertAllocatedVersionMatches
<1> QED
  BY <1>1, SoloInvariant, PTL

(* Of one scope, the rows with one number are one row.                     *)
LEMMA OneRowPerNumber ==
    ASSUME TableInv, NEW i \in DOMAIN patches, NEW j \in DOMAIN patches,
           ScopeOf(i) = ScopeOf(j), patches[i].number = patches[j].number
    PROVE  i = j
<1>1. i \in Nat /\ j \in Nat /\ patches[i].number \in Nat
  BY RowType DEF TableInv, Patch
<1>2. ~(i < j) /\ ~(j < i)
  BY <1>1 DEF TableInv, NumbersIncrease
<1> QED
  BY <1>1, <1>2

LEMMA ServedRow ==
    ASSUME TableInv, SoloInv, NEW s \in Scopes, NEW i \in DOMAIN patches, Served(s, i)
    PROVE  /\ ScopeOf(i) = s /\ patches[i].uploaded /\ ~patches[i].rolledBack /\ SignedTrue(patches[i])
           /\ patches[i].number \in Nat /\ patches[i].number >= 1
           /\ \A j \in DOMAIN patches :
                 ScopeOf(j) = s /\ patches[j].uploaded /\ ~patches[j].rolledBack => patches[j].number <= patches[i].number
<1>1. s = <<s[1], s[2]>>
  BY DEF Scopes
<1>2. patches[i].number \in Nat /\ patches[i].number >= 1
  BY RowType DEF TableInv, CounterIsHighest, Patch
<1>3. \A j \in DOMAIN patches : ScopeOf(j) = s => j \in ScopedPatches(patches, s[1], s[2])
  BY <1>1 DEF ScopedPatches, ScopeOf
<1>4. ScopeOf(i) = s /\ patches[i].uploaded /\ ~patches[i].rolledBack
  BY <1>1 DEF Served, Servable, ScopedPatches, ScopeOf
<1>5. \A j \in DOMAIN patches :
         ScopeOf(j) = s /\ patches[j].uploaded /\ ~patches[j].rolledBack => patches[j].number <= patches[i].number
  BY <1>3 DEF Served, Servable
<1> QED
  BY <1>2, <1>4, <1>5 DEF SoloInv

(***************************************************************************)
(* The defect that freehand_manifest_version.go was written against cannot *)
(* come back where one operator publishes: a device that takes the served  *)
(* patch for the one it runs does run its content.                         *)
(***************************************************************************)
THEOREM NoPatchIsIgnored ==
    ASSUME DefaultFlags, OneOperator PROVE Spec => []NoSilentNoOp
<1>1. TableInv /\ SoloInv => NoSilentNoOp
  <2> SUFFICES ASSUME TableInv, SoloInv, NEW s \in Scopes, NEW i \in DOMAIN patches,
                      Served(s, i), patches[i].version = device[s].version
               PROVE  patches[i].artifact = device[s].content
    BY DEF NoSilentNoOp
  <2>1. /\ ScopeOf(i) = s /\ SignedTrue(patches[i])
        /\ patches[i].number \in Nat /\ patches[i].number >= 1
    BY ServedRow
  <2>2. CASE device[s].version = 0 /\ device[s].content = Base
    BY <2>1, <2>2 DEF SignedTrue
  <2>3. CASE \E j \in DOMAIN patches : RunsRow(device, patches, s, j)
    <3>1. PICK j \in DOMAIN patches : RunsRow(device, patches, s, j)
      BY <2>3
    <3>2. /\ SignedTrue(patches[j]) /\ patches[j].artifact # Base /\ ScopeOf(j) = s
          /\ patches[j].version = device[s].version /\ patches[j].artifact = device[s].content
      BY <3>1 DEF SoloInv, RunsRow, RowScope, ScopeOf
    <3>3. patches[j].number \in Nat /\ patches[j].number >= 1
      BY RowType DEF TableInv, CounterIsHighest, Patch
    <3>4. patches[i].number = patches[j].number
      BY <2>1, <3>2, <3>3 DEF SignedTrue
    <3> QED
      BY <2>1, <3>2, <3>4, OneRowPerNumber
  <2> QED
    BY <2>2, <2>3 DEF SoloInv, DeviceTrue
<1> QED
  BY <1>1, SoloInvariant, PTL

(***************************************************************************)
(* Where one operator publishes, a device goes back only to the base, or   *)
(* from a patch that was rolled back.                                      *)
(***************************************************************************)
THEOREM DevicesMoveForward ==
    ASSUME DefaultFlags, OneOperator PROVE Spec => DeviceOnlyMovesForward
<1> DEFINE Forward == \A s \in Scopes :
              device'[s].version < device[s].version =>
                  \/ device'[s].content = Base
                  \/ \E i \in DOMAIN patches :
                        /\ ScopeOf(i) = s /\ patches[i].rolledBack
                        /\ patches[i].version = device[s].version
<1>1. TableInv /\ SoloInv /\ [Next]_vars => [Forward]_device
  <2> SUFFICES ASSUME TableInv, SoloInv, Next, device' # device,
                      NEW s \in Scopes, device'[s].version < device[s].version, device'[s].content # Base
               PROVE  \E i \in DOMAIN patches :
                         /\ ScopeOf(i) = s /\ patches[i].rolledBack
                         /\ patches[i].version = device[s].version
    BY DEF vars
  <2>1. PICK t \in Scopes : DevicePoll(t)
    BY DEF Next, Publish, Rollback, Plan, ResolveVersion, Register, RegisterRefused, Upload, Report,
           SignRollback, ResolveRollback, PostRollback, Abandon
  <2>2. PICK i \in DOMAIN patches :
           /\ Served(t, i)
           /\ device' = [device EXCEPT ![t] = [version |-> patches[i].version, content |-> patches[i].artifact]]
    BY <2>1 DEF DevicePoll
  <2>3. device \in [Scopes -> [version : Nat, content : Contents]]
    BY DEF TableInv, TypeOK
  <2>4. s = t /\ patches[i].version < device[s].version /\ patches[i].artifact # Base
    BY <2>2, <2>3
  <2>5. /\ SignedTrue(patches[i]) /\ patches[i].number \in Nat
        /\ \A j \in DOMAIN patches :
              ScopeOf(j) = s /\ patches[j].uploaded /\ ~patches[j].rolledBack => patches[j].number <= patches[i].number
    BY <2>2, <2>4, ServedRow
  <2>6. patches[i].version = patches[i].number /\ device[s].version > 0
    BY <2>4, <2>5, <2>3 DEF SignedTrue
  <2>7. PICK j \in DOMAIN patches : RunsRow(device, patches, s, j)
    BY <2>6 DEF SoloInv, DeviceTrue
  <2>8. /\ ScopeOf(j) = s /\ patches[j].uploaded /\ patches[j].version = device[s].version
        /\ patches[j].number = device[s].version
    BY <2>7 DEF SoloInv, SignedTrue, RunsRow, RowScope, ScopeOf
  <2>9. device[s].version \in Nat /\ patches[j].rolledBack \in BOOLEAN
    BY <2>3, RowType DEF TableInv, Patch
  <2> QED
    BY <2>4, <2>5, <2>6, <2>8, <2>9
<1> QED
  BY <1>1, SoloInvariant, PTL DEF Spec, DeviceOnlyMovesForward

-----------------------------------------------------------------------------
(***************************************************************************)
(* 4.  Publication implements VersionLedger.  Registering a patch hands out*)
(* the next number of its scope; passing the gate announces a number nobody*)
(* was announced under, because the rows of a scope carry different numbers*)
(* and an announced row carries its own.  Every other step of an operator  *)
(* or a device is a stuttering step.                                       *)
(***************************************************************************)
Entry(i) == <<ScopeOf(i), patches[i].version, patches[i].artifact>>
Entries == {Entry(i) : i \in announced}

LEMMA LedgerInit == Init => Ledger!Init
BY DEF Init, Ledger!Init

(* A step that leaves the counters, the announced rows and what they carry *)
(* alone changes nothing the ledger shows.                                 *)
LEMMA QuietStep ==
    ASSUME TypeOK, MarksOnly, UNCHANGED <<allocated, announced>>
    PROVE  UNCHANGED Ledger!ledgerVars
<1>1. announced \subseteq DOMAIN patches /\ announced' = announced
  BY DEF TypeOK
<1>2. \A i \in announced :
         /\ patches'[i].runtime = patches[i].runtime
         /\ patches'[i].channel = patches[i].channel
         /\ patches'[i].version = patches[i].version
         /\ patches'[i].artifact = patches[i].artifact
  BY <1>1 DEF MarksOnly
<1>3. \A i \in announced : Entry(i)' = Entry(i)
  BY <1>2 DEF Entry, ScopeOf
<1>4. Entries' = Entries
  BY <1>1, <1>3 DEF Entries
<1>5. QED
  BY <1>4 DEF Ledger!ledgerVars, Entries, Entry

(* Registration appends a row nobody announced: it hands a number out. *)
LEMMA RegisterHandsOut ==
    ASSUME TableInv, NEW o \in Operators, NEW b \in BOOLEAN, Register(o, b)
    PROVE  Ledger!Next
<1>1. PICK scope : scope = <<op[o].runtime, op[o].channel>>
  OBVIOUS
<1>2. /\ scope \in Scopes /\ allocated' = [allocated EXCEPT ![scope] = @ + 1]
      /\ \A i \in DOMAIN patches : patches'[i] = patches[i] /\ ScopeOf(i)' = ScopeOf(i)
  BY <1>1, RegisterAppends DEF Appends
<1>3. announced' = announced /\ announced \subseteq DOMAIN patches
  BY DEF Register, TableInv, TypeOK
<1>4. \A i \in announced : Entry(i)' = Entry(i)
  BY <1>2, <1>3 DEF Entry
<1>5. Entries' = Entries
  BY <1>3, <1>4 DEF Entries
<1>6. Ledger!HandOut(scope)
  BY <1>2, <1>5 DEF Ledger!HandOut, Entries, Entry
<1>7. QED
  BY <1>2, <1>6 DEF Ledger!Next

(* A patch that passes the gate is announced under its own number. *)
LEMMA GateAnnounces ==
    ASSUME TableInv, NEW o \in Operators, Report(o), announced' # announced
    PROVE  Ledger!Next
<1>1. PICK new, s, version, content :
         /\ new = op[o].patch /\ s = ScopeOf(new)
         /\ version = patches[new].version /\ content = patches[new].artifact
  OBVIOUS
<1>2. /\ announced' = announced \cup {new} /\ op[o].artifact # Base
      /\ patches[new].number = op[o].version /\ op[o].pc = "uploaded"
      /\ UNCHANGED <<patches, allocated>>
  BY <1>1 DEF Report, AssertAllocatedVersionMatches
<1>3. RowBound(op[o]) /\ TypeOK
  BY DEF TableInv, HoldsItsRow
<1>4. /\ new \in DOMAIN patches /\ version = op[o].version
      /\ content = op[o].artifact /\ content # Base
      /\ patches[new].number = version
  BY <1>1, <1>2, <1>3 DEF RowBound
<1>5. patches[new] \in Patch /\ s \in Scopes
  BY <1>1, <1>3, <1>4, RowType
<1>6. content \in Artifacts
  BY <1>1, <1>4, <1>5 DEF Patch, Contents
<1>7. version \in 1 .. allocated[s]
  <2>1. version >= 1 /\ version <= allocated[s] /\ version \in Nat
    BY <1>1, <1>4, <1>5 DEF TableInv, CounterIsHighest, Patch
  <2>2. allocated[s] \in Nat
    BY <1>3, <1>5 DEF TypeOK
  <2>3. QED
    BY <2>1, <2>2
<1>8. \A e \in Entries : e[1] = s => e[2] # version
  <2>1. SUFFICES ASSUME NEW i \in announced, ScopeOf(i) = s
                 PROVE  patches[i].version # version
    BY DEF Entries, Entry
  <2>2. i \in DOMAIN patches /\ i # new
    BY <1>2, <1>3 DEF TypeOK
  <2>3. patches[i].number = patches[i].version
    BY DEF TableInv, AnnouncedPassedGate
  <2>4. /\ i \in Nat /\ new \in Nat
        /\ patches[i].number \in Nat /\ patches[new].number \in Nat
    BY <1>3, <1>4, <2>2, RowType DEF Patch
  <2>5. patches[i].number < patches[new].number \/ patches[new].number < patches[i].number
    BY <1>1, <1>4, <2>1, <2>2, <2>4 DEF TableInv, NumbersIncrease
  <2>6. QED
    BY <1>4, <2>3, <2>4, <2>5
<1>9. Entries' = Entries \cup {<<s, version, content>>}
  <2>1. \A i : Entry(i)' = Entry(i)
    BY <1>2 DEF Entry, ScopeOf
  <2>2. Entry(new) = <<s, version, content>>
    BY <1>1 DEF Entry
  <2>3. QED
    BY <1>2, <2>1, <2>2 DEF Entries
<1>10. Ledger!Announce(s, version, content)
  BY <1>2, <1>7, <1>8, <1>9 DEF Ledger!Announce, Entries, Entry
<1>11. QED
  BY <1>5, <1>6, <1>7, <1>10 DEF Ledger!Next

LEMMA StepRefines == TableInv /\ [Next]_vars => [Ledger!Next]_(Ledger!ledgerVars)
<1> SUFFICES ASSUME TableInv, [Next]_vars
             PROVE  Ledger!Next \/ UNCHANGED Ledger!ledgerVars
  OBVIOUS
<1>1. TypeOK /\ HoldsItsRow
  BY DEF TableInv
<1>2. ASSUME UNCHANGED <<patches, allocated, announced>>
      PROVE  UNCHANGED Ledger!ledgerVars
  BY <1>1, <1>2, QuietStep DEF MarksOnly, TypeOK
<1>3. ASSUME NEW o \in Operators, Publish(o)
      PROVE  Ledger!Next \/ UNCHANGED Ledger!ledgerVars
  <2>1. ASSUME NEW b \in BOOLEAN, Register(o, b) PROVE Ledger!Next
    BY <2>1, RegisterHandsOut
  <2>2. ASSUME NEW b \in BOOLEAN, Upload(o, b) PROVE UNCHANGED Ledger!ledgerVars
    BY <1>1, <2>2, UploadMarks, QuietStep DEF Upload
  <2>3. ASSUME Report(o) PROVE Ledger!Next \/ UNCHANGED Ledger!ledgerVars
    <3>1. CASE announced' = announced
      BY <1>2, <2>3, <3>1 DEF Report
    <3>2. CASE announced' # announced
      BY <2>3, <3>2, GateAnnounces
    <3>3. QED
      BY <3>1, <3>2
  <2>4. QED
    BY <1>2, <1>3, <2>1, <2>2, <2>3 DEF Publish, Plan, ResolveVersion, RegisterRefused
<1>4. ASSUME NEW o \in Operators, Rollback(o)
      PROVE  UNCHANGED Ledger!ledgerVars
  <2>1. ASSUME PostRollback(o) PROVE UNCHANGED Ledger!ledgerVars
    BY <1>1, <2>1, PostRollbackMarks, QuietStep DEF PostRollback
  <2>2. QED
    BY <1>2, <1>4, <2>1 DEF Rollback, SignRollback, ResolveRollback
<1>5. ASSUME NEW o \in Operators, Abandon(o) PROVE UNCHANGED Ledger!ledgerVars
  BY <1>2, <1>5 DEF Abandon
<1>6. ASSUME NEW s \in Scopes, DevicePoll(s) PROVE UNCHANGED Ledger!ledgerVars
  BY <1>2, <1>6 DEF DevicePoll
<1>7. CASE UNCHANGED vars
  BY <1>2, <1>7 DEF vars
<1>8. QED
  BY <1>3, <1>4, <1>5, <1>6, <1>7 DEF Next

(* Hosted publication implements the ledger of versions: whatever flags,   *)
(* races, crashes and lost answers, a publication announced as done owns a *)
(* number the control plane handed out and no other announced one has it.  *)
THEOREM PublicationImplementsLedger == Spec => ImplementsLedger
<1>1. QED
  BY LedgerInit, StepRefines, TableInvariant, PTL DEF Spec, ImplementsLedger, Ledger!Spec
=============================================================================
