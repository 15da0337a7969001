--------------------------- MODULE ToolStoreProofs ---------------------------
(***************************************************************************)
(* What the tool store promises, for any number of commands, platforms,    *)
(* generations, pins and kills: what the pointers refer to is installed;   *)
(* recorded platforms coexist; nothing is damaged but on purpose.          *)
(*                                                                         *)
(* A directory is Safe if it is whole, or a command has its replacement in *)
(* hand, or a command was killed while it removed it.  No install makes a  *)
(* safe directory unsafe, so what is safe when a command has it in place   *)
(* is safe when a pointer names it, however long the way of its name       *)
(* through data, temporary file and pointer, and whoever renames it.       *)
(***************************************************************************)
EXTENDS ToolStore, TLAPS

InstallSteps == {"check", "fetch", "remove", "removing", "swap", "load", "open", "write", "publish"}
CleanSteps == {"clean", "pointers", "list", "delete", "deleting"}

(* What the fields of a command mean at its step.                          *)
Shape(r) ==
    /\ r.at \in InstallSteps => r.what # "clean" /\ r.version \in Versions
    /\ r.at \in InstallSteps /\ r.what = "setup" => r.platform \in Platforms
    /\ r.at \in CleanSteps => r.what = "clean"
    /\ r.at = "deleting" => r.version \in Versions
    /\ r.at = "load" => r.tool \in Platforms
    /\ r.at \in {"load", "open", "write", "publish"} /\ r.tool \in Platforms => r.what = "setup"
Shapes == \A c \in Commands : Shape(cmd[c])

(* A torn directory is one that somebody is removing, or was killed at.    *)
TornByRemoval ==
    \A d \in Directories : dir[d] = "torn" =>
        d \in cut \/ \E c \in Commands : cmd[c].at \in {"removing", "deleting"} /\ Target(c) = d

Safe(d) == dir[d] = "whole" \/ BeingReplaced(d) \/ d \in cut
AllSafe(content) == \A d \in References(content) : Safe(d)

(* As long as no clean ran beside another command.                         *)
CleansAlone == \A c \in Commands : cmd[c].at \in CleanSteps => Others(c) = {}
RecordedSafe == \A k \in Pointers : AllSafe(active[k])
InstallSafe(c) ==
    /\ cmd[c].at \in {"load", "open", "write", "publish"} => Safe(Target(c))
    /\ cmd[c].at \in InstallSteps /\ cmd[c].what = "setup" /\ cmd[c].tool \in Platforms =>
           Safe(<<"frontend", cmd[c].version>>)
    /\ cmd[c].at \in {"open", "write", "publish"} => AllSafe(cmd[c].data)
    /\ cmd[c].at \in {"write", "publish"} => AllSafe(temp[PointerOf(cmd[c].tool)])
CleanKnows(c) ==
    /\ cmd[c].at = "pointers" => References(active["frontends"]) \subseteq cmd[c].set
    /\ cmd[c].at = "list" => Recorded \cup Pinned \subseteq cmd[c].set
    /\ cmd[c].at \in {"delete", "deleting"} => cmd[c].set \cap (Recorded \cup Pinned) = {}
    /\ cmd[c].at = "deleting" => Target(c) \in cmd[c].set
NoBadClean == overlap # "clean" =>
    CleansAlone /\ RecordedSafe /\ \A c \in Commands : InstallSafe(c) /\ CleanKnows(c)

(* As long as one command ran at a time.                                   *)
OneActs == \A c \in Commands : ~At(c, "idle") => Others(c) = {}
PointersTrue ==
    /\ \A k \in Pointers : active[k] \in Records
    /\ \A p \in Platforms : active["toolchains"][p] = ready[p]
WritesOwn(c) ==
    /\ cmd[c].at = "write" => cmd[c].file = "temp" /\ temp[PointerOf(cmd[c].tool)] = Empty
    /\ cmd[c].at = "publish" => temp[PointerOf(cmd[c].tool)] = cmd[c].data
    /\ cmd[c].at \in {"open", "write", "publish"} /\ cmd[c].tool \in Platforms =>
           cmd[c].data = [active["toolchains"] EXCEPT ![cmd[c].tool] = cmd[c].version]
    /\ cmd[c].at \in {"fetch", "remove"} /\ ~cmd[c].force => dir[Target(c)] # "whole"
NoOverlap == overlap = "none" => OneActs /\ PointersTrue /\ \A c \in Commands : WritesOwn(c)

StoreInv == TypeOK /\ Shapes /\ TornByRemoval /\ NoBadClean /\ NoOverlap

-----------------------------------------------------------------------------
(* What the helper operators return. *)

LEMMA NewRecord ==
    ASSUME NEW r \in Records, NEW t \in Tools, NEW v \in Versions
    PROVE  [r EXCEPT ![t] = v] \in Records
BY DEF Records

LEMMA NoRecordIsOne == NoRecord \in Records
BY DEF Records, NoRecord

LEMMA RecordsCanBeRead == ASSUME NEW r \in Records PROVE Readable(r)
BY StoreAssumption DEF Readable

LEMMA ReferencesTyped ==
    ASSUME NEW content \in Records \cup {NoFile, Empty, Garbled}
    PROVE  References(content) \subseteq Directories
<1> SUFFICES ASSUME Readable(content), NEW t \in Tools, content[t] # None
             PROVE  <<t, content[t]>> \in Directories /\ <<"frontend", content[t]>> \in Directories
  BY DEF References
<1>1. content \in Records
  BY DEF Readable
<1>2. content[t] \in Versions /\ "frontend" \in Tools
  BY <1>1 DEF Records, Tools
<1> QED
  BY <1>2 DEF Directories

LEMMA OthersSayNothing ==
    ASSUME NEW content \in {NoFile, Empty, Garbled} PROVE References(content) = {}
BY DEF References, Readable

(* An entry adds its tool and the frontend of its generation, no more.     *)
LEMMA EntryAdds ==
    ASSUME NEW r \in Records, NEW t \in Tools, NEW v \in Versions
    PROVE  References([r EXCEPT ![t] = v]) \subseteq References(r) \cup {<<t, v>>, <<"frontend", v>>}
<1> DEFINE new == [r EXCEPT ![t] = v]
<1>1. SUFFICES ASSUME NEW u \in Tools, new[u] # None
               PROVE  {<<u, new[u]>>, <<"frontend", new[u]>>} \subseteq References(r) \cup {<<t, v>>, <<"frontend", v>>}
  BY DEF References
<1>2. CASE u = t
  <2>1. new[u] = v
    BY <1>2 DEF Records
  <2> QED
    BY <1>2, <2>1
<1>3. CASE u # t
  <2>1. new[u] = r[u] /\ Readable(r)
    BY <1>3, RecordsCanBeRead DEF Records
  <2> HIDE DEF new
  <2> QED
    BY <1>1, <2>1 DEF References
<1> QED
  BY <1>2, <1>3

LEMMA NoRecordSaysNothing == References(NoRecord) = {}
BY DEF References, NoRecord

LEMMA TargetTyped ==
    ASSUME NEW c \in Commands, cmd[c] \in Command, cmd[c].version \in Versions
    PROVE  Target(c) \in Directories
BY DEF Target, Command, Directories

-----------------------------------------------------------------------------
(* One command takes a step that is not the start of one: what the others  *)
(* hold stays, except that their descriptors may follow a file.            *)

SameElse(c) == \A o \in Commands \ {c} :
    /\ cmd'[o].at = cmd[o].at /\ cmd'[o].what = cmd[o].what /\ cmd'[o].tool = cmd[o].tool
    /\ cmd'[o].version = cmd[o].version /\ cmd'[o].data = cmd[o].data /\ cmd'[o].set = cmd[o].set

(* Where nobody else is active, only the pointers and the command itself   *)
(* are to be looked at; where somebody is, nothing safe may become unsafe. *)
LEMMA StepIsSafe ==
    ASSUME StoreInv, NEW c \in Commands, ~At(c, "idle"), SameElse(c), overlap' = overlap,
           overlap # "clean" =>
               /\ Others(c) # {} => \A d \in Directories : Safe(d) => Safe(d)'
               /\ RecordedSafe'
               /\ \A o \in Others(c) : cmd[o].at \in {"write", "publish"} =>
                      AllSafe(temp[PointerOf(cmd[o].tool)])'
               /\ InstallSafe(c)' /\ CleanKnows(c)'
               /\ cmd'[c].at \in CleanSteps => cmd[c].at \in CleanSteps
    PROVE  NoBadClean'
<1> SUFFICES ASSUME overlap # "clean"
             PROVE  CleansAlone' /\ RecordedSafe' /\ \A o \in Commands : InstallSafe(o)' /\ CleanKnows(o)'
  BY DEF NoBadClean
<1>0. CleansAlone /\ RecordedSafe /\ \A o \in Commands : InstallSafe(o) /\ CleanKnows(o)
  BY DEF StoreInv, NoBadClean
<1>1. ASSUME NEW o \in Commands, o # c PROVE cmd[o].at \notin CleanSteps
  BY <1>0, <1>1 DEF CleansAlone, Others
<1>2. CleansAlone'
  <2> SUFFICES ASSUME NEW o \in Commands, cmd'[o].at \in CleanSteps PROVE Others(o)' = {}
    BY DEF CleansAlone
  <2>1. o = c
    BY <1>1 DEF SameElse
  <2>2. Others(c) = {}
    BY <1>0, <2>1 DEF CleansAlone
  <2> QED
    BY <2>1, <2>2 DEF Others, SameElse, At
<1>3. ASSUME NEW o \in Commands, o # c PROVE InstallSafe(o)' /\ CleanKnows(o)'
  <2>0. cmd'[o].at \notin CleanSteps
    BY <1>1, <1>3 DEF SameElse
  <2>1. CleanKnows(o)'
    BY <2>0 DEF CleanKnows, CleanSteps
  <2>2. CASE At(o, "idle")
    <3>1. cmd'[o].at = "idle"
      BY <2>2, <1>3 DEF SameElse, At
    <3>2. InstallSafe(o)'
      BY <3>1 DEF InstallSafe, InstallSteps
    <3> QED
      BY <2>1, <3>2
  <2>3. CASE ~At(o, "idle")
    <3>1. o \in Others(c)
      BY <1>3, <2>3 DEF Others
    <3>2. \A d \in Directories : Safe(d) => Safe(d)'
      BY <3>1
    <3>3. cmd[o] \in Command /\ Shape(cmd[o])
      BY DEF StoreInv, TypeOK, Shapes
    <3>4. Target(o)' = Target(o) /\ cmd'[o].at = cmd[o].at /\ cmd'[o].what = cmd[o].what
          /\ cmd'[o].tool = cmd[o].tool /\ cmd'[o].version = cmd[o].version /\ cmd'[o].data = cmd[o].data
      BY <1>3 DEF SameElse, Target
    <3>5. cmd[o].at \in InstallSteps => Target(o) \in Directories /\ <<"frontend", cmd[o].version>> \in Directories
      BY <3>3, TargetTyped DEF Shape, Directories, Tools
    <3>6. References(cmd[o].data) \subseteq Directories
      BY <3>3, ReferencesTyped DEF Command
    <3>7. InstallSafe(o)
      BY <1>0
    <3>8. cmd'[o].at \in {"load", "open", "write", "publish"} => Safe(Target(o))'
      <4> SUFFICES ASSUME cmd[o].at \in {"load", "open", "write", "publish"} PROVE Safe(Target(o))'
        BY <3>4
      <4>1. Safe(Target(o)) /\ Target(o) \in Directories
        BY <3>5, <3>7 DEF InstallSafe, InstallSteps
      <4> DEFINE d == Target(o)
      <4>2. d' = d
        BY <3>4
      <4>3. Safe(d)'
        BY <3>2, <4>1, <4>2 DEF Safe, BeingReplaced
      <4> QED
        BY <4>3
    <3>9. cmd'[o].at \in InstallSteps /\ cmd'[o].what = "setup" /\ cmd'[o].tool \in Platforms =>
             Safe(<<"frontend", cmd[o].version>>)'
      BY <3>2, <3>4, <3>5, <3>7 DEF InstallSafe, Safe, BeingReplaced
    <3>10. cmd'[o].at \in {"open", "write", "publish"} => AllSafe(cmd[o].data)'
      BY <3>2, <3>4, <3>6, <3>7 DEF InstallSafe, AllSafe
    <3>11. cmd'[o].at \in {"write", "publish"} => AllSafe(temp[PointerOf(cmd[o].tool)])'
      BY <3>1, <3>4 DEF PointerOf
    <3> QED
      BY <2>1, <3>4, <3>8, <3>9, <3>10, <3>11 DEF InstallSafe
  <2> QED
    BY <2>1, <2>2, <2>3
<1> QED
  BY <1>2, <1>3

LEMMA StepIsOwn ==
    ASSUME StoreInv, NEW c \in Commands, ~At(c, "idle"), SameElse(c), overlap' = overlap,
           overlap = "none" => PointersTrue' /\ WritesOwn(c)'
    PROVE  NoOverlap'
<1> SUFFICES ASSUME overlap = "none"
             PROVE  OneActs' /\ \A o \in Commands : WritesOwn(o)'
  BY DEF NoOverlap
<1>1. OneActs
  BY DEF StoreInv, NoOverlap
<1>2. \A o \in Commands \ {c} : cmd'[o].at = "idle"
  BY <1>1 DEF OneActs, Others, At, SameElse
<1>3. OneActs'
  BY <1>2 DEF OneActs, Others, At
<1>4. ASSUME NEW o \in Commands, o # c PROVE WritesOwn(o)'
  BY <1>2, <1>4 DEF WritesOwn
<1> QED
  BY <1>3, <1>4

LEMMA IdleTyped == Idle \in Command /\ Shape(Idle)
<1>1. Idle \in Command
  BY NoRecordIsOne DEF Idle, Command, Steps, Tools
<1>2. Shape(Idle)
  BY DEF Idle, Shape, InstallSteps, CleanSteps
<1> QED
  BY <1>1, <1>2

(* Command c comes to state r. *)
LEMMA Moves ==
    ASSUME TypeOK, Shapes, NEW c \in Commands, NEW r \in Command, Shape(r),
           cmd' = [cmd EXCEPT ![c] = r]
    PROVE  /\ cmd' \in [Commands -> Command] /\ Shapes' /\ SameElse(c) /\ cmd'[c] = r
           /\ Target(c)' = <<r.tool, r.version>>
<1>1. cmd \in [Commands -> Command]
  BY DEF TypeOK
<1>2. cmd'[c] = r /\ \A o \in Commands \ {c} : cmd'[o] = cmd[o]
  BY <1>1
<1>3. Shapes'
  BY <1>2 DEF Shapes
<1> QED
  BY <1>1, <1>2, <1>3 DEF SameElse, Target

(* Ends: whatever it was doing, c is idle. *)
LEMMA Ends ==
    ASSUME TypeOK, Shapes, NEW c \in Commands, End(c)
    PROVE  /\ cmd' \in [Commands -> Command] /\ Shapes' /\ SameElse(c) /\ cmd'[c].at = "idle"
           /\ InstallSafe(c)' /\ CleanKnows(c)' /\ WritesOwn(c)'
<1>1. cmd' \in [Commands -> Command] /\ Shapes' /\ SameElse(c) /\ cmd'[c] = Idle
  BY IdleTyped, Moves DEF End
<1>2. cmd'[c].at = "idle"
  BY <1>1 DEF Idle
<1>3. InstallSafe(c)'
  BY <1>2 DEF InstallSafe, InstallSteps
<1>4. CleanKnows(c)'
  BY <1>2 DEF CleanKnows
<1>5. WritesOwn(c)'
  BY <1>2 DEF WritesOwn
<1> QED
  BY <1>1, <1>2, <1>3, <1>4, <1>5

LEMMA Goes ==
    ASSUME TypeOK, NEW c \in Commands, NEW step \in Steps, Goto(c, step),
           step \in InstallSteps \ {"load", "open", "write", "publish"}, cmd[c].at \in InstallSteps, Shapes
    PROVE  /\ cmd' \in [Commands -> Command] /\ Shapes' /\ SameElse(c) /\ cmd'[c].at = step
           /\ cmd'[c].tool = cmd[c].tool /\ cmd'[c].version = cmd[c].version
           /\ cmd'[c].what = cmd[c].what /\ cmd'[c].force = cmd[c].force
           /\ Target(c)' = Target(c) /\ CleanKnows(c)'
<1> DEFINE r == [cmd[c] EXCEPT !.at = step]
<1>0. cmd[c] \in Command /\ Shape(cmd[c]) /\ cmd \in [Commands -> Command]
  BY DEF TypeOK, Shapes
<1>1. r \in Command /\ r.at = step /\ r.tool = cmd[c].tool /\ r.version = cmd[c].version
      /\ r.what = cmd[c].what /\ r.force = cmd[c].force /\ r.platform = cmd[c].platform
  BY <1>0 DEF Command
<1>2. cmd' = [cmd EXCEPT ![c] = r]
  BY <1>0 DEF Goto
<1> HIDE DEF r
<1>3. Shape(r)
  BY <1>0, <1>1 DEF Shape, InstallSteps, CleanSteps
<1>4. cmd' \in [Commands -> Command] /\ Shapes' /\ SameElse(c) /\ cmd'[c] = r
  BY <1>1, <1>2, <1>3, Moves
<1>5. CleanKnows(c)'
  BY <1>1, <1>4 DEF CleanKnows, InstallSteps
<1> QED
  BY <1>1, <1>4, <1>5 DEF Target

(* Nothing safe becomes unsafe. *)
Harmless == \A d \in Directories : Safe(d) => Safe(d)'

LEMMA HarmlessStep ==
    ASSUME NEW c \in Commands, SameElse(c),
           \A d \in Directories : dir[d] = "whole" \/ d \in cut => Safe(d)',
           cmd[c].at \in {"removing", "swap"} => \A d \in Directories : Target(c) = d => Safe(d)'
    PROVE  Harmless
<1> SUFFICES ASSUME NEW d \in Directories, Safe(d) PROVE Safe(d)'
  BY DEF Harmless
<1>1. CASE dir[d] = "whole" \/ d \in cut
  BY <1>1
<1>2. CASE BeingReplaced(d)
  <2>1. PICK o \in Commands : cmd[o].at \in {"removing", "swap"} /\ Target(o) = d
    BY <1>2 DEF BeingReplaced
  <2>2. CASE o = c
    BY <2>1, <2>2
  <2>3. CASE o # c
    <3>1. cmd'[o].at \in {"removing", "swap"} /\ Target(o)' = d
      BY <2>1, <2>3 DEF SameElse, Target
    <3> QED
      BY <3>1 DEF Safe, BeingReplaced
  <2> QED
    BY <2>2, <2>3
<1> QED
  BY <1>1, <1>2 DEF Safe

(* The same, of a command that leaves the files alone and replaces nothing.*)
LEMMA HarmlessMove ==
    ASSUME NEW c \in Commands, SameElse(c), UNCHANGED <<dir, cut>>, cmd[c].at \notin {"removing", "swap"}
    PROVE  Harmless
<1>1. \A d \in Directories : dir[d] = "whole" \/ d \in cut => Safe(d)'
  BY DEF Safe
<1> QED
  BY <1>1, HarmlessStep

(* A step that leaves the pointers and the temporary files alone. *)
LEMMA QuietStep ==
    ASSUME StoreInv, NEW c \in Commands, ~At(c, "idle"), SameElse(c), UNCHANGED <<active, temp, ready, overlap>>,
           overlap # "clean" =>
               /\ Harmless /\ InstallSafe(c)' /\ CleanKnows(c)'
               /\ cmd'[c].at \in CleanSteps => cmd[c].at \in CleanSteps,
           overlap = "none" => WritesOwn(c)'
    PROVE  NoBadClean' /\ NoOverlap'
<1>1. ASSUME overlap # "clean" PROVE RecordedSafe'
  <2> SUFFICES ASSUME NEW k \in Pointers, NEW d \in References(active[k]) PROVE Safe(d)'
    BY DEF RecordedSafe, AllSafe
  <2>1. Safe(d)
    BY <1>1 DEF StoreInv, NoBadClean, RecordedSafe, AllSafe
  <2>2. d \in Directories
    BY ReferencesTyped DEF StoreInv, TypeOK
  <2> QED
    BY <1>1, <2>1, <2>2 DEF Harmless
<1>2. ASSUME overlap # "clean", NEW o \in Others(c), cmd[o].at \in {"write", "publish"}
      PROVE  AllSafe(temp[PointerOf(cmd[o].tool)])'
  <2>1. o \in Commands /\ cmd'[o].tool = cmd[o].tool
    BY <1>2 DEF Others, SameElse
  <2> DEFINE k == PointerOf(cmd[o].tool)
  <2>2. k \in Pointers /\ k' = k
    BY <2>1 DEF PointerOf, Pointers
  <2>3. AllSafe(temp[k])
    BY <1>2, <2>1 DEF StoreInv, NoBadClean, InstallSafe
  <2>4. References(temp[k]) \subseteq Directories
    BY <2>2, ReferencesTyped DEF StoreInv, TypeOK
  <2> HIDE DEF k
  <2>5. AllSafe(temp[k])'
    BY <1>2, <2>2, <2>3, <2>4 DEF AllSafe, Harmless
  <2> QED
    BY <2>5 DEF k
<1>3. overlap = "none" => PointersTrue'
  BY DEF StoreInv, NoOverlap, PointersTrue
<1>4. NoOverlap'
  BY <1>3, StepIsOwn
<1>5. NoBadClean'
  BY <1>1, <1>2, StepIsSafe DEF Harmless
<1> QED
  BY <1>4, <1>5

-----------------------------------------------------------------------------
(* From the check of what is installed to its replacement. *)

LEMMA InPlaceMoves ==
    ASSUME TypeOK, Shapes, NEW c \in Commands, cmd[c].at \in {"check", "swap"}, InPlace(c)
    PROVE  /\ cmd' \in [Commands -> Command] /\ Shapes' /\ SameElse(c)
           /\ CleanKnows(c)' /\ WritesOwn(c)' /\ cmd'[c].at \in {"idle", "load", "open"}
           /\ cmd'[c].at # "idle" => /\ cmd'[c].tool = cmd[c].tool /\ cmd'[c].version = cmd[c].version
                                     /\ cmd'[c].what = cmd[c].what
           /\ cmd'[c].at = "open" => References(cmd'[c].data) \subseteq {Target(c)} /\ cmd[c].tool = "frontend"
<1>0. cmd[c] \in Command /\ Shape(cmd[c]) /\ cmd \in [Commands -> Command] /\ "frontend" \in Tools
  BY DEF TypeOK, Shapes, Tools
<1>v. cmd[c].version \in Versions /\ cmd[c].what # "clean"
  BY <1>0 DEF Shape, InstallSteps
<1>1. CASE cmd[c].tool = "frontend"
  <2> DEFINE new == [NoRecord EXCEPT !["frontend"] = cmd[c].version]
             r == [cmd[c] EXCEPT !.at = "open", !.data = new]
  <2>1. new \in Records
    BY <1>0, <1>v, NewRecord, NoRecordIsOne
  <2>2. References(new) \subseteq {Target(c)}
    BY <1>0, <1>v, <1>1, EntryAdds, NoRecordIsOne, NoRecordSaysNothing DEF Target
  <2> HIDE DEF new
  <2>3. r \in Command /\ r.at = "open" /\ r.data = new /\ r.tool = cmd[c].tool
        /\ r.version = cmd[c].version /\ r.what = cmd[c].what /\ r.platform = cmd[c].platform
    BY <1>0, <2>1 DEF Command, Steps
  <2>4. cmd' = [cmd EXCEPT ![c] = r]
    BY <1>0, <1>1 DEF InPlace, new
  <2> HIDE DEF r
  <2>5. Shape(r)
    BY <1>0, <1>v, <1>1, <2>3, StoreAssumption DEF Shape, InstallSteps, CleanSteps
  <2>6. cmd' \in [Commands -> Command] /\ Shapes' /\ SameElse(c) /\ cmd'[c] = r
    BY <2>3, <2>4, <2>5, Moves
  <2>7. CleanKnows(c)'
    BY <2>3, <2>6 DEF CleanKnows
  <2>8. WritesOwn(c)'
    BY <1>1, <2>3, <2>6, StoreAssumption DEF WritesOwn
  <2> QED
    BY <1>1, <2>2, <2>3, <2>6, <2>7, <2>8
<1>2. CASE cmd[c].tool # "frontend" /\ cmd[c].what = "setup"
  <2> DEFINE r == [cmd[c] EXCEPT !.at = "load"]
  <2>3. r \in Command /\ r.at = "load" /\ r.tool = cmd[c].tool
        /\ r.version = cmd[c].version /\ r.what = cmd[c].what /\ r.platform = cmd[c].platform
    BY <1>0 DEF Command, Steps
  <2>4. cmd' = [cmd EXCEPT ![c] = r]
    BY <1>0, <1>2 DEF InPlace, Goto
  <2> HIDE DEF r
  <2>5. Shape(r)
    <3>1. cmd[c].tool \in Platforms
      BY <1>0, <1>2 DEF Command, Tools
    <3>2. cmd[c].platform \in Platforms
      BY <1>0, <1>2 DEF Shape, InstallSteps
    <3> QED
      BY <1>0, <1>v, <1>2, <2>3, <3>1, <3>2 DEF Shape, InstallSteps, CleanSteps
  <2>6. cmd' \in [Commands -> Command] /\ Shapes' /\ SameElse(c) /\ cmd'[c] = r
    BY <2>3, <2>4, <2>5, Moves
  <2>7. CleanKnows(c)'
    BY <2>3, <2>6 DEF CleanKnows
  <2>8. WritesOwn(c)'
    BY <2>3, <2>6 DEF WritesOwn
  <2> QED
    BY <2>3, <2>6, <2>7, <2>8
<1>3. CASE cmd[c].tool # "frontend" /\ cmd[c].what # "setup"
  <2>1. End(c)
    BY <1>3 DEF InPlace
  <2> QED
    BY <2>1, Ends
<1> QED
  BY <1>1, <1>2, <1>3

(* What is in place is safe to record, and so is the frontend a setup put  *)
(* there before.                                                           *)
LEMMA InPlaceSafe ==
    ASSUME StoreInv, NEW c \in Commands, cmd[c].at \in {"check", "swap"}, InPlace(c), Harmless,
           overlap # "clean", \A d \in Directories : d = Target(c) => Safe(d)'
    PROVE  InstallSafe(c)'
<1>1. /\ SameElse(c) /\ cmd'[c].at \in {"idle", "load", "open"}
      /\ cmd'[c].at # "idle" => /\ cmd'[c].tool = cmd[c].tool /\ cmd'[c].version = cmd[c].version
                                /\ cmd'[c].what = cmd[c].what
      /\ cmd'[c].at = "open" => References(cmd'[c].data) \subseteq {Target(c)} /\ cmd[c].tool = "frontend"
  BY InPlaceMoves DEF StoreInv
<1>2. cmd[c] \in Command /\ cmd[c].version \in Versions /\ InstallSafe(c) /\ "frontend" \in Tools
  BY DEF StoreInv, TypeOK, Shapes, Shape, InstallSteps, NoBadClean, Tools
<1>3. Target(c) \in Directories /\ <<"frontend", cmd[c].version>> \in Directories
  BY <1>2, TargetTyped DEF Directories
<1>4. CASE cmd'[c].at = "idle"
  BY <1>4 DEF InstallSafe, InstallSteps
<1>5. CASE cmd'[c].at # "idle"
  <2> DEFINE d == Target(c)
             e == <<"frontend", cmd[c].version>>
  <2>1. Target(c)' = d /\ <<"frontend", cmd[c].version>>' = e /\ d' = d /\ e' = e
    BY <1>1, <1>5 DEF Target
  <2>2. Safe(d)' /\ d \in Directories
    BY <1>3, <2>1 DEF Safe, BeingReplaced
  <2>3. cmd[c].what = "setup" /\ cmd[c].tool \in Platforms => Safe(e)
    BY <1>2 DEF InstallSafe, InstallSteps
  <2>4. cmd[c].what = "setup" /\ cmd[c].tool \in Platforms => Safe(e)'
    BY <1>3, <2>1, <2>3 DEF Harmless, Safe, BeingReplaced
  <2> HIDE DEF d, e
  <2>5. cmd'[c].at = "open" => AllSafe(cmd[c].data)'
    BY <1>1, <2>1, <2>2 DEF AllSafe, d
  <2> QED
    BY <1>1, <1>5, <2>1, <2>2, <2>4, <2>5 DEF InstallSafe
<1> QED
  BY <1>4, <1>5

(* Only removals tear a directory, and they are of this command. *)
LEMMA TornAsBefore ==
    ASSUME StoreInv, NEW c \in Commands, SameElse(c), UNCHANGED <<dir, cut>>,
           cmd[c].at \notin {"removing", "deleting"}
    PROVE  TornByRemoval'
<1> SUFFICES ASSUME NEW d \in Directories, dir[d] = "torn", d \notin cut
             PROVE  \E o \in Commands : cmd'[o].at \in {"removing", "deleting"} /\ Target(o)' = d
  BY DEF TornByRemoval
<1>1. PICK o \in Commands : cmd[o].at \in {"removing", "deleting"} /\ Target(o) = d
  BY DEF StoreInv, TornByRemoval
<1> QED
  BY <1>1 DEF SameElse, Target

(* No clean deletes while an install is at work. *)
LEMMA TornIsSafe ==
    ASSUME StoreInv, NEW c \in Commands, cmd[c].at \in InstallSteps, overlap # "clean",
           NEW d \in Directories, dir[d] = "torn"
    PROVE  Safe(d)
<1>1. CASE d \in cut
  BY <1>1 DEF Safe
<1>2. CASE d \notin cut
  <2>1. PICK o \in Commands : cmd[o].at \in {"removing", "deleting"} /\ Target(o) = d
    BY <1>2 DEF StoreInv, TornByRemoval
  <2>2. cmd[o].at # "deleting"
    <3>1. cmd[o].at \in CleanSteps => Others(o) = {}
      BY DEF StoreInv, NoBadClean, CleansAlone
    <3> QED
      BY <3>1 DEF Others, At, InstallSteps, CleanSteps
  <2> QED
    BY <2>1, <2>2 DEF Safe, BeingReplaced
<1> QED
  BY <1>1, <1>2

(* A command that ends, and leaves what it was at to nobody. *)
LEMMA EndKeeps ==
    ASSUME StoreInv, NEW c \in Commands, ~At(c, "idle"), End(c),
           UNCHANGED <<dir, active, temp, ready, cut, overlap, runs, kills>>,
           overlap # "clean" => Harmless, TornByRemoval'
    PROVE  StoreInv'
<1>0. TypeOK /\ Shapes
  BY DEF StoreInv
<1>1. /\ cmd' \in [Commands -> Command] /\ Shapes' /\ SameElse(c) /\ CleanKnows(c)' /\ WritesOwn(c)'
      /\ InstallSafe(c)' /\ cmd'[c].at = "idle"
  BY <1>0, Ends
<1>2. NoBadClean' /\ NoOverlap'
  BY <1>1, QuietStep DEF CleanSteps
<1> QED
  BY <1>0, <1>1, <1>2 DEF StoreInv, TypeOK

LEMMA EndQuietly ==
    ASSUME StoreInv, NEW c \in Commands, cmd[c].at \notin {"idle", "removing", "swap", "deleting"}, End(c),
           UNCHANGED <<dir, active, temp, ready, cut, overlap, runs, kills>>
    PROVE  StoreInv'
<1>1. SameElse(c)
  BY Ends DEF StoreInv
<1>2. Harmless /\ TornByRemoval'
  BY <1>1, HarmlessMove, TornAsBefore
<1> QED
  BY <1>2, EndKeeps DEF At

(* An install that goes on to a step in which it holds nothing new. *)
LEMMA GoesSafe ==
    ASSUME StoreInv, NEW c \in Commands, NEW step \in {"fetch", "remove", "removing", "swap"}, Goto(c, step),
           cmd[c].at \in InstallSteps, Harmless, overlap # "clean"
    PROVE  InstallSafe(c)'
<1>1. /\ cmd'[c].at = step /\ cmd'[c].tool = cmd[c].tool /\ cmd'[c].version = cmd[c].version
      /\ cmd'[c].what = cmd[c].what
  BY Goes DEF StoreInv, InstallSteps, Steps
<1>2. InstallSafe(c) /\ cmd[c].version \in Versions
  BY DEF StoreInv, NoBadClean, Shapes, Shape
<1> DEFINE e == <<"frontend", cmd[c].version>>
<1>3. e \in Directories /\ e' = e
  BY <1>1, <1>2 DEF Directories, Tools
<1>4. cmd[c].what = "setup" /\ cmd[c].tool \in Platforms => Safe(e)'
  BY <1>2, <1>3 DEF Harmless, Safe, BeingReplaced, InstallSafe
<1> HIDE DEF e
<1> QED
  BY <1>1, <1>4 DEF InstallSafe, e

LEMMA CheckKeeps == ASSUME StoreInv, NEW c \in Commands, Check(c) PROVE StoreInv'
<1> USE DEF Check, At
<1>0. TypeOK /\ Shapes /\ cmd[c].at = "check" /\ UNCHANGED <<dir, active, temp, ready, cut, overlap, runs, kills>>
  BY DEF StoreInv, history
<1>1. CASE InPlace(c) /\ "hit" \in Reverify(c)
  <2>1. /\ cmd' \in [Commands -> Command] /\ Shapes' /\ SameElse(c) /\ CleanKnows(c)' /\ WritesOwn(c)'
        /\ cmd'[c].at \in {"idle", "load", "open"}
    BY <1>0, <1>1, InPlaceMoves
  <2>2. Harmless
    BY <1>0, <2>1, HarmlessMove
  <2>3. ASSUME overlap # "clean", NEW d \in Directories, d = Target(c) PROVE Safe(d)
    <3>1. dir[d] \in {"whole", "torn"}
      <4>1. dir[d] \in {"absent", "torn", "whole"}
        BY <1>0 DEF TypeOK
      <4>2. dir[d] # "absent"
        BY <1>1, <2>3 DEF Reverify, ReverifyInstalledFrontend, ReverifyCachedToolchain
      <4> QED
        BY <4>1, <4>2
    <3>2. dir[d] = "torn" => Safe(d)
      BY <1>0, <2>3, TornIsSafe DEF InstallSteps
    <3> QED
      BY <3>1, <3>2 DEF Safe
  <2>4. overlap # "clean" => InstallSafe(c)'
    BY <1>0, <1>1, <2>2, <2>3, InPlaceSafe DEF Harmless
  <2>5. NoBadClean' /\ NoOverlap'
    BY <1>0, <2>1, <2>2, <2>4, QuietStep DEF CleanSteps
  <2>6. TornByRemoval'
    BY <1>0, <2>1, TornAsBefore
  <2> QED
    BY <1>0, <2>1, <2>5, <2>6 DEF StoreInv, TypeOK
<1>2. CASE End(c)
  BY <1>0, <1>2, EndQuietly
<1>3. CASE Goto(c, "fetch") /\ (cmd[c].force \/ "miss" \in Reverify(c))
  <2>1. /\ cmd' \in [Commands -> Command] /\ Shapes' /\ SameElse(c) /\ CleanKnows(c)'
        /\ cmd'[c].at = "fetch" /\ cmd'[c].force = cmd[c].force /\ Target(c)' = Target(c)
    BY <1>0, <1>3, Goes DEF InstallSteps, Steps
  <2>2. Harmless
    BY <1>0, <2>1, HarmlessMove
  <2>3. cmd[c].force \/ dir[Target(c)] # "whole"
    BY <1>3 DEF Reverify, ReverifyInstalledFrontend, ReverifyCachedToolchain
  <2>4. WritesOwn(c)'
    BY <1>0, <2>1, <2>3 DEF WritesOwn
  <2>5. overlap # "clean" => InstallSafe(c)'
    BY <1>0, <1>3, <2>2, GoesSafe DEF InstallSteps
  <2>6. NoBadClean' /\ NoOverlap'
    BY <1>0, <2>1, <2>2, <2>4, <2>5, QuietStep DEF CleanSteps
  <2>7. TornByRemoval'
    BY <1>0, <2>1, TornAsBefore
  <2> QED
    BY <1>0, <2>1, <2>6, <2>7 DEF StoreInv, TypeOK
<1> QED
  BY <1>1, <1>2, <1>3

LEMMA FetchKeeps == ASSUME StoreInv, NEW c \in Commands, Fetch(c) PROVE StoreInv'
<1> USE DEF Fetch, At
<1>0. TypeOK /\ Shapes /\ cmd[c].at = "fetch" /\ UNCHANGED <<dir, active, temp, ready, cut, overlap, runs, kills>>
  BY DEF StoreInv, history
<1>1. CASE End(c)
  BY <1>0, <1>1, EndQuietly
<1>2. CASE Goto(c, "remove")
  <2>1. /\ cmd' \in [Commands -> Command] /\ Shapes' /\ SameElse(c) /\ CleanKnows(c)'
        /\ cmd'[c].at = "remove" /\ cmd'[c].force = cmd[c].force /\ Target(c)' = Target(c)
    BY <1>0, <1>2, Goes DEF InstallSteps, Steps
  <2>2. Harmless
    BY <1>0, <2>1, HarmlessMove
  <2>4. overlap = "none" => WritesOwn(c)'
    BY <1>0, <2>1 DEF WritesOwn, StoreInv, NoOverlap
  <2>5. overlap # "clean" => InstallSafe(c)'
    BY <1>0, <1>2, <2>2, GoesSafe DEF InstallSteps
  <2>6. NoBadClean' /\ NoOverlap'
    BY <1>0, <2>1, <2>2, <2>4, <2>5, QuietStep DEF CleanSteps
  <2>7. TornByRemoval'
    BY <1>0, <2>1, TornAsBefore
  <2> QED
    BY <1>0, <2>1, <2>6, <2>7 DEF StoreInv, TypeOK
<1> QED
  BY <1>1, <1>2

LEMMA RemoveKeeps == ASSUME StoreInv, NEW c \in Commands, Remove(c) PROVE StoreInv'
<1> USE DEF Remove, At
<1>0. TypeOK /\ Shapes /\ cmd[c].at = "remove" /\ UNCHANGED <<active, temp, ready, cut, overlap, runs, kills>>
      /\ Target(c) \in Directories /\ dir \in [Directories -> {"absent", "torn", "whole"}]
  BY TargetTyped DEF StoreInv, TypeOK, history, Shapes, Shape, InstallSteps
<1> DEFINE step == IF dir[Target(c)] = "absent" THEN "swap" ELSE "removing"
<1>1. Goto(c, step) /\ step \in {"removing", "swap"}
  OBVIOUS
<1>2. dir' = IF step = "swap" THEN dir ELSE [dir EXCEPT ![Target(c)] = "torn"]
  BY DEF Place
<1> HIDE DEF step
<1>3. /\ cmd' \in [Commands -> Command] /\ Shapes' /\ SameElse(c) /\ CleanKnows(c)'
      /\ cmd'[c].at = step /\ Target(c)' = Target(c)
  BY <1>0, <1>1, Goes DEF InstallSteps, Steps
<1>4. BeingReplaced(Target(c))'
  BY <1>1, <1>3 DEF BeingReplaced
<1>5. Harmless
  <2>1. ASSUME NEW d \in Directories, dir[d] = "whole" \/ d \in cut PROVE Safe(d)'
    <3>1. CASE d = Target(c)
      BY <1>1, <1>3, <3>1 DEF Safe, BeingReplaced
    <3>2. CASE d # Target(c)
      BY <1>0, <1>2, <2>1, <3>2 DEF Safe
    <3> QED
      BY <3>1, <3>2
  <2> QED
    BY <1>0, <1>3, <2>1, HarmlessStep
<1>6. WritesOwn(c)'
  BY <1>1, <1>3 DEF WritesOwn
<1>7. overlap # "clean" => InstallSafe(c)'
  BY <1>0, <1>1, <1>5, GoesSafe DEF InstallSteps
<1>8. NoBadClean' /\ NoOverlap'
  BY <1>0, <1>1, <1>3, <1>5, <1>6, <1>7, QuietStep DEF CleanSteps
<1>9. TornByRemoval'
  <2> SUFFICES ASSUME NEW d \in Directories, dir'[d] = "torn", d \notin cut
               PROVE  \E o \in Commands : cmd'[o].at \in {"removing", "deleting"} /\ Target(o)' = d
    BY <1>0 DEF TornByRemoval
  <2>1. CASE d = Target(c)
    <3>1. step = "removing"
      <4>1. CASE step = "swap"
        <5>1. dir[d] = "torn"
          BY <1>2, <4>1
        <5> QED
          BY <2>1, <4>1, <5>1 DEF step
      <4> QED
        BY <1>1, <4>1
    <3> QED
      BY <1>3, <2>1, <3>1
  <2>2. CASE d # Target(c)
    <3>1. dir[d] = "torn"
      BY <1>0, <1>2, <2>2
    <3>2. PICK o \in Commands : cmd[o].at \in {"removing", "deleting"} /\ Target(o) = d
      BY <3>1 DEF StoreInv, TornByRemoval
    <3> QED
      BY <1>0, <1>3, <3>2 DEF SameElse, Target
  <2> QED
    BY <2>1, <2>2
<1>10. dir' \in [Directories -> {"absent", "torn", "whole"}]
  BY <1>0, <1>2
<1> QED
  BY <1>0, <1>3, <1>8, <1>9, <1>10 DEF StoreInv, TypeOK

LEMMA RemovedKeeps == ASSUME StoreInv, NEW c \in Commands, Removed(c) PROVE StoreInv'
<1> USE DEF Removed, At
<1>0. TypeOK /\ Shapes /\ cmd[c].at = "removing" /\ UNCHANGED <<active, temp, ready, cut, overlap, runs, kills>>
      /\ Target(c) \in Directories /\ dir \in [Directories -> {"absent", "torn", "whole"}]
  BY TargetTyped DEF StoreInv, TypeOK, history, Shapes, Shape, InstallSteps
<1>1. CASE dir[Target(c)] = "whole"
  <2>1. End(c) /\ UNCHANGED dir
    BY <1>1
  <2>2. SameElse(c)
    BY <1>0, <2>1, Ends
  <2>3. Harmless
    <3>1. \A d \in Directories : dir[d] = "whole" \/ d \in cut \/ d = Target(c) => Safe(d)'
      BY <1>0, <1>1, <2>1 DEF Safe
    <3> QED
      BY <2>2, <3>1, HarmlessStep
  <2>4. TornByRemoval'
    <3> SUFFICES ASSUME NEW d \in Directories, dir[d] = "torn", d \notin cut
                 PROVE  \E o \in Commands : cmd'[o].at \in {"removing", "deleting"} /\ Target(o)' = d
      BY <1>0, <2>1 DEF TornByRemoval
    <3>1. PICK o \in Commands : cmd[o].at \in {"removing", "deleting"} /\ Target(o) = d
      BY DEF StoreInv, TornByRemoval
    <3> QED
      BY <1>1, <2>2, <3>1 DEF SameElse, Target
  <2> QED
    BY <1>0, <2>1, <2>3, <2>4, EndKeeps
<1>2. CASE dir[Target(c)] # "whole"
  <2>1. Goto(c, "swap") /\ dir' = [dir EXCEPT ![Target(c)] = "absent"]
    BY <1>2 DEF Place
  <2>2. /\ cmd' \in [Commands -> Command] /\ Shapes' /\ SameElse(c) /\ CleanKnows(c)'
        /\ cmd'[c].at = "swap" /\ Target(c)' = Target(c)
    BY <1>0, <2>1, Goes DEF InstallSteps, Steps
  <2>3. Harmless
    <3>1. \A d \in Directories : d = Target(c) => Safe(d)'
      BY <2>2 DEF Safe, BeingReplaced
    <3>2. \A d \in Directories : dir[d] = "whole" \/ d \in cut => Safe(d)'
      BY <1>0, <1>2, <2>1 DEF Safe
    <3> QED
      BY <2>2, <3>1, <3>2, HarmlessStep
  <2>4. WritesOwn(c)'
    BY <2>2 DEF WritesOwn
  <2>5. overlap # "clean" => InstallSafe(c)'
    BY <1>0, <2>1, <2>3, GoesSafe DEF InstallSteps
  <2>6. NoBadClean' /\ NoOverlap'
    BY <1>0, <2>2, <2>3, <2>4, <2>5, QuietStep DEF CleanSteps
  <2>7. TornByRemoval'
    <3> SUFFICES ASSUME NEW d \in Directories, dir'[d] = "torn", d \notin cut
                 PROVE  \E o \in Commands : cmd'[o].at \in {"removing", "deleting"} /\ Target(o)' = d
      BY <1>0 DEF TornByRemoval
    <3>1. d # Target(c) /\ dir[d] = "torn"
      BY <1>0, <2>1
    <3>2. PICK o \in Commands : cmd[o].at \in {"removing", "deleting"} /\ Target(o) = d
      BY <3>1 DEF StoreInv, TornByRemoval
    <3> QED
      BY <2>2, <3>1, <3>2 DEF SameElse, Target
  <2>8. dir' \in [Directories -> {"absent", "torn", "whole"}]
    BY <1>0, <2>1
  <2> QED
    BY <1>0, <2>2, <2>6, <2>7, <2>8 DEF StoreInv, TypeOK
<1> QED
  BY <1>1, <1>2

LEMMA SwapKeeps == ASSUME StoreInv, NEW c \in Commands, Swap(c) PROVE StoreInv'
<1> USE DEF Swap, At
<1>0. TypeOK /\ Shapes /\ cmd[c].at = "swap" /\ UNCHANGED <<active, temp, ready, overlap, runs, kills>>
      /\ Target(c) \in Directories /\ dir \in [Directories -> {"absent", "torn", "whole"}]
  BY TargetTyped DEF StoreInv, TypeOK, Shapes, Shape, InstallSteps
<1>1. CASE dir[Target(c)] # "absent"
  <2>1. End(c) /\ UNCHANGED <<dir, cut>>
    BY <1>1
  <2>2. SameElse(c)
    BY <1>0, <2>1, Ends
  <2>3. ASSUME overlap # "clean" PROVE Harmless
    <3>1. ASSUME NEW d \in Directories, d = Target(c), dir[d] # "whole", d \notin cut PROVE Safe(d)'
      <4>1. dir[d] = "torn"
        BY <1>0, <1>1, <3>1
      <4>2. PICK o \in Commands : cmd[o].at \in {"removing", "deleting"} /\ Target(o) = d
        BY <3>1, <4>1 DEF StoreInv, TornByRemoval
      <4>3. cmd[o].at # "deleting"
        <5>1. cmd[o].at \in CleanSteps => Others(o) = {}
          BY <2>3 DEF StoreInv, NoBadClean, CleansAlone
        <5> QED
          BY <1>0, <5>1 DEF Others, CleanSteps
      <4>4. o # c
        BY <1>0, <4>2
      <4> QED
        BY <2>2, <4>2, <4>3, <4>4 DEF Safe, BeingReplaced, SameElse, Target
    <3>2. \A d \in Directories : dir[d] = "whole" \/ d \in cut => Safe(d)'
      BY <2>1 DEF Safe
    <3> QED
      BY <2>2, <3>1, <3>2, HarmlessStep
  <2>4. TornByRemoval'
    BY <1>0, <2>1, <2>2, TornAsBefore
  <2> QED
    BY <1>0, <2>1, <2>3, <2>4, EndKeeps
<1>2. CASE dir[Target(c)] = "absent"
  <2>1. /\ dir' = [dir EXCEPT ![Target(c)] = "whole"] /\ cut' = cut \ {Target(c)}
        /\ InPlace(c) \/ End(c)
    BY <1>2 DEF Place
  <2>2. /\ cmd' \in [Commands -> Command] /\ Shapes' /\ SameElse(c) /\ CleanKnows(c)' /\ WritesOwn(c)'
        /\ cmd'[c].at \in {"idle", "load", "open"}
    BY <1>0, <2>1, InPlaceMoves, Ends
  <2>3. Harmless
    <3>1. \A d \in Directories : dir[d] = "whole" \/ d \in cut \/ d = Target(c) => Safe(d)'
      BY <1>0, <2>1 DEF Safe
    <3> QED
      BY <2>2, <3>1, HarmlessStep
  <2>4. \A d \in Directories : d = Target(c) => Safe(d)'
    BY <1>0, <2>1 DEF Safe
  <2>5. overlap # "clean" => InstallSafe(c)'
    BY <1>0, <2>1, <2>3, <2>4, InPlaceSafe, Ends
  <2>6. NoBadClean' /\ NoOverlap'
    BY <1>0, <2>2, <2>3, <2>5, QuietStep DEF CleanSteps
  <2>7. TornByRemoval'
    <3> SUFFICES ASSUME NEW d \in Directories, dir'[d] = "torn", d \notin cut'
                 PROVE  \E o \in Commands : cmd'[o].at \in {"removing", "deleting"} /\ Target(o)' = d
      BY DEF TornByRemoval
    <3>1. d # Target(c) /\ dir[d] = "torn" /\ d \notin cut
      BY <1>0, <2>1
    <3>2. PICK o \in Commands : cmd[o].at \in {"removing", "deleting"} /\ Target(o) = d
      BY <3>1 DEF StoreInv, TornByRemoval
    <3> QED
      BY <2>2, <3>1, <3>2 DEF SameElse, Target
  <2>8. dir' \in [Directories -> {"absent", "torn", "whole"}] /\ cut' \subseteq Directories
    BY <1>0, <2>1 DEF TypeOK
  <2> QED
    BY <1>0, <2>2, <2>6, <2>7, <2>8 DEF StoreInv, TypeOK
<1> QED
  BY <1>1, <1>2

-----------------------------------------------------------------------------
(* Recording. *)

LEMMA LoadKeeps == ASSUME StoreInv, NEW c \in Commands, Load(c) PROVE StoreInv'
<1> DEFINE current == active["toolchains"]
           new == [current EXCEPT ![cmd[c].tool] = cmd[c].version]
           r == [cmd[c] EXCEPT !.at = "open", !.data = new]
<1>0. TypeOK /\ Shapes /\ cmd[c].at = "load" /\ UNCHANGED <<dir, active, temp, ready, cut, overlap, runs, kills>>
      /\ cmd[c] \in Command /\ Shape(cmd[c]) /\ cmd \in [Commands -> Command] /\ "toolchains" \in Pointers
  BY DEF StoreInv, TypeOK, Shapes, Load, At, history, Pointers
<1>1. cmd[c].version \in Versions /\ cmd[c].tool \in Platforms /\ cmd[c].what = "setup" /\ cmd[c].platform \in Platforms
      /\ cmd[c].tool \in Tools
  BY <1>0 DEF Shape, InstallSteps, Tools
<1>2. CASE End(c)
  BY <1>0, <1>2, EndQuietly
<1>3. CASE Readable(current) /\ cmd' = [cmd EXCEPT ![c].at = "open", ![c].data = new]
  <2>1. current \in Records
    BY <1>0, <1>3 DEF TypeOK, Readable
  <2>2. new \in Records
    BY <1>1, <2>1, NewRecord
  <2>3. References(new) \subseteq References(current) \cup {Target(c), <<"frontend", cmd[c].version>>}
    BY <1>1, <2>1, EntryAdds DEF Target
  <2>4. References(new) \subseteq Directories
    BY <2>2, ReferencesTyped
  <2> HIDE DEF new
  <2>6. r \in Command /\ r.at = "open" /\ r.data = new /\ r.tool = cmd[c].tool
        /\ r.version = cmd[c].version /\ r.what = cmd[c].what /\ r.platform = cmd[c].platform
    BY <1>0, <2>2 DEF Command, Steps
  <2>7. cmd' = [cmd EXCEPT ![c] = r]
    BY <1>0, <1>3
  <2> HIDE DEF r
  <2>8. Shape(r)
    BY <1>0, <1>1, <2>6 DEF Shape, InstallSteps, CleanSteps
  <2>9. cmd' \in [Commands -> Command] /\ Shapes' /\ SameElse(c) /\ cmd'[c] = r
    BY <1>0, <2>6, <2>7, <2>8, Moves
  <2>10. Harmless
    BY <1>0, <2>9, HarmlessMove
  <2>11. CleanKnows(c)'
    BY <2>6, <2>9 DEF CleanKnows
  <2>12. WritesOwn(c)'
    BY <1>0, <2>6, <2>9 DEF WritesOwn, new
  <2>13. ASSUME overlap # "clean" PROVE InstallSafe(c)'
    <3>1. InstallSafe(c) /\ AllSafe(current)
      BY <1>0, <2>13 DEF StoreInv, NoBadClean, RecordedSafe
    <3>2. \A d \in References(new) : Safe(d)
      BY <1>0, <1>1, <2>3, <3>1 DEF InstallSafe, AllSafe, InstallSteps
    <3>3. \A d \in References(new) : Safe(d)'
      BY <2>4, <2>10, <3>2 DEF Harmless
    <3> DEFINE t == Target(c)
               e == <<"frontend", cmd[c].version>>
    <3>4. t' = t /\ e' = e /\ t \in Directories /\ e \in Directories
      BY <1>0, <1>1, <2>6, <2>9, TargetTyped DEF Target, Directories, Tools
    <3>5. Safe(t) /\ Safe(e)
      BY <1>0, <1>1, <3>1 DEF InstallSafe, InstallSteps
    <3>6. Safe(t)' /\ Safe(e)'
      BY <2>10, <3>4, <3>5 DEF Harmless, Safe, BeingReplaced
    <3>7. AllSafe(cmd[c].data)'
      BY <2>6, <2>9, <3>3 DEF AllSafe
    <3> QED
      BY <2>6, <2>9, <3>6, <3>7 DEF InstallSafe
  <2>14. NoBadClean' /\ NoOverlap'
    BY <1>0, <2>6, <2>9, <2>10, <2>11, <2>12, <2>13, QuietStep DEF CleanSteps, At
  <2>15. TornByRemoval'
    BY <1>0, <2>9, TornAsBefore
  <2> QED
    BY <1>0, <2>9, <2>14, <2>15 DEF StoreInv, TypeOK
<1> QED
  BY <1>2, <1>3 DEF Load

LEMMA PointerTyped == ASSUME NEW c \in Commands PROVE PointerOf(cmd[c].tool) \in Pointers
BY DEF PointerOf, Pointers

(* A command that records leaves the directories alone: what it held and   *)
(* is still at, and what the pointers name, is safe as before.             *)
LEMMA StillSafe ==
    ASSUME StoreInv, NEW c \in Commands, overlap # "clean", Harmless, InstallSafe(c),
           cmd[c].at \in {"open", "write", "publish"}, cmd'[c].at \in {"write", "publish"},
           cmd'[c].tool = cmd[c].tool, cmd'[c].version = cmd[c].version, cmd'[c].what = cmd[c].what,
           cmd'[c].data = cmd[c].data, AllSafe(temp[PointerOf(cmd[c].tool)])'
    PROVE  InstallSafe(c)'
<1> DEFINE t == Target(c)
           e == <<"frontend", cmd[c].version>>
<1>0. cmd[c] \in Command /\ cmd[c].version \in Versions
  BY DEF StoreInv, TypeOK, Shapes, Shape, InstallSteps
<1>1. t' = t /\ e' = e /\ t \in Directories /\ e \in Directories
  BY <1>0, TargetTyped DEF Target, Directories, Tools
<1>2. Safe(t)'
  BY <1>1 DEF InstallSafe, Harmless, Safe, BeingReplaced
<1>3. cmd[c].what = "setup" /\ cmd[c].tool \in Platforms => Safe(e)'
  BY <1>1 DEF InstallSafe, InstallSteps, Harmless, Safe, BeingReplaced
<1>4. References(cmd[c].data) \subseteq Directories
  BY <1>0, ReferencesTyped DEF Command
<1>5. AllSafe(cmd[c].data)'
  BY <1>4 DEF AllSafe, Harmless, InstallSafe
<1> HIDE DEF t, e
<1> QED
  BY <1>2, <1>3, <1>5 DEF InstallSafe, t, e

LEMMA SafeAsBefore ==
    ASSUME Harmless, NEW content \in Records \cup {NoFile, Empty, Garbled}, AllSafe(content)
    PROVE  \A d \in References(content) : Safe(d)'
BY ReferencesTyped DEF AllSafe, Harmless

LEMMA OpenKeeps == ASSUME StoreInv, NEW c \in Commands, Open(c) PROVE StoreInv'
<1> DEFINE r == [cmd[c] EXCEPT !.at = "write", !.file = "temp"]
           k == PointerOf(cmd[c].tool)
<1>0. TypeOK /\ Shapes /\ cmd[c].at = "open" /\ UNCHANGED <<dir, active, ready, cut, overlap, runs, kills>>
      /\ cmd[c] \in Command /\ Shape(cmd[c]) /\ cmd \in [Commands -> Command] /\ k \in Pointers
      /\ temp' = [temp EXCEPT ![k] = Empty] /\ temp \in [Pointers -> Records \cup {Empty, Garbled, NoFile}]
  BY PointerTyped DEF StoreInv, TypeOK, Shapes, Open, At, history
<1>1. r \in Command /\ r.at = "write" /\ r.data = cmd[c].data /\ r.tool = cmd[c].tool /\ r.file = "temp"
      /\ r.version = cmd[c].version /\ r.what = cmd[c].what /\ r.platform = cmd[c].platform
  BY <1>0 DEF Command, Steps
<1>2. cmd' = [cmd EXCEPT ![c] = r]
  BY <1>0 DEF Open
<1> HIDE DEF r
<1>3. Shape(r)
  BY <1>0, <1>1 DEF Shape, InstallSteps, CleanSteps
<1>4. cmd' \in [Commands -> Command] /\ Shapes' /\ SameElse(c) /\ cmd'[c] = r
  BY <1>0, <1>1, <1>2, <1>3, Moves
<1>5. Harmless
  BY <1>0, <1>4, HarmlessMove
<1>6. CleanKnows(c)'
  BY <1>1, <1>4 DEF CleanKnows
<1>7. temp'[k] = Empty /\ \A q \in Pointers \ {k} : temp'[q] = temp[q]
  BY <1>0
<1>8. ASSUME overlap # "clean", NEW q \in Pointers, AllSafe(temp[q]) \/ q = k PROVE AllSafe(temp[q])'
  <2>1. CASE q = k
    BY <1>7, <2>1, OthersSayNothing DEF AllSafe
  <2>2. CASE q # k
    BY <1>0, <1>5, <1>7, <1>8, <2>2, SafeAsBefore DEF AllSafe
  <2> QED
    BY <2>1, <2>2
<1>9. ASSUME overlap # "clean" PROVE InstallSafe(c)'
  <2>1. InstallSafe(c)
    BY <1>9 DEF StoreInv, NoBadClean
  <2>2. PointerOf(cmd[c].tool)' = k
    BY <1>1, <1>4
  <2>3. AllSafe(temp[PointerOf(cmd[c].tool)])'
    BY <1>7, <2>2, OthersSayNothing DEF AllSafe
  <2> QED
    BY <1>0, <1>1, <1>4, <1>5, <1>9, <2>1, <2>3, StillSafe
<1>10. ASSUME overlap # "clean" PROVE RecordedSafe'
  <2>1. ASSUME NEW q \in Pointers PROVE AllSafe(active[q])'
    BY <1>0, <1>5, <1>10, SafeAsBefore DEF StoreInv, NoBadClean, RecordedSafe, AllSafe, TypeOK
  <2> QED
    BY <2>1 DEF RecordedSafe
<1>11. ASSUME overlap # "clean", NEW o \in Others(c), cmd[o].at \in {"write", "publish"}
       PROVE  AllSafe(temp[PointerOf(cmd[o].tool)])'
  <2> DEFINE q == PointerOf(cmd[o].tool)
  <2>1. o \in Commands /\ q' = q /\ q \in Pointers
    BY <1>4, PointerTyped DEF Others, SameElse, PointerOf
  <2>2. AllSafe(temp[q])
    BY <1>11, <2>1 DEF StoreInv, NoBadClean, InstallSafe
  <2> HIDE DEF q
  <2>3. AllSafe(temp[q])'
    BY <1>8, <1>11, <2>1, <2>2 DEF AllSafe
  <2> QED
    BY <2>3 DEF q
<1>12. NoBadClean'
  BY <1>0, <1>1, <1>4, <1>5, <1>6, <1>9, <1>10, <1>11, StepIsSafe DEF Harmless, At, CleanSteps
<1>13. ASSUME overlap = "none" PROVE PointersTrue' /\ WritesOwn(c)'
  <2>1. PointersTrue /\ WritesOwn(c)
    BY <1>13 DEF StoreInv, NoOverlap
  <2>2. WritesOwn(c)'
    BY <1>0, <1>1, <1>4, <1>7, <2>1 DEF WritesOwn
  <2> QED
    BY <1>0, <2>1, <2>2 DEF PointersTrue
<1>14. NoOverlap'
  BY <1>0, <1>4, <1>13, StepIsOwn DEF At
<1>15. TornByRemoval'
  BY <1>0, <1>4, TornAsBefore
<1>16. temp' \in [Pointers -> Records \cup {Empty, Garbled, NoFile}]
  BY <1>0
<1> QED
  BY <1>0, <1>4, <1>12, <1>14, <1>15, <1>16 DEF StoreInv, TypeOK

(* A write through c's descriptor, wherever that leads by now. *)
LEMMA WriteIsSafe ==
    ASSUME StoreInv, NEW c \in Commands, cmd[c].at = "write", SameElse(c), UNCHANGED <<dir, cut, overlap>>,
           NEW content \in {cmd[c].data, Garbled, Held(c)}, WriteThrough(c, content)
    PROVE  /\ active' \in [Pointers -> Records \cup {Empty, Garbled}]
           /\ temp' \in [Pointers -> Records \cup {Empty, Garbled, NoFile}]
           /\ overlap # "clean" =>
                 /\ RecordedSafe'
                 /\ \A q \in Pointers : AllSafe(temp[q]) \/ q = PointerOf(cmd[c].tool) =>
                        \A d \in References(temp'[q]) : Safe(d)'
           /\ overlap = "none" =>
                 /\ active' = active /\ temp' = [temp EXCEPT ![PointerOf(cmd[c].tool)] = content]
                 /\ Held(c) = Empty
<1> DEFINE k == PointerOf(cmd[c].tool)
           file == cmd[c].file
<1>0. /\ cmd[c] \in Command /\ k \in Pointers /\ active \in [Pointers -> Records \cup {Empty, Garbled}]
      /\ temp \in [Pointers -> Records \cup {Empty, Garbled, NoFile}]
  BY PointerTyped DEF StoreInv, TypeOK
<1>1. /\ temp' = IF file = "temp" THEN [temp EXCEPT ![k] = content] ELSE temp
      /\ active' = IF file = "active" THEN [active EXCEPT ![k] = content] ELSE active
  BY DEF WriteThrough
<1>2. cmd[c].data \in Records /\ file \in {"temp", "active", "gone"}
  BY <1>0 DEF Command
<1>3. Held(c) = IF file = "temp" THEN temp[k] ELSE IF file = "active" THEN active[k] ELSE Empty
  BY <1>2 DEF Held
<1> HIDE DEF k, file
<1>4. content \in Records \cup {Empty, Garbled, NoFile} /\ (file = "active" => content \in Records \cup {Empty, Garbled})
  BY <1>0, <1>2, <1>3
<1>5. /\ active' \in [Pointers -> Records \cup {Empty, Garbled}]
      /\ temp' \in [Pointers -> Records \cup {Empty, Garbled, NoFile}]
  BY <1>0, <1>1, <1>4
<1>6. Harmless
  BY HarmlessMove
<1>7. ASSUME overlap # "clean"
      PROVE  /\ RecordedSafe'
             /\ \A q \in Pointers : AllSafe(temp[q]) \/ q = k => \A d \in References(temp'[q]) : Safe(d)'
  <2>0. InstallSafe(c) /\ RecordedSafe
    BY <1>7 DEF StoreInv, NoBadClean
  <2>1. AllSafe(cmd[c].data) /\ AllSafe(temp[k]) /\ AllSafe(active[k])
    BY <1>0, <2>0 DEF InstallSafe, RecordedSafe, k
  <2>2. AllSafe(content)
    BY <1>3, <2>1, OthersSayNothing DEF AllSafe
  <2>3. ASSUME NEW q \in Pointers PROVE AllSafe(active[q])'
    <3>1. \A d \in References(content) : Safe(d)'
      BY <1>4, <1>6, <2>2, SafeAsBefore
    <3>2. \A d \in References(active[q]) : Safe(d)'
      BY <1>0, <1>6, <2>0, SafeAsBefore DEF RecordedSafe
    <3>3. active'[q] = content \/ active'[q] = active[q]
      BY <1>0, <1>1
    <3> QED
      BY <3>1, <3>2, <3>3 DEF AllSafe
  <2>4. ASSUME NEW q \in Pointers, AllSafe(temp[q]) \/ q = k PROVE \A d \in References(temp'[q]) : Safe(d)'
    <3>1. \A d \in References(content) : Safe(d)'
      BY <1>4, <1>6, <2>2, SafeAsBefore
    <3>2. \A d \in References(temp[q]) : Safe(d)'
      BY <1>0, <1>6, <2>1, <2>4, SafeAsBefore
    <3>3. temp'[q] = content \/ temp'[q] = temp[q]
      BY <1>0, <1>1
    <3> QED
      BY <3>1, <3>2, <3>3
  <2> QED
    BY <2>3, <2>4 DEF RecordedSafe
<1>8. ASSUME overlap = "none"
      PROVE  active' = active /\ temp' = [temp EXCEPT ![k] = content] /\ Held(c) = Empty
  <2>1. file = "temp" /\ temp[k] = Empty
    BY <1>8 DEF StoreInv, NoOverlap, WritesOwn, file, k
  <2> QED
    BY <1>1, <1>3, <2>1
<1> QED
  BY <1>5, <1>7, <1>8 DEF k

LEMMA OthersTempSafe ==
    ASSUME StoreInv, NEW c \in Commands, SameElse(c), overlap # "clean", NEW o \in Others(c),
           cmd[o].at \in {"write", "publish"},
           \A q \in Pointers : AllSafe(temp[q]) => \A d \in References(temp'[q]) : Safe(d)'
    PROVE  AllSafe(temp[PointerOf(cmd[o].tool)])'
<1> DEFINE q == PointerOf(cmd[o].tool)
<1>1. o \in Commands /\ q' = q /\ q \in Pointers
  BY PointerTyped DEF Others, SameElse, PointerOf
<1>2. AllSafe(temp[q])
  BY <1>1 DEF StoreInv, NoBadClean, InstallSafe
<1> HIDE DEF q
<1>3. AllSafe(temp[q])'
  BY <1>1, <1>2 DEF AllSafe
<1> QED
  BY <1>3 DEF q

LEMMA WriteKeeps == ASSUME StoreInv, NEW c \in Commands, Write(c) PROVE StoreInv'
<1>0. TypeOK /\ Shapes /\ cmd[c].at = "write" /\ UNCHANGED <<dir, ready, cut, overlap, runs, kills>>
      /\ cmd[c] \in Command /\ Shape(cmd[c]) /\ cmd \in [Commands -> Command]
  BY DEF StoreInv, TypeOK, Shapes, Write, At, history
<1>1. ASSUME NEW content \in Written(c), WriteThrough(c, content), Goto(c, "publish") PROVE StoreInv'
  <2> DEFINE r == [cmd[c] EXCEPT !.at = "publish"]
             k == PointerOf(cmd[c].tool)
  <2>1. r \in Command /\ r.at = "publish" /\ r.data = cmd[c].data /\ r.tool = cmd[c].tool
        /\ r.version = cmd[c].version /\ r.what = cmd[c].what /\ r.platform = cmd[c].platform
    BY <1>0 DEF Command, Steps
  <2>2. cmd' = [cmd EXCEPT ![c] = r]
    BY <1>0, <1>1 DEF Goto
  <2> HIDE DEF r
  <2>3. Shape(r)
    BY <1>0, <2>1 DEF Shape, InstallSteps, CleanSteps
  <2>4. cmd' \in [Commands -> Command] /\ Shapes' /\ SameElse(c) /\ cmd'[c] = r
    BY <1>0, <2>1, <2>2, <2>3, Moves
  <2>5. content \in {cmd[c].data, Garbled}
    BY <1>1 DEF Written
  <2>6. /\ active' \in [Pointers -> Records \cup {Empty, Garbled}]
        /\ temp' \in [Pointers -> Records \cup {Empty, Garbled, NoFile}]
        /\ overlap # "clean" =>
              /\ RecordedSafe'
              /\ \A q \in Pointers : AllSafe(temp[q]) \/ q = k => \A d \in References(temp'[q]) : Safe(d)'
        /\ overlap = "none" =>
              active' = active /\ temp' = [temp EXCEPT ![k] = content] /\ Held(c) = Empty
    BY <1>0, <1>1, <2>4, <2>5, WriteIsSafe
  <2>7. Harmless
    BY <1>0, <2>4, HarmlessMove
  <2>8. CleanKnows(c)'
    BY <2>1, <2>4 DEF CleanKnows
  <2>9. k' = k /\ k \in Pointers
    BY <2>1, <2>4, PointerTyped
  <2> HIDE DEF k
  <2>10. ASSUME overlap # "clean" PROVE InstallSafe(c)'
    <3>1. InstallSafe(c)
      BY <2>10 DEF StoreInv, NoBadClean
    <3>2. AllSafe(temp[k])'
      BY <2>6, <2>9, <2>10 DEF AllSafe
    <3> QED
      BY <1>0, <2>1, <2>4, <2>7, <2>10, <3>1, <3>2, StillSafe DEF k
  <2>11. NoBadClean'
    BY <1>0, <2>1, <2>4, <2>6, <2>7, <2>8, <2>10, OthersTempSafe, StepIsSafe DEF Harmless, At, CleanSteps
  <2>12. ASSUME overlap = "none" PROVE PointersTrue' /\ WritesOwn(c)'
    <3>1. PointersTrue /\ WritesOwn(c)
      BY <2>12 DEF StoreInv, NoOverlap
    <3>2. active' = active /\ content = cmd[c].data /\ temp' = [temp EXCEPT ![k] = content]
      BY <1>1, <2>6, <2>12 DEF Written
    <3>3. temp'[k] = cmd[c].data
      BY <1>0, <2>9, <3>2 DEF TypeOK
    <3>4. WritesOwn(c)'
      BY <1>0, <2>1, <2>4, <2>9, <3>1, <3>2, <3>3 DEF WritesOwn, k
    <3> QED
      BY <1>0, <3>1, <3>2, <3>4 DEF PointersTrue
  <2>13. NoOverlap'
    BY <1>0, <2>4, <2>12, StepIsOwn DEF At
  <2>14. TornByRemoval'
    BY <1>0, <2>4, TornAsBefore
  <2> QED
    BY <1>0, <2>4, <2>6, <2>11, <2>13, <2>14 DEF StoreInv, TypeOK
<1>2. ASSUME NEW content \in {Held(c), Garbled}, WriteThrough(c, content), End(c) PROVE StoreInv'
  <2>1. /\ cmd' \in [Commands -> Command] /\ Shapes' /\ SameElse(c) /\ cmd'[c].at = "idle"
        /\ InstallSafe(c)' /\ CleanKnows(c)' /\ WritesOwn(c)'
    BY <1>0, <1>2, Ends
  <2>2. /\ active' \in [Pointers -> Records \cup {Empty, Garbled}]
        /\ temp' \in [Pointers -> Records \cup {Empty, Garbled, NoFile}]
        /\ overlap # "clean" =>
              /\ RecordedSafe'
              /\ \A q \in Pointers : AllSafe(temp[q]) => \A d \in References(temp'[q]) : Safe(d)'
        /\ overlap = "none" => active' = active
    BY <1>0, <1>2, <2>1, WriteIsSafe
  <2>3. Harmless
    BY <1>0, <2>1, HarmlessMove
  <2>4. NoBadClean'
    BY <1>0, <2>1, <2>2, <2>3, OthersTempSafe, StepIsSafe DEF Harmless, At, CleanSteps
  <2>5. overlap = "none" => PointersTrue'
    BY <1>0, <2>2 DEF StoreInv, NoOverlap, PointersTrue
  <2>6. NoOverlap'
    BY <1>0, <2>1, <2>5, StepIsOwn DEF At
  <2>7. TornByRemoval'
    BY <1>0, <2>1, TornAsBefore
  <2> QED
    BY <1>0, <2>1, <2>2, <2>4, <2>6, <2>7 DEF StoreInv, TypeOK
<1> QED
  BY <1>1, <1>2 DEF Write

(* What a command may go on to after it recorded something. *)
LEMMA OnwardMoves ==
    ASSUME TypeOK, Shapes, NEW c \in Commands, cmd[c].at = "publish", Onward(c, Follow(c, PointerOf(cmd[c].tool)))
    PROVE  /\ cmd' \in [Commands -> Command] /\ Shapes' /\ SameElse(c) /\ CleanKnows(c)' /\ WritesOwn(c)'
           /\ cmd'[c].at \in {"idle", "check"}
           /\ cmd'[c].at = "check" /\ cmd'[c].tool \in Platforms =>
                  cmd[c].tool = "frontend" /\ cmd'[c].version = cmd[c].version
<1> DEFINE follow == Follow(c, PointerOf(cmd[c].tool))
           state == cmd[c]
           rest == state.todo \ {state.tool}
<1>0. cmd[c] \in Command /\ Shape(cmd[c]) /\ cmd \in [Commands -> Command]
  BY DEF TypeOK, Shapes
<1>1. ASSUME NEW o \in Commands
      PROVE  /\ follow[o] \in Command /\ follow[o].at = cmd[o].at /\ follow[o].what = cmd[o].what
             /\ follow[o].tool = cmd[o].tool /\ follow[o].version = cmd[o].version
             /\ follow[o].data = cmd[o].data /\ follow[o].set = cmd[o].set /\ follow[o].platform = cmd[o].platform
             /\ o = c => follow[o] = cmd[o]
  <2> DEFINE q == cmd[o]
             to == IF q.file = "temp" THEN "active" ELSE "gone"
             moved == [q EXCEPT !.file = to]
  <2>1. q \in Command
    BY <1>0
  <2>2. /\ moved \in Command /\ moved.at = q.at /\ moved.what = q.what /\ moved.tool = q.tool
        /\ moved.version = q.version /\ moved.data = q.data /\ moved.set = q.set /\ moved.platform = q.platform
    <3>1. to \in {"temp", "active", "gone"}
      OBVIOUS
    <3> HIDE DEF to, q
    <3> QED
      BY <2>1, <3>1 DEF Command
  <2>3. follow[o] = q \/ follow[o] = moved
    BY DEF Follow
  <2>4. o = c => follow[o] = cmd[o]
    BY DEF Follow
  <2> HIDE DEF moved, follow
  <2> QED
    BY <2>1, <2>2, <2>3, <2>4
<1>2. follow \in [Commands -> Command] /\ DOMAIN follow = Commands
  <2>1. follow = [o \in Commands |-> follow[o]]
    BY DEF Follow
  <2> HIDE DEF follow
  <2> QED
    BY <1>1, <2>1
<1>3. state.version \in Versions /\ state.what # "clean" /\ state.tool \in Tools /\ state.todo \in SUBSET Platforms
      /\ (state.what = "setup" => state.platform \in Platforms) /\ state.what \in {"setup", "install", "clean"}
      /\ state.force \in BOOLEAN
  BY <1>0 DEF Shape, InstallSteps, Command
<1>4. ASSUME NEW r \in Command, Shape(r), cmd' = [follow EXCEPT ![c] = r], r.at \in {"idle", "check"},
             r.at = "check" /\ r.tool \in Platforms => state.tool = "frontend" /\ r.version = state.version
      PROVE  /\ cmd' \in [Commands -> Command] /\ Shapes' /\ SameElse(c) /\ CleanKnows(c)' /\ WritesOwn(c)'
             /\ cmd'[c].at \in {"idle", "check"}
             /\ cmd'[c].at = "check" /\ cmd'[c].tool \in Platforms =>
                    cmd[c].tool = "frontend" /\ cmd'[c].version = cmd[c].version
  <2> HIDE DEF follow
  <2>1. cmd' \in [Commands -> Command] /\ cmd'[c] = r /\ \A o \in Commands \ {c} : cmd'[o] = follow[o]
    BY <1>2, <1>4
  <2>2. SameElse(c)
    BY <1>1, <2>1 DEF SameElse
  <2>3. \A o \in Commands \ {c} : Shape(cmd[o]) => Shape(follow[o])
    BY <1>1 DEF Shape
  <2>4. Shapes'
    BY <1>4, <2>1, <2>3 DEF Shapes
  <2>5. CleanKnows(c)' /\ WritesOwn(c)'
    BY <1>4, <2>1 DEF CleanKnows, WritesOwn
  <2> QED
    BY <1>4, <2>1, <2>2, <2>4, <2>5
<1>5. CASE state.what = "install" \/ (state.what = "setup" /\ state.tool # "frontend" /\ rest = {})
  <2>1. cmd' = [follow EXCEPT ![c] = Idle]
    BY <1>5 DEF Onward
  <2>2. Idle.at = "idle"
    BY DEF Idle
  <2> HIDE DEF follow
  <2> QED
    BY <1>4, <2>1, <2>2, IdleTyped
<1>6. CASE state.what = "setup" /\ state.tool = "frontend"
  <2> DEFINE r == [state EXCEPT !.at = "check", !.tool = state.platform, !.data = NoRecord, !.file = "gone"]
  <2>1. follow[c] = state
    BY <1>1
  <2>2. cmd' = [follow EXCEPT ![c].at = "check", ![c].tool = state.platform, ![c].data = NoRecord, ![c].file = "gone"]
    BY <1>6 DEF Onward
  <2> HIDE DEF follow
  <2>3. cmd' = [follow EXCEPT ![c] = r]
    BY <2>1, <2>2
  <2> HIDE DEF state
  <2>4. state \in Command
    BY <1>0 DEF state
  <2>5. r \in Command /\ r.at = "check" /\ r.tool = state.platform /\ r.what = state.what
        /\ r.version = state.version /\ r.platform = state.platform
    BY <1>3, <1>6, <2>4, NoRecordIsOne DEF Command, Steps, Tools
  <2> HIDE DEF r
  <2>6. Shape(r)
    BY <1>3, <1>6, <2>5 DEF Shape, InstallSteps, CleanSteps
  <2> QED
    BY <1>4, <1>6, <2>3, <2>5, <2>6
<1>7. CASE state.what = "setup" /\ state.tool # "frontend" /\ rest # {}
  <2>1. PICK p \in rest :
            cmd' = [follow EXCEPT ![c] = [Idle EXCEPT !.at = "check", !.todo = rest, !.platform = p,
                                                      !.version = state.version, !.force = state.force]]
    BY <1>7 DEF Onward
  <2> DEFINE r == [Idle EXCEPT !.at = "check", !.todo = rest, !.platform = p,
                               !.version = state.version, !.force = state.force]
  <2>2. rest \in SUBSET Platforms /\ p \in Platforms
    BY <1>3, <2>1
  <2> HIDE DEF follow, rest, state
  <2>3. /\ r \in Command /\ r.at = "check" /\ r.tool = "frontend" /\ r.what = "setup"
        /\ r.version = state.version /\ r.platform = p
    <3>1. Idle \in Command /\ Idle.tool = "frontend" /\ Idle.what = "setup"
      BY IdleTyped DEF Idle
    <3> QED
      BY <1>3, <2>2, <3>1 DEF Command, Steps
  <2>4. cmd' = [follow EXCEPT ![c] = r]
    BY <2>1
  <2> HIDE DEF r
  <2>5. Shape(r) /\ "frontend" \notin Platforms
    BY <1>3, <2>2, <2>3, StoreAssumption DEF Shape, InstallSteps, CleanSteps
  <2> QED
    BY <1>4, <2>3, <2>4, <2>5
<1> QED
  BY <1>3, <1>5, <1>6, <1>7

LEMMA PublishKeeps == ASSUME StoreInv, NEW c \in Commands, Publish(c) PROVE StoreInv'
<1> DEFINE k == PointerOf(cmd[c].tool)
<1>0. TypeOK /\ Shapes /\ cmd[c].at = "publish" /\ UNCHANGED <<dir, cut, overlap, runs, kills>>
      /\ cmd[c] \in Command /\ Shape(cmd[c]) /\ k \in Pointers
      /\ active \in [Pointers -> Records \cup {Empty, Garbled}]
      /\ temp \in [Pointers -> Records \cup {Empty, Garbled, NoFile}]
      /\ ready \in [Platforms -> Versions \cup {None}]
  BY PointerTyped DEF StoreInv, TypeOK, Shapes, Publish, At
<1>v. cmd[c].version \in Versions /\ cmd[c].tool \in Tools
  BY <1>0 DEF Shape, InstallSteps, Command
<1>1. CASE End(c) /\ UNCHANGED <<active, temp, ready>>
  BY <1>0, <1>1, EndQuietly
<1>2. CASE temp[k] # NoFile /\ ~(End(c) /\ UNCHANGED <<active, temp, ready>>)
  <2>1. /\ active' = [active EXCEPT ![k] = temp[k]] /\ temp' = [temp EXCEPT ![k] = NoFile]
        /\ ready' = IF k = "frontends" THEN ready ELSE [ready EXCEPT ![cmd[c].tool] = cmd[c].version]
        /\ Onward(c, Follow(c, k))
    BY <1>2 DEF Publish
  <2>2. /\ cmd' \in [Commands -> Command] /\ Shapes' /\ SameElse(c) /\ CleanKnows(c)' /\ WritesOwn(c)'
        /\ cmd'[c].at \in {"idle", "check"}
        /\ cmd'[c].at = "check" /\ cmd'[c].tool \in Platforms =>
               cmd[c].tool = "frontend" /\ cmd'[c].version = cmd[c].version
    BY <1>0, <2>1, OnwardMoves
  <2>3. Harmless
    BY <1>0, <2>2, HarmlessMove
  <2>4. /\ active' \in [Pointers -> Records \cup {Empty, Garbled}]
        /\ temp' \in [Pointers -> Records \cup {Empty, Garbled, NoFile}]
        /\ ready' \in [Platforms -> Versions \cup {None}]
    <3>1. temp[k] \in Records \cup {Empty, Garbled}
      BY <1>0, <1>2
    <3> HIDE DEF k
    <3> QED
      BY <1>0, <1>v, <2>1, <3>1
  <2> HIDE DEF k
  <2>5. ASSUME overlap # "clean" PROVE RecordedSafe'
    <3>0. InstallSafe(c) /\ RecordedSafe
      BY <2>5 DEF StoreInv, NoBadClean
    <3> SUFFICES ASSUME NEW q \in Pointers PROVE AllSafe(active[q])'
      BY DEF RecordedSafe
    <3>1. AllSafe(temp[k]) /\ AllSafe(active[q])
      BY <1>0, <3>0 DEF InstallSafe, RecordedSafe, k
    <3>2. active'[q] = temp[k] \/ active'[q] = active[q]
      BY <1>0, <2>1
    <3>3. \A d \in References(temp[k]) : Safe(d)'
      BY <1>0, <2>3, <3>1, SafeAsBefore
    <3>4. \A d \in References(active[q]) : Safe(d)'
      BY <1>0, <2>3, <3>1, SafeAsBefore
    <3> QED
      BY <3>2, <3>3, <3>4 DEF AllSafe
  <2>6. ASSUME overlap # "clean", NEW o \in Others(c), cmd[o].at \in {"write", "publish"}
        PROVE  AllSafe(temp[PointerOf(cmd[o].tool)])'
    <3>1. ASSUME NEW q \in Pointers, AllSafe(temp[q]) PROVE \A d \in References(temp'[q]) : Safe(d)'
      <4>1. temp'[q] = NoFile \/ temp'[q] = temp[q]
        BY <1>0, <2>1
      <4>2. \A d \in References(temp[q]) : Safe(d)'
        BY <1>0, <2>3, <3>1, SafeAsBefore
      <4> QED
        BY <4>1, <4>2, OthersSayNothing
    <3> QED
      BY <2>2, <2>6, <3>1, OthersTempSafe
  <2>7. ASSUME overlap # "clean" PROVE InstallSafe(c)'
    <3>1. ASSUME cmd'[c].at = "check", cmd'[c].tool \in Platforms PROVE Safe(<<"frontend", cmd[c].version>>)'
      <4> DEFINE e == <<"frontend", cmd[c].version>>
      <4>1. e' = e /\ e = Target(c) /\ e \in Directories
        BY <1>v, <2>2, <3>1 DEF Target, Directories, Tools
      <4>2. Safe(e)
        BY <1>0, <2>7, <4>1 DEF StoreInv, NoBadClean, InstallSafe
      <4> QED
        BY <2>3, <4>1, <4>2 DEF Harmless, Safe, BeingReplaced
    <3> QED
      BY <2>2, <3>1 DEF InstallSafe, InstallSteps
  <2>8. NoBadClean'
    BY <1>0, <2>2, <2>3, <2>5, <2>6, <2>7, StepIsSafe DEF Harmless, At, CleanSteps
  <2>9. ASSUME overlap = "none" PROVE PointersTrue'
    <3>0. PointersTrue /\ WritesOwn(c)
      BY <2>9 DEF StoreInv, NoOverlap
    <3>1. temp[k] = cmd[c].data /\ cmd[c].data \in Records
      BY <1>0, <3>0 DEF WritesOwn, Command, k
    <3>2. \A q \in Pointers : active'[q] \in Records
      BY <1>0, <2>1, <3>0, <3>1 DEF PointersTrue
    <3>3. CASE cmd[c].tool = "frontend"
      <4>1. k = "frontends"
        BY <3>3 DEF k, PointerOf
      <4>2. ready' = ready /\ active'["toolchains"] = active["toolchains"]
        BY <1>0, <2>1, <4>1 DEF Pointers
      <4> QED
        BY <3>0, <3>2, <4>2 DEF PointersTrue
    <3>4. CASE cmd[c].tool # "frontend"
      <4>1. k = "toolchains" /\ cmd[c].tool \in Platforms
        BY <1>v, <3>4 DEF k, PointerOf, Tools
      <4>2. active'["toolchains"] = [active["toolchains"] EXCEPT ![cmd[c].tool] = cmd[c].version]
        BY <1>0, <2>1, <3>0, <3>1, <4>1 DEF WritesOwn, Pointers
      <4>3. ready' = [ready EXCEPT ![cmd[c].tool] = cmd[c].version]
        BY <2>1, <4>1
      <4>4. active["toolchains"] \in [Tools -> Versions \cup {None}]
        BY <3>0 DEF PointersTrue, Pointers, Records
      <4>5. \A p \in Platforms : active'["toolchains"][p] = ready'[p]
        BY <1>0, <3>0, <4>2, <4>3, <4>4 DEF PointersTrue, Tools
      <4> QED
        BY <3>2, <4>5 DEF PointersTrue
    <3> QED
      BY <3>3, <3>4
  <2>10. NoOverlap'
    BY <1>0, <2>2, <2>9, StepIsOwn DEF At
  <2>11. TornByRemoval'
    BY <1>0, <2>2, TornAsBefore
  <2> QED
    BY <1>0, <2>2, <2>4, <2>8, <2>10, <2>11 DEF StoreInv, TypeOK
<1> QED
  BY <1>1, <1>2 DEF Publish

-----------------------------------------------------------------------------
(* Cleaning. *)

(* Nothing is being replaced while a clean runs alone, so that what the    *)
(* pointers refer to is whole or was cut, and stays so.                    *)
LEMMA CleaningIsSafe ==
    ASSUME StoreInv, NEW c \in Commands, cmd[c].at \in CleanSteps, overlap # "clean", UNCHANGED active,
           \A d \in Recorded : (dir[d] = "whole" => dir'[d] = "whole") /\ (d \in cut => d \in cut')
    PROVE  RecordedSafe' /\ Others(c) = {}
<1>0. RecordedSafe /\ Others(c) = {}
  BY DEF StoreInv, NoBadClean, CleansAlone
<1>1. \A d : ~BeingReplaced(d)
  BY <1>0 DEF BeingReplaced, Others, At, CleanSteps
<1>2. ASSUME NEW k \in Pointers, NEW d \in References(active[k]) PROVE Safe(d)'
  <2>1. Safe(d) /\ d \in Recorded
    BY <1>0, <1>2 DEF RecordedSafe, AllSafe, Recorded, Pointers
  <2> QED
    BY <1>1, <2>1 DEF Safe
<1> QED
  BY <1>0, <1>2 DEF RecordedSafe, AllSafe

LEMMA CleanStep ==
    ASSUME StoreInv, NEW c \in Commands, cmd[c].at \in CleanSteps, NEW r \in Command, Shape(r),
           r.at \in CleanSteps, cmd' = [cmd EXCEPT ![c] = r],
           UNCHANGED <<active, temp, ready, overlap, runs, kills>>,
           dir' \in [Directories -> {"absent", "torn", "whole"}], cut' \subseteq Directories, TornByRemoval',
           overlap # "clean" =>
               /\ \A d \in Recorded : (dir[d] = "whole" => dir'[d] = "whole") /\ (d \in cut => d \in cut')
               /\ CleanKnows(c)'
    PROVE  StoreInv'
<1>1. cmd' \in [Commands -> Command] /\ Shapes' /\ SameElse(c) /\ cmd'[c] = r
  BY Moves DEF StoreInv
<1>2. ASSUME overlap # "clean" PROVE RecordedSafe' /\ Others(c) = {}
  BY <1>2, CleaningIsSafe
<1>3. InstallSafe(c)' /\ WritesOwn(c)'
  BY <1>1 DEF InstallSafe, WritesOwn, InstallSteps, CleanSteps
<1>4. NoBadClean'
  BY <1>1, <1>2, <1>3, StepIsSafe DEF At, CleanSteps
<1>5. overlap = "none" => PointersTrue'
  BY DEF StoreInv, NoOverlap, PointersTrue
<1>6. NoOverlap'
  BY <1>1, <1>3, <1>5, StepIsOwn DEF At, CleanSteps
<1> QED
  BY <1>1, <1>4, <1>6 DEF StoreInv, TypeOK

LEMMA ReadFrontendsKeeps == ASSUME StoreInv, NEW c \in Commands, ReadFrontends(c) PROVE StoreInv'
<1> DEFINE found == References(active["frontends"])
           r == [cmd[c] EXCEPT !.at = "pointers", !.set = found]
<1>0. TypeOK /\ cmd[c].at = "clean" /\ UNCHANGED <<dir, active, temp, ready, cut, overlap, runs, kills>>
      /\ cmd[c] \in Command /\ Shape(cmd[c]) /\ cmd \in [Commands -> Command]
      /\ cmd' = [cmd EXCEPT ![c].at = "pointers", ![c].set = found]
  BY DEF StoreInv, TypeOK, Shapes, ReadFrontends, At, history
<1>1. found \in SUBSET Directories
  BY <1>0, ReferencesTyped DEF TypeOK, Pointers
<1>2. found' = found
  BY <1>0
<1> HIDE DEF found
<1>3. r \in Command /\ r.at = "pointers" /\ r.set = found /\ r.what = cmd[c].what
  BY <1>0, <1>1 DEF Command, Steps
<1>4. cmd' = [cmd EXCEPT ![c] = r]
  BY <1>0
<1> HIDE DEF r
<1>5. Shape(r)
  BY <1>0, <1>3 DEF Shape, InstallSteps, CleanSteps
<1>6. SameElse(c) /\ cmd'[c] = r
  BY <1>3, <1>4, <1>5, Moves DEF StoreInv
<1>7. CleanKnows(c)'
  BY <1>2, <1>3, <1>6 DEF CleanKnows, found
<1>8. TornByRemoval'
  BY <1>0, <1>6, TornAsBefore
<1> QED
  BY <1>0, <1>3, <1>4, <1>5, <1>7, <1>8, CleanStep DEF CleanSteps, TypeOK

LEMMA ReadToolchainsKeeps == ASSUME StoreInv, NEW c \in Commands, ReadToolchains(c) PROVE StoreInv'
<1> DEFINE keep == cmd[c].set \cup References(active["toolchains"]) \cup Pinned
           r == [cmd[c] EXCEPT !.at = "list", !.set = keep]
<1>0. TypeOK /\ cmd[c].at = "pointers" /\ UNCHANGED <<dir, active, temp, ready, cut, overlap, runs, kills>>
      /\ cmd[c] \in Command /\ Shape(cmd[c]) /\ cmd \in [Commands -> Command]
      /\ cmd' = [cmd EXCEPT ![c].at = "list", ![c].set = keep]
  BY DEF StoreInv, TypeOK, Shapes, ReadToolchains, At, history
<1>1. keep \in SUBSET Directories
  <2>1. References(active["toolchains"]) \subseteq Directories
    BY <1>0, ReferencesTyped DEF TypeOK, Pointers
  <2> QED
    BY <1>0, <2>1, StoreAssumption DEF Command
<1>2. overlap # "clean" => (Recorded \cup Pinned)' \subseteq keep
  BY <1>0 DEF StoreInv, NoBadClean, CleanKnows, Recorded
<1> HIDE DEF keep
<1>3. r \in Command /\ r.at = "list" /\ r.set = keep /\ r.what = cmd[c].what
  BY <1>0, <1>1 DEF Command, Steps
<1>4. cmd' = [cmd EXCEPT ![c] = r]
  BY <1>0
<1> HIDE DEF r
<1>5. Shape(r)
  BY <1>0, <1>3 DEF Shape, InstallSteps, CleanSteps
<1>6. SameElse(c) /\ cmd'[c] = r
  BY <1>3, <1>4, <1>5, Moves DEF StoreInv
<1>7. overlap # "clean" => CleanKnows(c)'
  BY <1>2, <1>3, <1>6 DEF CleanKnows
<1>8. TornByRemoval'
  BY <1>0, <1>6, TornAsBefore
<1> QED
  BY <1>0, <1>3, <1>4, <1>5, <1>7, <1>8, CleanStep DEF CleanSteps, TypeOK

LEMMA EnumerateKeeps == ASSUME StoreInv, NEW c \in Commands, Enumerate(c) PROVE StoreInv'
<1> DEFINE doomed == {d \in Directories : dir[d] # "absent"} \ cmd[c].set
           r == [cmd[c] EXCEPT !.at = "delete", !.set = doomed]
<1>0. TypeOK /\ cmd[c].at = "list" /\ UNCHANGED <<dir, active, temp, ready, cut, overlap, runs, kills>>
      /\ cmd[c] \in Command /\ Shape(cmd[c]) /\ cmd \in [Commands -> Command]
      /\ cmd' = [cmd EXCEPT ![c].at = "delete", ![c].set = doomed]
  BY DEF StoreInv, TypeOK, Shapes, Enumerate, At, history
<1>1. doomed \in SUBSET Directories
  OBVIOUS
<1>2. overlap # "clean" => doomed \cap (Recorded \cup Pinned)' = {}
  BY <1>0 DEF StoreInv, NoBadClean, CleanKnows, Recorded
<1> HIDE DEF doomed
<1>3. r \in Command /\ r.at = "delete" /\ r.set = doomed /\ r.what = cmd[c].what
  BY <1>0, <1>1 DEF Command, Steps
<1>4. cmd' = [cmd EXCEPT ![c] = r]
  BY <1>0
<1> HIDE DEF r
<1>5. Shape(r)
  BY <1>0, <1>3 DEF Shape, InstallSteps, CleanSteps
<1>6. SameElse(c) /\ cmd'[c] = r
  BY <1>3, <1>4, <1>5, Moves DEF StoreInv
<1>7. overlap # "clean" => CleanKnows(c)'
  BY <1>2, <1>3, <1>6 DEF CleanKnows
<1>8. TornByRemoval'
  BY <1>0, <1>6, TornAsBefore
<1> QED
  BY <1>0, <1>3, <1>4, <1>5, <1>7, <1>8, CleanStep DEF CleanSteps, TypeOK

LEMMA DeleteKeeps == ASSUME StoreInv, NEW c \in Commands, Delete(c) PROVE StoreInv'
<1>0. TypeOK /\ cmd[c].at = "delete" /\ UNCHANGED <<active, temp, ready, cut, overlap, runs, kills>>
      /\ cmd[c] \in Command /\ Shape(cmd[c]) /\ cmd \in [Commands -> Command]
      /\ dir \in [Directories -> {"absent", "torn", "whole"}]
  BY DEF StoreInv, TypeOK, Shapes, Delete, At, history
<1>1. CASE End(c) /\ UNCHANGED dir
  BY <1>0, <1>1, EndQuietly
<1>2. ASSUME NEW d \in cmd[c].set,
             cmd' = [cmd EXCEPT ![c].at = "deleting", ![c].tool = d[1], ![c].version = d[2]],
             Place(d, IF dir[d] = "absent" THEN "absent" ELSE "torn")
      PROVE  StoreInv'
  <2> DEFINE r == [cmd[c] EXCEPT !.at = "deleting", !.tool = d[1], !.version = d[2]]
             left == IF dir[d] = "absent" THEN "absent" ELSE "torn"
  <2>1. d \in Directories /\ d[1] \in Tools /\ d[2] \in Versions /\ d = <<d[1], d[2]>>
    BY <1>0 DEF Command, Directories
  <2>2. r \in Command /\ r.at = "deleting" /\ r.set = cmd[c].set /\ r.what = cmd[c].what
        /\ r.tool = d[1] /\ r.version = d[2]
    BY <1>0, <2>1 DEF Command, Steps
  <2>3. cmd' = [cmd EXCEPT ![c] = r]
    BY <1>0, <1>2
  <2> HIDE DEF r
  <2>4. Shape(r)
    BY <1>0, <2>1, <2>2 DEF Shape, InstallSteps, CleanSteps
  <2>5. SameElse(c) /\ cmd'[c] = r /\ Target(c)' = d
    BY <2>1, <2>2, <2>3, <2>4, Moves DEF StoreInv
  <2>6. dir' = [dir EXCEPT ![d] = left] /\ left \in {"absent", "torn"}
    BY <1>2 DEF Place
  <2> HIDE DEF left
  <2>7. dir' \in [Directories -> {"absent", "torn", "whole"}]
    BY <1>0, <2>6
  <2>8. TornByRemoval'
    <3> SUFFICES ASSUME NEW e \in Directories, dir'[e] = "torn", e \notin cut
                 PROVE  \E o \in Commands : cmd'[o].at \in {"removing", "deleting"} /\ Target(o)' = e
      BY <1>0 DEF TornByRemoval
    <3>1. CASE e = d
      BY <2>2, <2>5, <3>1
    <3>2. CASE e # d
      <4>1. dir[e] = "torn"
        BY <1>0, <2>6, <3>2
      <4>2. PICK o \in Commands : cmd[o].at \in {"removing", "deleting"} /\ Target(o) = e
        BY <4>1 DEF StoreInv, TornByRemoval
      <4> QED
        BY <1>0, <2>5, <4>2 DEF SameElse, Target
    <3> QED
      BY <3>1, <3>2
  <2>9. ASSUME overlap # "clean"
        PROVE  /\ \A e \in Recorded : (dir[e] = "whole" => dir'[e] = "whole") /\ (e \in cut => e \in cut')
               /\ CleanKnows(c)'
    <3>1. cmd[c].set \cap (Recorded \cup Pinned) = {}
      BY <1>0, <2>9 DEF StoreInv, NoBadClean, CleanKnows
    <3>2. \A e \in Recorded : e # d
      BY <3>1
    <3>3. Recorded \subseteq Directories
      BY <1>0, ReferencesTyped DEF TypeOK, Recorded, Pointers
    <3>4. \A e \in Recorded : dir'[e] = dir[e]
      BY <1>0, <2>6, <3>2, <3>3
    <3>5. (Recorded \cup Pinned)' = Recorded \cup Pinned
      BY <1>0 DEF Recorded
    <3>6. CleanKnows(c)'
      BY <2>2, <2>5, <3>1, <3>5 DEF CleanKnows
    <3> QED
      BY <1>0, <3>4, <3>6
  <2> QED
    BY <1>0, <2>2, <2>3, <2>4, <2>7, <2>8, <2>9, CleanStep DEF CleanSteps, TypeOK
<1> QED
  BY <1>1, <1>2 DEF Delete

LEMMA DeletedKeeps == ASSUME StoreInv, NEW c \in Commands, Deleted(c) PROVE StoreInv'
<1>0. TypeOK /\ Shapes /\ cmd[c].at = "deleting" /\ UNCHANGED <<active, temp, ready, overlap, runs, kills>>
      /\ cmd[c] \in Command /\ Shape(cmd[c]) /\ cmd \in [Commands -> Command]
      /\ dir \in [Directories -> {"absent", "torn", "whole"}] /\ cut \subseteq Directories
  BY DEF StoreInv, TypeOK, Shapes, Deleted, At
<1>t. Target(c) \in Directories
  BY <1>0, TargetTyped DEF Shape
<1>1. CASE dir[Target(c)] = "whole"
  <2>1. End(c) /\ UNCHANGED <<dir, cut>>
    BY <1>1 DEF Deleted
  <2>2. SameElse(c)
    BY <1>0, <2>1, Ends
  <2>3. Harmless
    BY <1>0, <2>1, <2>2, HarmlessMove
  <2>4. TornByRemoval'
    <3> SUFFICES ASSUME NEW d \in Directories, dir[d] = "torn", d \notin cut
                 PROVE  \E o \in Commands : cmd'[o].at \in {"removing", "deleting"} /\ Target(o)' = d
      BY <2>1 DEF TornByRemoval
    <3>1. PICK o \in Commands : cmd[o].at \in {"removing", "deleting"} /\ Target(o) = d
      BY DEF StoreInv, TornByRemoval
    <3> QED
      BY <1>1, <2>2, <3>1 DEF SameElse, Target
  <2> QED
    BY <1>0, <2>1, <2>3, <2>4, EndKeeps DEF At
<1>2. CASE dir[Target(c)] # "whole"
  <2> DEFINE left == cmd[c].set \ {Target(c)}
             r == [cmd[c] EXCEPT !.at = "delete", !.set = left]
  <2>1. /\ dir' = [dir EXCEPT ![Target(c)] = "absent"] /\ cut' = cut \ {Target(c)}
        /\ cmd' = [cmd EXCEPT ![c].at = "delete", ![c].set = left]
    BY <1>0, <1>2 DEF Deleted, Place
  <2>2. left \in SUBSET Directories /\ left \subseteq cmd[c].set
    BY <1>0 DEF Command
  <2> HIDE DEF left
  <2>3. r \in Command /\ r.at = "delete" /\ r.set = left /\ r.what = cmd[c].what
    BY <1>0, <2>2 DEF Command, Steps
  <2>4. cmd' = [cmd EXCEPT ![c] = r]
    BY <1>0, <2>1
  <2> HIDE DEF r
  <2>5. Shape(r)
    BY <1>0, <2>3 DEF Shape, InstallSteps, CleanSteps
  <2>6. SameElse(c) /\ cmd'[c] = r
    BY <1>0, <2>3, <2>4, <2>5, Moves
  <2>7. dir' \in [Directories -> {"absent", "torn", "whole"}] /\ cut' \subseteq Directories
    BY <1>0, <1>t, <2>1
  <2>8. TornByRemoval'
    <3> SUFFICES ASSUME NEW d \in Directories, dir'[d] = "torn", d \notin cut'
                 PROVE  \E o \in Commands : cmd'[o].at \in {"removing", "deleting"} /\ Target(o)' = d
      BY DEF TornByRemoval
    <3>1. d # Target(c) /\ dir[d] = "torn" /\ d \notin cut
      BY <1>0, <1>t, <2>1
    <3>2. PICK o \in Commands : cmd[o].at \in {"removing", "deleting"} /\ Target(o) = d
      BY <3>1 DEF StoreInv, TornByRemoval
    <3> QED
      BY <2>6, <3>1, <3>2 DEF SameElse, Target
  <2>9. ASSUME overlap # "clean"
        PROVE  /\ \A e \in Recorded : (dir[e] = "whole" => dir'[e] = "whole") /\ (e \in cut => e \in cut')
               /\ CleanKnows(c)'
    <3>1. cmd[c].set \cap (Recorded \cup Pinned) = {} /\ Target(c) \in cmd[c].set
      BY <1>0, <2>9 DEF StoreInv, NoBadClean, CleanKnows
    <3>2. \A e \in Recorded : e # Target(c)
      BY <3>1
    <3>3. Recorded \subseteq Directories
      BY <1>0, ReferencesTyped DEF TypeOK, Recorded, Pointers
    <3>4. \A e \in Recorded : dir'[e] = dir[e] /\ (e \in cut => e \in cut')
      BY <1>0, <2>1, <3>2, <3>3
    <3>5. (Recorded \cup Pinned)' = Recorded \cup Pinned
      BY <1>0 DEF Recorded
    <3>6. CleanKnows(c)'
      BY <2>2, <2>3, <2>6, <3>1, <3>5 DEF CleanKnows
    <3> QED
      BY <3>4, <3>6
  <2> QED
    BY <1>0, <2>3, <2>4, <2>5, <2>7, <2>8, <2>9, CleanStep DEF CleanSteps
<1> QED
  BY <1>1, <1>2

-----------------------------------------------------------------------------
(* The start and the end of a command. *)

(* A clean that starts beside another command, or a command that starts    *)
(* beside a clean, ends what is promised as long as cleans run alone.      *)
LEMMA BeginKeeps ==
    ASSUME StoreInv, NEW c \in Commands, NEW r \in Command, Shape(r), r.at \in {"check", "clean"},
           r.what = "setup" => r.tool = "frontend", Begin(c, r)
    PROVE  StoreInv'
<1>0. TypeOK /\ Shapes /\ cmd[c].at = "idle" /\ UNCHANGED <<dir, active, temp, ready, cut, kills>>
      /\ cmd' = [cmd EXCEPT ![c] = r]
  BY DEF StoreInv, Begin, At
<1>1. cmd' \in [Commands -> Command] /\ Shapes' /\ SameElse(c) /\ cmd'[c] = r
  BY <1>0, Moves
<1>2. \A o \in Commands \ {c} : cmd'[o] = cmd[o]
  BY <1>0
<1>3. Harmless
  BY <1>0, <1>1, HarmlessMove
<1>4. Others(c)' = Others(c)
  BY <1>2 DEF Others, At
<1>5. overlap' # "clean" =>
          /\ overlap # "clean"
          /\ Others(c) # {} => r.what # "clean" /\ \A o \in Others(c) : cmd[o].what # "clean"
  BY DEF Begin
<1>6. overlap' = "none" => overlap = "none" /\ Others(c) = {}
  BY DEF Begin
<1>7. ASSUME overlap' # "clean" PROVE CleansAlone'
  <2> SUFFICES ASSUME NEW o \in Commands, cmd'[o].at \in CleanSteps PROVE Others(o)' = {}
    BY DEF CleansAlone
  <2>1. CASE o = c
    <3>1. r.what = "clean"
      BY <1>1, <2>1 DEF Shape
    <3> QED
      BY <1>4, <1>5, <1>7, <2>1, <3>1
  <2>2. CASE o # c
    <3>1. cmd[o].at \in CleanSteps /\ Shape(cmd[o])
      BY <1>0, <1>2, <2>2 DEF Shapes
    <3>2. cmd[o].what = "clean" /\ o \in Others(c)
      BY <2>2, <3>1 DEF Shape, Others, At, CleanSteps
    <3> QED
      BY <1>5, <1>7, <3>2
  <2> QED
    BY <2>1, <2>2
<1>8. ASSUME overlap' # "clean" PROVE RecordedSafe'
  <2>1. \A k \in Pointers : AllSafe(active[k]) /\ active[k] \in Records \cup {NoFile, Empty, Garbled}
    BY <1>0, <1>5, <1>8 DEF StoreInv, NoBadClean, RecordedSafe, TypeOK
  <2>2. \A k \in Pointers : \A d \in References(active[k]) : Safe(d)'
    BY <1>3, <2>1, SafeAsBefore
  <2> QED
    BY <1>0, <2>2 DEF RecordedSafe, AllSafe
<1>9. ASSUME overlap' # "clean", NEW o \in Commands PROVE InstallSafe(o)' /\ CleanKnows(o)'
  <2>1. CASE o = c
    <3>1. r.what = "setup" => r.tool \notin Platforms
      BY StoreAssumption
    <3>2. InstallSafe(c)'
      BY <1>1, <3>1 DEF InstallSafe, InstallSteps
    <3>3. CleanKnows(c)'
      BY <1>1 DEF CleanKnows
    <3> QED
      BY <2>1, <3>2, <3>3
  <2>2. CASE o # c
    <3>0. InstallSafe(o) /\ CleanKnows(o) /\ cmd[o] \in Command /\ Shape(cmd[o]) /\ cmd'[o] = cmd[o]
      BY <1>0, <1>2, <1>5, <1>9, <2>2 DEF StoreInv, NoBadClean, TypeOK, Shapes
    <3>1. CleanKnows(o)'
      BY <1>0, <3>0 DEF CleanKnows, Recorded, Target
    <3> DEFINE t == Target(o)
               e == <<"frontend", cmd[o].version>>
               k == PointerOf(cmd[o].tool)
    <3>2. t' = t /\ e' = e /\ k' = k /\ k \in Pointers
      BY <3>0, PointerTyped DEF Target
    <3>3. cmd[o].at \in InstallSteps => t \in Directories /\ e \in Directories
      BY <3>0, TargetTyped DEF Shape, Directories, Tools
    <3>4. cmd[o].at \in {"load", "open", "write", "publish"} => Safe(t)'
      BY <1>3, <3>0, <3>2, <3>3 DEF InstallSafe, InstallSteps, Harmless, Safe, BeingReplaced
    <3>5. cmd[o].at \in InstallSteps /\ cmd[o].what = "setup" /\ cmd[o].tool \in Platforms => Safe(e)'
      BY <1>3, <3>0, <3>2, <3>3 DEF InstallSafe, Harmless, Safe, BeingReplaced
    <3>6. cmd[o].at \in {"open", "write", "publish"} => AllSafe(cmd[o].data)'
      BY <1>3, <3>0, SafeAsBefore DEF InstallSafe, AllSafe, Command
    <3>7. cmd[o].at \in {"write", "publish"} => AllSafe(temp[k])'
      <4>1. temp[k] \in Records \cup {NoFile, Empty, Garbled}
        BY <1>0, <3>2 DEF TypeOK
      <4>2. AllSafe(temp[k]) => \A d \in References(temp[k]) : Safe(d)'
        BY <1>3, <4>1, SafeAsBefore
      <4>3. temp'[k] = temp[k]
        BY <1>0
      <4> HIDE DEF k
      <4>4. AllSafe(temp[k]) => AllSafe(temp[k])'
        BY <1>0, <3>2, <4>2 DEF AllSafe
      <4> QED
        BY <3>0, <4>4 DEF InstallSafe, k
    <3> HIDE DEF t, e, k
    <3>8. InstallSafe(o)'
      BY <3>0, <3>4, <3>5, <3>6, <3>7 DEF InstallSafe, t, e, k
    <3> QED
      BY <3>1, <3>8
  <2> QED
    BY <2>1, <2>2
<1>10. NoBadClean'
  BY <1>7, <1>8, <1>9 DEF NoBadClean
<1>11. NoOverlap'
  <2> SUFFICES ASSUME overlap' = "none" PROVE OneActs' /\ PointersTrue' /\ \A o \in Commands : WritesOwn(o)'
    BY DEF NoOverlap
  <2>1. \A o \in Commands \ {c} : cmd'[o].at = "idle"
    BY <1>2, <1>6 DEF Others, At
  <2>2. OneActs'
    BY <2>1 DEF OneActs, Others, At
  <2>3. PointersTrue'
    BY <1>0, <1>6 DEF StoreInv, NoOverlap, PointersTrue
  <2>4. \A o \in Commands \ {c} : WritesOwn(o)'
    BY <2>1 DEF WritesOwn
  <2>5. WritesOwn(c)'
    BY <1>1 DEF WritesOwn
  <2> QED
    BY <2>2, <2>3, <2>4, <2>5
<1>12. TornByRemoval'
  BY <1>0, <1>1, TornAsBefore
<1>13. runs' \in 0 .. MaxRuns /\ overlap' \in {"none", "installs", "clean"}
  <2>1. runs' = runs + 1 /\ runs < MaxRuns /\ runs \in 0 .. MaxRuns
    BY <1>0 DEF Begin, TypeOK
  <2>2. runs' \in 0 .. MaxRuns
    BY <2>1, StoreAssumption
  <2>3. overlap' \in {"none", "installs", "clean"}
    BY <1>0 DEF Begin, TypeOK
  <2> QED
    BY <2>2, <2>3
<1> QED
  BY <1>0, <1>1, <1>10, <1>11, <1>12, <1>13 DEF StoreInv, TypeOK

LEMMA BeginsKeeps == ASSUME StoreInv, NEW c \in Commands, Begins(c) PROVE StoreInv'
<1>0. Idle \in Command /\ Idle.at = "idle" /\ Idle.what = "setup" /\ Idle.tool = "frontend" /\ "frontend" \in Tools
  BY IdleTyped DEF Idle, Tools
<1>1. ASSUME NEW platforms \in SUBSET Platforms \ {{}}, NEW v \in Versions, NEW force \in BOOLEAN,
             Setup(c, platforms, v, force)
      PROVE  StoreInv'
  <2>1. PICK p \in platforms :
            Begin(c, [Idle EXCEPT !.at = "check", !.todo = platforms, !.platform = p,
                                  !.version = v, !.force = force])
    BY <1>1 DEF Setup
  <2> DEFINE r == [Idle EXCEPT !.at = "check", !.todo = platforms, !.platform = p, !.version = v, !.force = force]
  <2>2. r \in Command /\ r.at = "check" /\ r.what = "setup" /\ r.tool = "frontend" /\ r.version = v /\ r.platform = p
    BY <1>0 DEF Command, Steps
  <2>3. Begin(c, r)
    BY <2>1
  <2> HIDE DEF r
  <2>4. Shape(r)
    BY <2>2 DEF Shape, InstallSteps, CleanSteps
  <2> QED
    BY <2>2, <2>3, <2>4, BeginKeeps
<1>2. ASSUME NEW t \in Tools, NEW v \in Versions, NEW force \in BOOLEAN, Install(c, t, v, force) PROVE StoreInv'
  <2> DEFINE r == [Idle EXCEPT !.at = "check", !.what = "install", !.tool = t, !.version = v, !.force = force]
  <2>2. r \in Command /\ r.at = "check" /\ r.what = "install" /\ r.version = v
    BY <1>0 DEF Command, Steps
  <2>3. Begin(c, r)
    BY <1>2 DEF Install
  <2> HIDE DEF r
  <2>4. Shape(r)
    BY <2>2 DEF Shape, InstallSteps, CleanSteps
  <2> QED
    BY <2>2, <2>3, <2>4, BeginKeeps
<1>3. CASE CacheClean(c)
  <2> DEFINE r == [Idle EXCEPT !.at = "clean", !.what = "clean"]
  <2>2. r \in Command /\ r.at = "clean" /\ r.what = "clean"
    BY <1>0 DEF Command, Steps
  <2>3. Begin(c, r)
    BY <1>3 DEF CacheClean
  <2> HIDE DEF r
  <2>4. Shape(r)
    BY <2>2 DEF Shape, InstallSteps, CleanSteps
  <2> QED
    BY <2>2, <2>3, <2>4, BeginKeeps
<1> QED
  BY <1>1, <1>2, <1>3 DEF Begins

(* A kill leaves what the command was removing cut, and what it was        *)
(* writing as far as it got.                                               *)
LEMMA KillKeeps == ASSUME StoreInv, NEW c \in Commands, Kill(c) PROVE StoreInv'
<1>0. TypeOK /\ Shapes /\ ~At(c, "idle") /\ End(c) /\ UNCHANGED <<dir, ready, overlap, runs>>
      /\ cmd[c] \in Command /\ Shape(cmd[c])
  BY DEF StoreInv, TypeOK, Shapes, Kill
<1>1. /\ cmd' \in [Commands -> Command] /\ Shapes' /\ SameElse(c) /\ cmd'[c].at = "idle"
      /\ InstallSafe(c)' /\ CleanKnows(c)' /\ WritesOwn(c)'
  BY <1>0, Ends
<1>2. cut' = IF cmd[c].at \in {"removing", "swap", "deleting"} THEN cut \cup {Target(c)} ELSE cut
  BY DEF Kill
<1>3. cut' \subseteq Directories
  <2>1. cmd[c].at \in {"removing", "swap", "deleting"} => Target(c) \in Directories
    BY <1>0, TargetTyped DEF Shape, InstallSteps
  <2> QED
    BY <1>0, <1>2, <2>1 DEF TypeOK
<1>4. Harmless
  <2>1. \A d \in Directories : dir[d] = "whole" \/ d \in cut => Safe(d)'
    BY <1>0, <1>2 DEF Safe
  <2>2. cmd[c].at \in {"removing", "swap"} => \A d \in Directories : Target(c) = d => Safe(d)'
    BY <1>2 DEF Safe
  <2> QED
    BY <1>1, <2>1, <2>2, HarmlessStep
<1>5. TornByRemoval'
  <2> SUFFICES ASSUME NEW d \in Directories, dir[d] = "torn", d \notin cut'
               PROVE  \E o \in Commands : cmd'[o].at \in {"removing", "deleting"} /\ Target(o)' = d
    BY <1>0 DEF TornByRemoval
  <2>1. PICK o \in Commands : cmd[o].at \in {"removing", "deleting"} /\ Target(o) = d
    BY <1>2 DEF StoreInv, TornByRemoval
  <2>2. o # c
    BY <1>2, <2>1
  <2> QED
    BY <1>1, <2>1, <2>2 DEF SameElse, Target
<1>6. kills' \in 0 .. MaxKills
  <2>1. kills' = kills + 1 /\ kills < MaxKills /\ kills \in 0 .. MaxKills
    BY <1>0 DEF Kill, TypeOK
  <2> QED
    BY <2>1, StoreAssumption
<1>7. CASE UNCHANGED <<active, temp>>
  <2>1. NoBadClean' /\ NoOverlap'
    BY <1>0, <1>1, <1>4, <1>7, QuietStep DEF CleanSteps
  <2> QED
    BY <1>0, <1>1, <1>3, <1>5, <1>6, <1>7, <2>1 DEF StoreInv, TypeOK
<1>8. CASE At(c, "write") /\ WriteThrough(c, Garbled)
  <2>1. cmd[c].at = "write" /\ UNCHANGED cut
    BY <1>2, <1>8 DEF At
  <2>2. /\ active' \in [Pointers -> Records \cup {Empty, Garbled}]
        /\ temp' \in [Pointers -> Records \cup {Empty, Garbled, NoFile}]
        /\ overlap # "clean" =>
              /\ RecordedSafe'
              /\ \A q \in Pointers : AllSafe(temp[q]) => \A d \in References(temp'[q]) : Safe(d)'
        /\ overlap = "none" => active' = active
    BY <1>0, <1>1, <1>8, <2>1, WriteIsSafe
  <2>3. NoBadClean'
    BY <1>0, <1>1, <1>4, <2>2, OthersTempSafe, StepIsSafe DEF Harmless, CleanSteps
  <2>4. overlap = "none" => PointersTrue'
    BY <1>0, <2>2 DEF StoreInv, NoOverlap, PointersTrue
  <2>5. NoOverlap'
    BY <1>0, <1>1, <2>4, StepIsOwn
  <2> QED
    BY <1>0, <1>1, <1>3, <1>5, <1>6, <2>2, <2>3, <2>5 DEF StoreInv, TypeOK
<1> QED
  BY <1>7, <1>8 DEF Kill

-----------------------------------------------------------------------------
(* The theorems. *)

LEMMA InitHolds == ASSUME Init PROVE StoreInv
<1> USE DEF Init
<1>1. TypeOK
  <2>1. active \in [Pointers -> Records \cup {Empty, Garbled}]
    BY NoRecordIsOne
  <2>2. cmd \in [Commands -> Command]
    BY IdleTyped
  <2> QED
    BY <2>1, <2>2, StoreAssumption DEF TypeOK
<1>2. \A c \in Commands : cmd[c] = Idle /\ cmd[c].at = "idle"
  BY DEF Idle
<1>3. Shapes
  BY <1>2, IdleTyped DEF Shapes
<1>4. TornByRemoval
  BY DEF TornByRemoval
<1>5. NoBadClean
  <2>1. CleansAlone
    BY <1>2 DEF CleansAlone, CleanSteps
  <2>2. RecordedSafe
    BY NoRecordSaysNothing DEF RecordedSafe, AllSafe
  <2>3. \A c \in Commands : InstallSafe(c) /\ CleanKnows(c)
    BY <1>2 DEF InstallSafe, CleanKnows, InstallSteps
  <2> QED
    BY <2>1, <2>2, <2>3 DEF NoBadClean
<1>6. NoOverlap
  <2>1. OneActs
    BY <1>2 DEF OneActs, At
  <2>2. PointersTrue
    BY NoRecordIsOne DEF PointersTrue, NoRecord, Pointers, Tools
  <2>3. \A c \in Commands : WritesOwn(c)
    BY <1>2 DEF WritesOwn
  <2> QED
    BY <2>1, <2>2, <2>3 DEF NoOverlap
<1> QED
  BY <1>1, <1>3, <1>4, <1>5, <1>6 DEF StoreInv

LEMMA StutterKeeps == ASSUME StoreInv, UNCHANGED vars PROVE StoreInv'
<1> USE DEF vars, history
<1>1. TypeOK' /\ Shapes'
  BY DEF StoreInv, TypeOK, Shapes
<1>2. TornByRemoval'
  BY DEF StoreInv, TornByRemoval, Target
<1>3. \A d : Safe(d)' <=> Safe(d)
  BY DEF Safe, BeingReplaced, Target
<1>4. NoBadClean'
  BY <1>3 DEF StoreInv, NoBadClean, CleansAlone, RecordedSafe, AllSafe, InstallSafe, CleanKnows,
              Others, At, Recorded, Target
<1>5. NoOverlap'
  BY DEF StoreInv, NoOverlap, OneActs, PointersTrue, WritesOwn, Others, At, Target
<1> QED
  BY <1>1, <1>2, <1>4, <1>5 DEF StoreInv

LEMMA NextKeeps == ASSUME StoreInv, Next PROVE StoreInv'
<1> PICK c \in Commands : Begins(c) \/ Installs(c) \/ Cleans(c) \/ Kill(c)
  BY DEF Next
<1>1. CASE Begins(c)
  BY <1>1, BeginsKeeps
<1>2. CASE Installs(c)
  BY <1>2, CheckKeeps, FetchKeeps, RemoveKeeps, RemovedKeeps, SwapKeeps, LoadKeeps, OpenKeeps, WriteKeeps,
     PublishKeeps DEF Installs
<1>3. CASE Cleans(c)
  BY <1>3, ReadFrontendsKeeps, ReadToolchainsKeeps, EnumerateKeeps, DeleteKeeps, DeletedKeeps DEF Cleans
<1>4. CASE Kill(c)
  BY <1>4, KillKeeps
<1> QED
  BY <1>1, <1>2, <1>3, <1>4

(* The inductive invariant of the tool store. *)
THEOREM StoreInvHolds == Spec => []StoreInv
<1>1. StoreInv /\ [Next]_vars => StoreInv'
  BY NextKeeps, StutterKeeps
<1> QED
  BY InitHolds, <1>1, PTL DEF Spec

(* Every record can be read and refers to an installation that is whole,   *)
(* is being replaced or was cut by a kill, whatever setActiveFrontend,     *)
(* setActiveToolchain and runCacheClean do, in any number of commands.     *)
THEOREM RecordsAreKept == Spec => []RecordsHold
<1>1. ASSUME StoreInv PROVE RecordsHold
  <2>1. RecordedInstalled
    BY <1>1 DEF StoreInv, NoBadClean, RecordedInstalled, RecordedSafe, AllSafe, Recorded, Safe, Pointers
  <2>2. PointersReadable
    BY <1>1, RecordsCanBeRead DEF StoreInv, NoOverlap, PointersTrue, PointersReadable
  <2> QED
    BY <1>1, <2>1, <2>2 DEF StoreInv, RecordsHold
<1> QED
  BY <1>1, StoreInvHolds, PTL

(* "android + ios coexist": recordActiveToolchain keeps every platform at  *)
(* the version it was last recorded with, whatever fails or is killed.     *)
THEOREM PlatformsStay == Spec => []PlatformsCoexist
<1>1. ASSUME StoreInv PROVE PlatformsCoexist
  BY <1>1 DEF StoreInv, NoOverlap, PointersTrue, PlatformsCoexist
<1> QED
  BY <1>1, StoreInvHolds, PTL

(* A whole directory is torn by a forced install of it that has its        *)
(* replacement, or by a clean that found it referred to by nothing.        *)
THEOREM OnlyOnPurpose == Spec => DamagedOnPurpose
<1> DEFINE OnPurpose(d) ==
        \/ \E c \in Commands : At(c, "remove") /\ cmd[c].force /\ Target(c) = d
        \/ d \notin Recorded \cup Pinned
<1>1. ASSUME StoreInv, [Next]_vars, NEW d \in Directories,
             overlap = "none", dir[d] = "whole", dir'[d] # "whole"
      PROVE  OnPurpose(d)
  <2>1. PICK c \in Commands : Begins(c) \/ Installs(c) \/ Cleans(c) \/ Kill(c)
    BY <1>1 DEF Next, vars
  <2>0. dir' # dir /\ TypeOK /\ dir \in [Directories -> {"absent", "torn", "whole"}] /\ cmd[c] \in Command /\ Shape(cmd[c])
    BY <1>1 DEF StoreInv, TypeOK, Shapes
  <2>2. ASSUME NEW e, NEW state, Place(e, state), e # d PROVE FALSE
    BY <1>1, <2>0, <2>2 DEF Place
  <2>3. CASE Remove(c)
    <3>1. Place(Target(c), "torn") /\ At(c, "remove")
      BY <2>0, <2>3 DEF Remove
    <3>2. Target(c) = d
      BY <2>2, <3>1
    <3>3. cmd[c].force
      BY <1>1, <3>1, <3>2 DEF StoreInv, NoOverlap, WritesOwn, At
    <3> QED
      BY <3>1, <3>2, <3>3
  <2>4. CASE Removed(c)
    BY <1>1, <2>0, <2>2, <2>4 DEF Removed
  <2>5. CASE Swap(c)
    BY <1>1, <2>0, <2>2, <2>5 DEF Swap
  <2>6. CASE Delete(c)
    <3>1. PICK e \in cmd[c].set : Place(e, IF dir[e] = "absent" THEN "absent" ELSE "torn")
      BY <2>0, <2>6 DEF Delete
    <3>2. d \in cmd[c].set
      BY <2>2, <3>1
    <3>3. cmd[c].set \cap (Recorded \cup Pinned) = {}
      BY <1>1, <2>6 DEF Delete, At, StoreInv, NoBadClean, CleanKnows
    <3> QED
      BY <3>2, <3>3
  <2>7. CASE Deleted(c)
    BY <1>1, <2>0, <2>2, <2>7 DEF Deleted
  <2>8. CASE Begins(c) \/ Check(c) \/ Fetch(c) \/ Load(c) \/ Open(c) \/ Write(c) \/ Publish(c)
             \/ ReadFrontends(c) \/ ReadToolchains(c) \/ Enumerate(c) \/ Kill(c)
    <3>1. dir' = dir
      BY <2>8 DEF Begins, Setup, Install, CacheClean, Begin, Check, Fetch, Load, Open, Write, Publish,
                  ReadFrontends, ReadToolchains, Enumerate, Kill
    <3> QED
      BY <2>0, <3>1
  <2> QED
    BY <2>1, <2>3, <2>4, <2>5, <2>6, <2>7, <2>8 DEF Installs, Cleans
<1>2. ASSUME StoreInv, [Next]_vars
      PROVE  [\A d \in Directories :
                 overlap = "none" /\ dir[d] = "whole" /\ dir'[d] # "whole" => OnPurpose(d)]_vars
  BY <1>1, <1>2
<1> QED
  BY <1>2, StoreInvHolds, PTL DEF Spec, DamagedOnPurpose
=============================================================================
