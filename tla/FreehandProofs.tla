--------------------------- MODULE FreehandProofs ---------------------------
(***************************************************************************)
(* What `soroq release ios --engine --build' and `soroq patch ios --engine'*)
(* promise, for any number of commands, sources, versions, edits, kills and*)
(* failed steps: baselines are of one build and bound once, what ships is  *)
(* what they record, patches lead from it to the developer's tree, and a   *)
(* project that nobody builds is not activated.                            *)
(*                                                                         *)
(* In any interleaving a command may rely on what is recorded, since a     *)
(* baseline is bound once and nothing beside it goes away (Recorded).  The *)
(* files of a build are shared by all commands: what they hold is known    *)
(* (Doing) as long as commands run one at a time.                          *)
(*                                                                         *)
(* The last part is about the commands of the indexed lane of soroqctl.    *)
(***************************************************************************)
EXTENDS FreehandPatch, IndexedLane, TLAPS

Trees == [source : Sources, version : Versions]
Kernels == [source : Sources, analysed : BOOLEAN]

Command == [at : Steps, inputs : Trees \cup {Nil}, version : Versions, obfuscate : BOOLEAN,
            profile : BOOLEAN, prunes : BOOLEAN, dill : {0} \cup Sources, kernel : {0} \cup Sources,
            edges : {0} \cup Sources, image : Images \cup {Nil}, core : Baselines \cup {Nil},
            icons : {0} \cup Sources, signed : Apps \cup {Nil}]

Delivering == {"deliver", "adopt", "fonts", "clear", "copy", "register", "lane", "ipa"}
Hosting == {"register", "lane", "ipa"}
ReleaseSteps == {"kernel", "persist", "publish"} \cup Delivering
PatchSteps == {"candidate", "prune", "icons", "again", "fold", "generate", "store", "noop"}

Typed ==
    /\ TypeOK /\ tree \in Trees /\ activation \in BOOLEAN
    /\ staged \in [edges : Sources \cup {Nil}, graph : Images \cup {Nil}]
    /\ kernel \in Kernels \cup {Nil} /\ app \in Apps \cup {Nil}
    /\ hosted \subseteq Versions /\ cmd \in [Cmds -> Command]

(* What the fields of a command mean at its step.                          *)
Shape(c, r) ==
    /\ r.at \in ReleaseSteps => c \in Releases
    /\ r.at \in PatchSteps => c \in Patches
    /\ r.at \notin Ended \/ r.at = "noop" => r.inputs \in Trees
    /\ c \in Patches => ~r.obfuscate
    /\ r.at \in {"collect", "kernel", "persist"} => r.image \in Images
    /\ r.at \in {"kernel", "persist"} => r.dill \in Sources
    /\ r.at = "persist" => r.kernel \in Sources
    /\ r.at \in {"publish"} \cup Delivering => r.core \in Baselines
    /\ r.at \in {"clear", "copy"} => r.icons \in Sources
    /\ r.at \in {"lane", "ipa"} => r.signed \in Apps
    /\ c \in Patches /\ r.at \notin Ended \cup {"candidate"} => r.kernel \in Sources
Shapes == \A c \in Cmds : Shape(c, cmd[c])

(* What is recorded is there for good, so a command may rely on it: in any *)
(* interleaving, whatever is killed.                                       *)
Recorded(c) ==
    LET v == cmd[c].version IN
    /\ cmd[c].at \in Delivering => base[v] = cmd[c].core
    /\ cmd[c].at \in {"clear", "copy", "register", "lane", "ipa"} => app # Nil
    /\ cmd[c].at = "ipa" => lane[v] # Nil
    /\ c \in Patches /\ (Active(c) \/ At(c, "noop")) => base[v] # Nil
    /\ cmd[c].at \in {"generate", "store"} => side[v].graph # Nil

Records ==
    /\ \A v \in Versions : base[v] = Nil =>
           side[v].graph = Nil /\ side[v].fonts = Nil /\ lane[v] = Nil /\ ipa[v] = Nil
    /\ \A a \in artifacts : base[a.version] # Nil /\ a.from = base[a.version].kernel

(* A version that is hosted, or about to be, has its fonts, or a release   *)
(* is writing them.                                                        *)
Covered(v) == side[v].fonts # Nil \/ \E c \in Releases : cmd[c].at = "copy" /\ cmd[c].version = v
AllCovered == "bare" \notin marks => \A v \in Versions : Shipping(v) => Covered(v)

(* Somebody will deactivate the project.                                   *)
Owes(c) == (c \in Releases /\ Active(c)) \/ (c \in Patches /\ cmd[c].at \in {"compile", "snapshot", "collect"})
Owed == "killed" \notin marks /\ activation => \E c \in Cmds : Owes(c)

-----------------------------------------------------------------------------
(* As long as commands ran one at a time.                                  *)
Alone == \A c, d \in Cmds : Active(c) /\ Active(d) => c = d

Whole(b) == b.dill = b.manifest /\ b.dill = b.kernel /\ b.edges = Edges(b.dill)

(* The developer's tree is what it was when the command started; if it was *)
(* always (no edit was undone), so is what came of it.                     *)
Steady(c) == "undone" \notin marks /\ tree = cmd[c].inputs

(* What the shared files are while a release is at work ...                *)
Releasing(c) ==
    LET r == cmd[c]
        image == r.image
    IN
    /\ r.at \in {"compile", "snapshot"} => staged.edges = Nil /\ (r.profile /\ "profile" \notin marks => staged.graph = Nil)
    /\ r.at = "collect" => staged.edges = IF Edges(kernel.source) = 0 THEN Nil ELSE Edges(kernel.source)
    /\ r.at \in {"kernel", "persist"} => r.dill = image.source /\ r.edges = Edges(r.dill)
    /\ r.at \in {"collect"} \cup ReleaseSteps => kernel # Nil /\ image.source = kernel.source /\ app # Nil /\ app.image = image
    /\ r.at \in {"collect", "kernel", "persist", "publish", "deliver", "adopt"} =>
           ("profile" \notin marks => staged.graph \in {Nil, image})
    /\ r.at = "kernel" /\ {"undone", "late"} \cap marks = {} => tree.source = r.dill
    /\ r.at = "persist" /\ {"undone", "late"} \cap marks = {} => r.kernel = r.dill
    /\ r.at \in {"publish"} \cup Delivering => r.core.dill = image.source /\ r.core.names = image.names
    /\ r.at \in {"publish"} \cup Delivering /\ {"undone", "late"} \cap marks = {} => Whole(r.core)
    /\ r.at \in {"adopt", "fonts", "clear", "copy", "register"} => app.identity = r.version
    /\ r.at \in {"clear", "copy"} => r.icons = image.source
    /\ r.at \in {"lane", "ipa"} => r.signed = [image |-> image, identity |-> r.version]

(* ... and while a patch is.                                               *)
Patching(c) ==
    LET r == cmd[c] IN
    /\ r.at \notin Ended \cup {"candidate"} /\ Steady(c) => r.kernel = r.inputs.source
    /\ r.at \in {"collect", "icons"} => app # Nil /\ app.image = r.image
    /\ r.at \in {"collect", "icons"} /\ Steady(c) => r.image.source = r.inputs.source
    /\ r.at \in {"fold", "generate", "store"} /\ "cut" \notin marks /\ Steady(c) =>
           (r.inputs.source \in NewIcons => side[r.version].fonts.of \in NewIcons)
    /\ Active(c) /\ "during" \notin marks => tree = r.inputs
    /\ r.at = "noop" /\ {"undone", "late", "during"} \cap marks = {} =>
           r.inputs.source = base[r.version].dill

Doing(c) ==
    /\ cmd[c].at \in {"snapshot", "collect"} /\ Steady(c) /\ kernel # Nil => kernel.source = tree.source
    /\ c \in Releases => Releasing(c)
    /\ c \in Patches => Patching(c)

(* What the records are of.                                                *)
OfOneBuild ==
    \A v \in Versions : base[v] # Nil =>
        /\ {"undone", "late"} \cap marks = {} => Whole(base[v])
        /\ "profile" \notin marks /\ side[v].graph # Nil => side[v].graph = [source |-> base[v].dill, names |-> base[v].names]
        /\ side[v].fonts # Nil => side[v].fonts.of = base[v].dill
        /\ lane[v] # Nil => lane[v].dill = base[v].dill
        /\ ipa[v] # Nil => ipa[v] = [image |-> [source |-> base[v].dill, names |-> base[v].names], identity |-> v] /\ lane[v] # Nil

OfTheTree ==
    "undone" \notin marks =>
        \A a \in artifacts :
            /\ a.to = a.inputs
            /\ "cut" \notin marks /\ a.to \in NewIcons => base[a.version].dill \in NewIcons

(* Without a cut only the release at work has yet to keep the fonts.       *)
FontsKept ==
    "cut" \notin marks => \A v \in Versions : base[v] # Nil =>
        side[v].fonts # Nil \/ \E c \in Releases : cmd[c].at \in Keeping /\ cmd[c].version = v

InTurn == Alone /\ (\A c \in Cmds : Doing(c)) /\ OfOneBuild /\ OfTheTree /\ FontsKept
NoOverlap == "overlap" \notin marks => InTurn

FreehandInv == Typed /\ Shapes /\ (\A c \in Cmds : Recorded(c)) /\ Records /\ AllCovered /\ Owed /\ NoOverlap

USE DEF Keeping, Hosting

-----------------------------------------------------------------------------
(* Types. *)

LEMMA NilIsNone ==
    /\ Nil \notin Sources /\ Nil \notin Versions /\ Nil \notin Images /\ Nil \notin Baselines
    /\ Nil \notin Apps /\ Nil \notin LaneRecords /\ Nil \notin Fonts /\ 0 \notin Sources /\ Nil # 0
BY FreehandAssumption DEF Sources, Versions

LEMMA Sides == Cmds = Releases \cup Patches /\ Releases \cap Patches = {}
BY FreehandAssumption DEF Cmds

LEMMA EdgesTyped == ASSUME NEW s \in Sources PROVE Edges(s) \in {0} \cup Sources
BY DEF Edges

LEMMA FirstOnes == 1 \in Sources /\ 1 \in Versions
BY FreehandAssumption DEF Sources, Versions

LEMMA FreshTyped == Fresh \in Command
<1>1. "idle" \in Steps
  BY DEF Steps, Ended
<1> QED
  BY <1>1, FirstOnes DEF Fresh, Command

LEMMA Facts ==
    ASSUME FreehandInv, NEW c \in Cmds
    PROVE  /\ cmd[c] \in Command /\ cmd \in [Cmds -> Command] /\ Shape(c, cmd[c]) /\ Recorded(c)
           /\ cmd[c].version \in Versions
           /\ "overlap" \notin marks =>
                 InTurn /\ Doing(c) /\ (Active(c) => \A o \in Cmds \ {c} : ~Active(o))
BY DEF FreehandInv, Typed, Command, Shapes, NoOverlap, InTurn, Alone

(* What remains of a command that has ended asks nothing of the files.     *)
LEMMA Stops ==
    ASSUME FreehandInv, NEW c \in Cmds, NEW how \in {"done", "failed", "killed"}, Stop(c, how)
    PROVE  /\ cmd' \in [Cmds -> Command] /\ cmd'[c].at = how /\ \A o \in Cmds \ {c} : cmd'[o] = cmd[o]
           /\ Shape(c, cmd'[c]) /\ Recorded(c)' /\ Doing(c)' /\ ~Owes(c)'
<1> DEFINE r == [Fresh EXCEPT !.at = how]
<1>1. cmd' = [cmd EXCEPT ![c] = r]
  BY DEF Stop
<1>2. how \in Steps /\ how \in Ended /\ how # "noop"
  BY DEF Steps, Ended
<1>3. r \in Command /\ r.at = how /\ r.obfuscate = FALSE
  BY <1>2, FreshTyped DEF Command, Fresh
<1>4. cmd' \in [Cmds -> Command] /\ cmd'[c] = r /\ \A o \in Cmds \ {c} : cmd'[o] = cmd[o]
  BY <1>1, <1>3, Facts
<1> HIDE DEF r
<1>5. Shape(c, r)
  BY <1>2, <1>3 DEF Shape, ReleaseSteps, PatchSteps, Delivering, Ended
<1>6. Recorded(c)'
  BY <1>3, <1>4 DEF Recorded, Delivering, Active, At, Ended
<1>7. Doing(c)'
  <2>1. Releasing(c)'
    BY <1>3, <1>4 DEF Releasing, ReleaseSteps, Delivering
  <2>2. Patching(c)'
    BY <1>2, <1>3, <1>4 DEF Patching, Active
  <2> QED
    BY <1>3, <1>4, <2>1, <2>2 DEF Doing
<1>8. ~Owes(c)'
  BY <1>2, <1>3, <1>4 DEF Owes, Active
<1> QED
  BY <1>3, <1>4, <1>5, <1>6, <1>7, <1>8

-----------------------------------------------------------------------------
(* One command takes a step. *)

(* Records are added, not taken away.                                      *)
Grows ==
    /\ \A v \in Versions :
          /\ base[v] # Nil => base'[v] = base[v]
          /\ side[v].graph # Nil => side'[v].graph # Nil
          /\ lane[v] # Nil => lane'[v] # Nil
    /\ app # Nil => app' # Nil

LEMMA StepKeeps ==
    ASSUME FreehandInv, NEW c \in Cmds, \A o \in Cmds \ {c} : cmd'[o] = cmd[o],
           Shape(c, cmd'[c]), Recorded(c)', Typed', Records', AllCovered', Grows, marks \subseteq marks',
           "killed" \notin marks' /\ activation' => Owes(c)' \/ (activation /\ ~Owes(c)),
           "overlap" \notin marks' =>
               /\ \A o \in Cmds \ {c} : ~Active(o)
               /\ Doing(c)' /\ OfOneBuild' /\ OfTheTree' /\ FontsKept'
    PROVE  FreehandInv'
<1>1. Shapes'
  BY DEF FreehandInv, Shapes
<1>2. ASSUME NEW o \in Cmds PROVE Recorded(o)'
  <2>1. CASE o = c
    BY <2>1
  <2>2. CASE o # c
    <3>1. cmd'[o] = cmd[o] /\ Recorded(o) /\ cmd[o].version \in Versions
      BY <2>2, Facts
    <3>2. LET v == cmd[o].version IN
             /\ base[v] # Nil => base'[v] = base[v]
             /\ side[v].graph # Nil => side'[v].graph # Nil
             /\ lane[v] # Nil => lane'[v] # Nil
             /\ app # Nil => app' # Nil
      BY <3>1 DEF Grows
    <3>3. cmd[o].at \in Delivering => cmd[o].core # Nil
      BY NilIsNone DEF FreehandInv, Shapes, Shape
    <3> QED
      BY <3>1, <3>2, <3>3 DEF Recorded, Active, At
  <2> QED
    BY <2>1, <2>2
<1>3. Owed'
  <2> SUFFICES ASSUME "killed" \notin marks', activation' PROVE \E o \in Cmds : Owes(o)'
    BY DEF Owed
  <2>1. CASE Owes(c)'
    BY <2>1
  <2>2. CASE activation /\ ~Owes(c)
    <3>1. PICK o \in Cmds : Owes(o)
      BY <2>2 DEF FreehandInv, Owed
    <3>2. Owes(o)'
      BY <2>2, <3>1 DEF Owes, Active
    <3> QED
      BY <3>2
  <2> QED
    BY <2>1, <2>2
<1>4. NoOverlap'
  <2> SUFFICES ASSUME "overlap" \notin marks' PROVE InTurn'
    BY DEF NoOverlap
  <2>0. "overlap" \notin marks
    OBVIOUS
  <2>1. Alone'
    BY DEF Alone, Active
  <2>2. ASSUME NEW o \in Cmds, o # c PROVE Doing(o)'
    <3>1. cmd'[o] = cmd[o] /\ ~Active(o) /\ Doing(o) /\ Recorded(o) /\ cmd[o].version \in Versions
      BY <2>0, <2>2, Facts
    <3>2. cmd[o].at \in Ended
      BY <3>1 DEF Active
    <3>3. Releasing(o)'
      BY <3>1, <3>2 DEF Releasing, ReleaseSteps, Delivering, Ended
    <3>4. o \in Patches => Patching(o)'
      <4> SUFFICES ASSUME o \in Patches PROVE Patching(o)'
        OBVIOUS
      <4>1. cmd[o].at = "noop" /\ {"undone", "late", "during"} \cap marks' = {} =>
                cmd[o].inputs.source = base'[cmd[o].version].dill
        BY <3>1 DEF Doing, Patching, Recorded, Grows, At
      <4> QED
        BY <3>1, <3>2, <4>1 DEF Patching, Ended, Active
    <3> QED
      BY <3>1, <3>2, <3>3, <3>4 DEF Doing, Ended
  <2> QED
    BY <2>1, <2>2 DEF InTurn
<1> QED
  BY <1>1, <1>2, <1>3, <1>4 DEF FreehandInv

(* The fonts of what is hosted stay covered if the command covers what it  *)
(* uncovers and hosts only what was covered.                               *)
LEMMA StaysCovered ==
    ASSUME FreehandInv, NEW c \in Cmds, \A o \in Cmds \ {c} : cmd'[o] = cmd[o], marks \subseteq marks',
           \A v \in Versions : side[v].fonts # Nil => side'[v].fonts # Nil,
           \A v \in hosted' : Shipping(v),
           cmd'[c].at \in Hosting =>
               \/ cmd[c].at \in Hosting /\ cmd'[c].version = cmd[c].version
               \/ side'[cmd'[c].version].fonts # Nil,
           cmd[c].at = "copy" =>
               \/ side'[cmd[c].version].fonts # Nil
               \/ cmd'[c].at = "copy" /\ cmd'[c].version = cmd[c].version
    PROVE  AllCovered'
<1> SUFFICES ASSUME "bare" \notin marks', NEW v \in Versions, Shipping(v)' PROVE Covered(v)'
  BY DEF AllCovered
<1>1. Shipping(v) \/ side'[v].fonts # Nil
  BY Sides DEF Shipping
<1>2. CASE Shipping(v)
  <2>1. Covered(v)
    BY <1>2 DEF FreehandInv, AllCovered
  <2> QED
    BY <2>1, Sides DEF Covered
<1> QED
  BY <1>1, <1>2 DEF Covered

(* ... and leaves the tree and what is recorded alone.                     *)
LEMMA QuietStep ==
    ASSUME FreehandInv, NEW c \in Cmds, Active(c), \A o \in Cmds \ {c} : cmd'[o] = cmd[o],
           cmd' \in [Cmds -> Command], Shape(c, cmd'[c]), Recorded(c)',
           UNCHANGED <<tree, base, side, lane, hosted, ipa, artifacts, marks>>,
           activation' \in BOOLEAN, staged' \in [edges : Sources \cup {Nil}, graph : Images \cup {Nil}],
           kernel' \in Kernels \cup {Nil}, app' \in Apps \cup {Nil}, app # Nil => app' # Nil,
           activation' => Owes(c)' \/ (activation /\ ~Owes(c)),
           cmd[c].at # "copy",
           cmd'[c].at \in Hosting => cmd[c].at \in Hosting /\ cmd'[c].version = cmd[c].version,
           "overlap" \notin marks =>
               /\ Doing(c)'
               /\ "cut" \notin marks /\ cmd[c].at \in Keeping =>
                      cmd'[c].at \in Keeping /\ cmd'[c].version = cmd[c].version
    PROVE  FreehandInv'
<1>1. Typed'
  BY DEF FreehandInv, Typed, TypeOK, Command
<1>2. Records'
  BY DEF FreehandInv, Records
<1>3. Grows /\ AllCovered'
  BY StaysCovered DEF Grows, Shipping
<1>4. ASSUME "overlap" \notin marks
      PROVE  OfOneBuild' /\ OfTheTree' /\ FontsKept' /\ \A o \in Cmds \ {c} : ~Active(o)
  <2>0. InTurn /\ \A o \in Cmds \ {c} : ~Active(o)
    BY <1>4, Facts
  <2>1. OfOneBuild' /\ OfTheTree'
    BY <2>0 DEF InTurn, OfOneBuild, OfTheTree
  <2>2. FontsKept'
    <3> SUFFICES ASSUME "cut" \notin marks, NEW v \in Versions, base[v] # Nil, side[v].fonts = Nil
                 PROVE  \E d \in Releases : cmd'[d].at \in Keeping /\ cmd'[d].version = v
      BY DEF FontsKept
    <3>1. PICK d \in Releases : cmd[d].at \in Keeping /\ cmd[d].version = v
      BY <2>0 DEF InTurn, FontsKept
    <3>2. CASE d = c
      BY <1>4, <3>1, <3>2
    <3>3. CASE d # c
      BY <3>1, <3>3, Sides
    <3> QED
      BY <3>2, <3>3
  <2> QED
    BY <2>0, <2>1, <2>2
<1> QED
  BY <1>1, <1>2, <1>3, <1>4, StepKeeps

(* It ends, and the project is not activated.                              *)
LEMMA EndKeeps ==
    ASSUME FreehandInv, NEW c \in Cmds, Active(c), cmd[c].at # "copy", NEW how \in {"done", "failed"}, Stop(c, how),
           UNCHANGED <<tree, staged, kernel, app, base, side, lane, hosted, ipa, artifacts, marks>>,
           activation' = FALSE \/ (activation' = activation /\ ~Owes(c)),
           "overlap" \notin marks /\ "cut" \notin marks => cmd[c].at \notin Keeping
    PROVE  FreehandInv'
<1>1. /\ cmd' \in [Cmds -> Command] /\ \A o \in Cmds \ {c} : cmd'[o] = cmd[o]
      /\ Shape(c, cmd'[c]) /\ Recorded(c)' /\ Doing(c)' /\ cmd'[c].at = how
  BY Stops
<1>2. activation' \in BOOLEAN /\ staged \in [edges : Sources \cup {Nil}, graph : Images \cup {Nil}]
      /\ kernel \in Kernels \cup {Nil} /\ app \in Apps \cup {Nil}
  BY DEF FreehandInv, Typed
<1> QED
  BY <1>1, <1>2, QuietStep

(* The command goes on and keeps everything it holds.                      *)
Keeps(c) ==
    /\ cmd'[c].inputs = cmd[c].inputs /\ cmd'[c].version = cmd[c].version /\ cmd'[c].obfuscate = cmd[c].obfuscate
    /\ cmd'[c].profile = cmd[c].profile /\ cmd'[c].dill = cmd[c].dill /\ cmd'[c].kernel = cmd[c].kernel
    /\ cmd'[c].edges = cmd[c].edges /\ cmd'[c].image = cmd[c].image /\ cmd'[c].core = cmd[c].core
    /\ cmd'[c].icons = cmd[c].icons /\ cmd'[c].signed = cmd[c].signed

LEMMA Goes ==
    ASSUME FreehandInv, NEW c \in Cmds, NEW step \in Steps, Go(c, step)
    PROVE  /\ cmd' \in [Cmds -> Command] /\ cmd'[c].at = step /\ Keeps(c)
           /\ \A o \in Cmds \ {c} : cmd'[o] = cmd[o]
<1> DEFINE r == [cmd[c] EXCEPT !.at = step]
<1>0. cmd[c] \in Command /\ cmd \in [Cmds -> Command]
  BY Facts
<1>1. r \in Command /\ r.at = step
  BY <1>0 DEF Command
<1>2. /\ r.inputs = cmd[c].inputs /\ r.version = cmd[c].version /\ r.obfuscate = cmd[c].obfuscate
      /\ r.profile = cmd[c].profile /\ r.dill = cmd[c].dill /\ r.kernel = cmd[c].kernel
      /\ r.edges = cmd[c].edges /\ r.image = cmd[c].image /\ r.core = cmd[c].core
      /\ r.icons = cmd[c].icons /\ r.signed = cmd[c].signed
  BY <1>0 DEF Command
<1>3. cmd' = [cmd EXCEPT ![c] = r]
  BY <1>0 DEF Go
<1> HIDE DEF r
<1>4. cmd' \in [Cmds -> Command] /\ cmd'[c] = r /\ \A o \in Cmds \ {c} : cmd'[o] = cmd[o]
  BY <1>0, <1>1, <1>3
<1> QED
  BY <1>1, <1>2, <1>4 DEF Keeps

(* The command comes to r.                                                 *)
LEMMA Sets ==
    ASSUME FreehandInv, NEW c \in Cmds, NEW r \in Command, Set(c, r)
    PROVE  /\ cmd' \in [Cmds -> Command] /\ cmd'[c] = r /\ \A o \in Cmds \ {c} : cmd'[o] = cmd[o]
BY Facts DEF Set

LEMMA FilesTyped ==
    ASSUME FreehandInv
    PROVE  /\ tree \in Trees /\ activation \in BOOLEAN
           /\ staged \in [edges : Sources \cup {Nil}, graph : Images \cup {Nil}]
           /\ kernel \in Kernels \cup {Nil} /\ app \in Apps \cup {Nil}
BY DEF FreehandInv, Typed

-----------------------------------------------------------------------------
(* The build of a release or of a patch. *)

LEMMA CompileKeeps == ASSUME FreehandInv, NEW c \in Cmds, Compile(c) PROVE FreehandInv'
<1>0. /\ cmd[c].at = "compile" /\ Go(c, "snapshot") /\ kernel' = [source |-> tree.source, analysed |-> activation]
      /\ UNCHANGED <<tree, activation, staged, app, base, side, lane, hosted, ipa, artifacts, marks, used>>
  BY DEF Compile, At, records
<1>1. Shape(c, cmd[c]) /\ Recorded(c) /\ Active(c)
  BY <1>0, Facts DEF Active, Ended
<1>2. cmd' \in [Cmds -> Command] /\ cmd'[c].at = "snapshot" /\ Keeps(c) /\ \A o \in Cmds \ {c} : cmd'[o] = cmd[o]
  BY <1>0, Goes DEF Steps
<1>3. Shape(c, cmd'[c]) /\ Recorded(c)'
  <2>1. Shape(c, cmd'[c])
    BY <1>0, <1>1, <1>2 DEF Shape, Keeps, ReleaseSteps, PatchSteps, Delivering, Ended
  <2>2. Recorded(c)'
    BY <1>0, <1>1, <1>2 DEF Recorded, Keeps, Delivering, Active, At
  <2> QED
    BY <2>1, <2>2
<1>4. Owes(c)' /\ kernel' \in Kernels
  BY <1>0, <1>2, Sides, FilesTyped DEF Owes, Active, Ended, Kernels, Trees
<1>5. ASSUME "overlap" \notin marks PROVE Doing(c)'
  <2>1. Doing(c)
    BY <1>5, Facts
  <2>2. kernel'.source = tree.source
    BY <1>0
  <2>3. c \in Releases => Releasing(c)'
    BY <1>0, <1>2, <2>1 DEF Doing, Releasing, Keeps, ReleaseSteps, Delivering
  <2>4. c \in Patches => Patching(c)'
    BY <1>0, <1>1, <1>2, <2>1 DEF Doing, Patching, Steady, Keeps, Ended, Active
  <2> QED
    BY <1>0, <2>2, <2>3, <2>4 DEF Doing
<1> QED
  BY <1>0, <1>1, <1>2, <1>3, <1>4, <1>5, QuietStep, FilesTyped

LEMMA ImageTyped ==
    ASSUME FreehandInv, NEW c \in Cmds, kernel # Nil
    PROVE  Image(c) \in Images /\ Image(c).source = kernel.source
<1>1. kernel.source \in Sources
  BY FilesTyped DEF Kernels
<1>2. cmd[c].obfuscate => c \in Releases
  BY Facts, Sides DEF Shape
<1> QED
  BY <1>1, <1>2 DEF Image, Images

LEMMA SnapshotKeeps == ASSUME FreehandInv, NEW c \in Cmds, Snapshot(c) PROVE FreehandInv'
<1> DEFINE image == Image(c)
           r == [cmd[c] EXCEPT !.at = "collect", !.image = image]
<1>0. /\ cmd[c].at = "snapshot" /\ kernel # Nil /\ Set(c, r) /\ app' = [image |-> image, identity |-> Nil]
      /\ staged' = [edges |-> IF Edges(kernel.source) = 0 THEN staged.edges ELSE Edges(kernel.source),
                    graph |-> IF c \in Releases /\ ~cmd[c].profile THEN image ELSE staged.graph]
      /\ UNCHANGED <<tree, activation, kernel, base, side, lane, hosted, ipa, artifacts, marks, used>>
  BY DEF Snapshot, At, records
<1>1. Shape(c, cmd[c]) /\ Recorded(c) /\ Active(c) /\ cmd[c] \in Command
  BY <1>0, Facts DEF Active, Ended
<1>i. image \in Images /\ image.source = kernel.source /\ kernel.source \in Sources
  BY <1>0, ImageTyped, FilesTyped DEF Kernels
<1> HIDE DEF image
<1>2. /\ r \in Command /\ r.at = "collect" /\ r.image = image /\ r.inputs = cmd[c].inputs
      /\ r.version = cmd[c].version /\ r.obfuscate = cmd[c].obfuscate /\ r.profile = cmd[c].profile
      /\ r.kernel = cmd[c].kernel
  BY ZenonT(30), <1>1, <1>i DEF Command, Steps
<1> HIDE DEF r
<1>3. cmd' \in [Cmds -> Command] /\ cmd'[c] = r /\ \A o \in Cmds \ {c} : cmd'[o] = cmd[o]
  BY <1>0, <1>2, Sets
<1>4. Shape(c, r)
  BY <1>0, <1>1, <1>2, <1>i DEF Shape, ReleaseSteps, PatchSteps, Delivering, Ended
<1>5. Recorded(c)'
  BY <1>0, <1>1, <1>2, <1>3 DEF Recorded, Delivering, Active, At
<1>6. Owes(c)' /\ app' \in Apps /\ staged' \in [edges : Sources \cup {Nil}, graph : Images \cup {Nil}]
  <2>1. Owes(c)'
    BY <1>2, <1>3, Sides DEF Owes, Active, Ended
  <2>2. app' \in Apps
    BY <1>0, <1>i DEF Apps
  <2>3. staged' \in [edges : Sources \cup {Nil}, graph : Images \cup {Nil}]
    BY <1>0, <1>i, EdgesTyped, FilesTyped
  <2> QED
    BY <2>1, <2>2, <2>3
<1>7. ASSUME "overlap" \notin marks PROVE Doing(c)'
  <2>1. Doing(c)
    BY <1>7, Facts
  <2>2. Steady(c)' <=> Steady(c)
    BY <1>0, <1>2, <1>3 DEF Steady
  <2>3. Steady(c) => kernel.source = tree.source /\ image.source = cmd[c].inputs.source
    BY <1>0, <1>i, <2>1 DEF Doing, Steady
  <2>4. ASSUME c \in Releases PROVE Releasing(c)'
    <3>1. staged.edges = Nil /\ (cmd[c].profile /\ "profile" \notin marks => staged.graph = Nil)
      BY <1>0, <2>1, <2>4 DEF Doing, Releasing
    <3>2. staged'.edges = IF Edges(kernel.source) = 0 THEN Nil ELSE Edges(kernel.source)
      BY <1>0, <3>1
    <3>3. "profile" \notin marks => staged'.graph \in {Nil, image}
      BY <1>0, <2>4, <3>1
    <3>4. app' # Nil /\ app'.image = image
      BY <1>0, <1>6, NilIsNone
    <3> QED
      BY <1>0, <1>2, <1>3, <1>i, <3>2, <3>3, <3>4 DEF Releasing, ReleaseSteps, Delivering
  <2>5. ASSUME c \in Patches PROVE Patching(c)'
    <3>1. app' # Nil /\ app'.image = image
      BY <1>0, <1>6, NilIsNone
    <3>2. Steady(c) => cmd[c].kernel = cmd[c].inputs.source
      BY <1>0, <2>1, <2>5 DEF Doing, Patching, Ended
    <3>3. "during" \notin marks => tree = cmd[c].inputs
      BY <1>1, <2>1, <2>5 DEF Doing, Patching
    <3> QED
      BY <1>0, <1>2, <1>3, <2>2, <2>3, <3>1, <3>2, <3>3 DEF Patching, Ended
  <2> QED
    BY <1>0, <2>2, <2>3, <2>4, <2>5 DEF Doing
<1> QED
  BY <1>0, <1>1, <1>2, <1>3, <1>4, <1>5, <1>6, <1>7, QuietStep, FilesTyped, NilIsNone

LEMMA BuildFailsKeeps == ASSUME FreehandInv, NEW c \in Cmds, BuildFails(c) PROVE FreehandInv'
<1>1. /\ Stop(c, "failed") /\ activation' = FALSE /\ cmd[c].at \in {"compile", "snapshot", "collect"}
      /\ UNCHANGED <<tree, staged, kernel, app, base, side, lane, hosted, ipa, artifacts, marks>>
  BY DEF BuildFails, End, At, records
<1> QED
  BY <1>1, EndKeeps DEF Active, Ended

-----------------------------------------------------------------------------
(* The release: from the build to the IPA. *)

LEMMA VerifyKeeps == ASSUME FreehandInv, NEW c \in Cmds, Verify(c) PROVE FreehandInv'
<1> DEFINE edges == IF staged.edges = Nil THEN 0 ELSE staged.edges
           r == [cmd[c] EXCEPT !.at = "kernel", !.dill = kernel.source, !.edges = edges]
<1>0. /\ cmd[c].at = "collect" /\ c \in Releases
      /\ UNCHANGED <<tree, staged, kernel, app, base, side, lane, hosted, ipa, artifacts, marks, used>>
  BY DEF Verify, At, records
<1>1. Shape(c, cmd[c]) /\ Recorded(c) /\ Active(c) /\ cmd[c] \in Command
  BY <1>0, Facts DEF Active, Ended
<1>a. CASE End(c, "failed")
  BY <1>0, <1>1, <1>a, EndKeeps DEF End
<1>b. CASE kernel # Nil /\ tree = cmd[c].inputs /\ Set(c, r) /\ UNCHANGED activation
  <2>k. kernel.source \in Sources /\ edges \in {0} \cup Sources
    BY <1>b, FilesTyped DEF Kernels
  <2> HIDE DEF edges
  <2>2. /\ r \in Command /\ r.at = "kernel" /\ r.dill = kernel.source /\ r.edges = edges /\ r.image = cmd[c].image
        /\ r.inputs = cmd[c].inputs /\ r.version = cmd[c].version /\ r.obfuscate = cmd[c].obfuscate
    BY ZenonT(30), <1>1, <2>k DEF Command, Steps
  <2> HIDE DEF r
  <2>3. cmd' \in [Cmds -> Command] /\ cmd'[c] = r /\ \A o \in Cmds \ {c} : cmd'[o] = cmd[o]
    BY <1>b, <2>2, Sets
  <2>4. Shape(c, r)
    BY <1>0, <1>1, <2>2, <2>k, Sides DEF Shape, ReleaseSteps, PatchSteps, Delivering, Ended
  <2>5. Recorded(c)'
    BY <1>0, <2>2, <2>3, Sides DEF Recorded, Delivering, Active, At
  <2>6. Owes(c)'
    BY <1>0, <2>2, <2>3 DEF Owes, Active, Ended
  <2>7. ASSUME "overlap" \notin marks PROVE Doing(c)'
    <3>1. Doing(c)
      BY <2>7, Facts
    <3>2. /\ staged.edges = IF Edges(kernel.source) = 0 THEN Nil ELSE Edges(kernel.source)
          /\ cmd[c].image.source = kernel.source /\ app # Nil /\ app.image = cmd[c].image
          /\ "profile" \notin marks => staged.graph \in {Nil, cmd[c].image}
      BY <1>0, <3>1 DEF Doing, Releasing
    <3>3. edges = Edges(kernel.source)
      BY <2>k, <3>2, EdgesTyped, NilIsNone DEF edges
    <3>4. "undone" \notin marks => tree.source = kernel.source
      BY <1>0, <1>b, <3>1 DEF Doing, Steady
    <3>5. Releasing(c)'
      BY <1>0, <1>b, <2>2, <2>3, <3>2, <3>3, <3>4 DEF Releasing, ReleaseSteps, Delivering
    <3> QED
      BY <1>0, <2>2, <2>3, <3>5, Sides DEF Doing
  <2> QED
    BY <1>0, <1>1, <1>b, <2>2, <2>3, <2>4, <2>5, <2>6, <2>7, QuietStep, FilesTyped
<1> QED
  BY <1>a, <1>b DEF Verify, Collected

LEMMA SourceKernelKeeps == ASSUME FreehandInv, NEW c \in Cmds, SourceKernel(c) PROVE FreehandInv'
<1> DEFINE r == [cmd[c] EXCEPT !.at = "persist", !.kernel = tree.source, !.version = tree.version]
<1>0. /\ cmd[c].at = "kernel" /\ Set(c, r)
      /\ UNCHANGED <<tree, activation, staged, kernel, app, base, side, lane, hosted, ipa, artifacts, marks, used>>
  BY DEF SourceKernel, At, records, shared
<1>1. Shape(c, cmd[c]) /\ Active(c) /\ cmd[c] \in Command /\ tree \in Trees /\ c \in Releases
  BY <1>0, Facts, FilesTyped DEF Active, Ended, Shape, ReleaseSteps
<1>2. /\ r \in Command /\ r.at = "persist" /\ r.kernel = tree.source /\ r.image = cmd[c].image /\ r.dill = cmd[c].dill
      /\ r.edges = cmd[c].edges /\ r.inputs = cmd[c].inputs /\ r.obfuscate = cmd[c].obfuscate
  BY ZenonT(30), <1>1 DEF Command, Steps, Trees
<1> HIDE DEF r
<1>3. cmd' \in [Cmds -> Command] /\ cmd'[c] = r /\ \A o \in Cmds \ {c} : cmd'[o] = cmd[o]
  BY <1>0, <1>2, Sets
<1>4. Shape(c, r)
  BY <1>0, <1>1, <1>2, Sides DEF Shape, ReleaseSteps, PatchSteps, Delivering, Ended, Trees
<1>5. Recorded(c)'
  BY <1>1, <1>2, <1>3, Sides DEF Recorded, Delivering, Active, At
<1>6. Owes(c)'
  BY <1>1, <1>2, <1>3 DEF Owes, Active, Ended
<1>7. ASSUME "overlap" \notin marks PROVE Doing(c)'
  <2>1. Releasing(c)
    BY <1>1, <1>7, Facts DEF Doing
  <2>2. Releasing(c)'
    BY <1>0, <1>2, <1>3, <2>1 DEF Releasing, ReleaseSteps, Delivering
  <2> QED
    BY <1>1, <1>2, <1>3, <2>2, Sides DEF Doing
<1> QED
  BY <1>0, <1>1, <1>2, <1>3, <1>4, <1>5, <1>6, <1>7, QuietStep, FilesTyped

LEMMA PersistKeeps == ASSUME FreehandInv, NEW c \in Cmds, Persist(c) PROVE FreehandInv'
<1> DEFINE v == cmd[c].version
           core == Candidate(c)
           step == IF base[v] = Nil THEN "publish" ELSE "deliver"
           r == [cmd[c] EXCEPT !.core = core, !.at = step]
<1>0. /\ cmd[c].at = "persist"
      /\ UNCHANGED <<tree, staged, kernel, app, base, side, lane, hosted, ipa, artifacts, marks, used>>
  BY DEF Persist, At, records
<1>1. Shape(c, cmd[c]) /\ Active(c) /\ cmd[c] \in Command /\ c \in Releases
  BY <1>0, Facts DEF Active, Ended, Shape, ReleaseSteps
<1>a. CASE End(c, "failed")
  BY <1>0, <1>1, <1>a, EndKeeps DEF End
<1>b. CASE kernel # Nil /\ base[v] \in {Nil, core} /\ Set(c, r) /\ UNCHANGED activation
  <2>k. /\ core \in Baselines /\ core.dill = kernel.source /\ core.manifest = cmd[c].dill /\ core.kernel = cmd[c].kernel
        /\ core.edges = cmd[c].edges /\ core.names = cmd[c].image.names
    <3>1. kernel.source \in Sources
      BY <1>b, FilesTyped DEF Kernels
    <3> QED
      BY <1>0, <1>1, <3>1 DEF Candidate, Baselines, Shape, Images, Command
  <2>s. step \in {"publish", "deliver"} /\ (step = "deliver" => base[v] = core)
    BY <1>b
  <2> HIDE DEF core, step
  <2>2. /\ r \in Command /\ r.at = step /\ r.core = core /\ r.image = cmd[c].image /\ r.version = v
        /\ r.inputs = cmd[c].inputs /\ r.obfuscate = cmd[c].obfuscate
    <3>1. step \in Steps /\ core \in Baselines \cup {Nil}
      BY <2>k, <2>s DEF Steps
    <3> HIDE DEF v
    <3> QED
      BY ZenonT(30), <1>1, <3>1 DEF Command, v
  <2> HIDE DEF r
  <2>3. cmd' \in [Cmds -> Command] /\ cmd'[c] = r /\ \A o \in Cmds \ {c} : cmd'[o] = cmd[o]
    BY <1>b, <2>2, Sets
  <2>4. Shape(c, r)
    BY <1>0, <1>1, <2>2, <2>k, <2>s, Sides DEF Shape, ReleaseSteps, PatchSteps, Delivering, Ended
  <2>5. Recorded(c)'
    BY <1>0, <1>1, <2>2, <2>3, <2>s, Sides DEF Recorded, Delivering, Active, At
  <2>6. Owes(c)'
    BY <1>1, <2>2, <2>3, <2>s DEF Owes, Active, Ended
  <2>7. ASSUME "overlap" \notin marks PROVE Doing(c)'
    <3>1. Releasing(c)
      BY <1>1, <2>7, Facts DEF Doing
    <3>2. {"undone", "late"} \cap marks = {} => Whole(core)
      BY <1>0, <2>k, <3>1 DEF Releasing, Whole, ReleaseSteps
    <3>3. core.dill = cmd[c].image.source /\ core.names = cmd[c].image.names
      BY <1>0, <2>k, <3>1 DEF Releasing, ReleaseSteps
    <3>4. Releasing(c)'
      BY <1>0, <2>2, <2>3, <2>s, <3>1, <3>2, <3>3 DEF Releasing, ReleaseSteps, Delivering
    <3> QED
      BY <1>1, <2>2, <2>3, <2>s, <3>4, Sides DEF Doing
  <2> QED
    BY <1>0, <1>1, <1>b, <2>2, <2>s, <2>3, <2>4, <2>5, <2>6, <2>7, QuietStep, FilesTyped
<1> QED
  BY <1>a, <1>b DEF Persist


(* The rename: what is bound stays bound. *)
LEMMA PublishKeeps == ASSUME FreehandInv, NEW c \in Cmds, Publish(c) PROVE FreehandInv'
<1> DEFINE v == cmd[c].version
           core == cmd[c].core
<1>0. /\ cmd[c].at = "publish"
      /\ UNCHANGED <<tree, staged, kernel, app, side, lane, hosted, ipa, artifacts, marks, used>>
  BY DEF Publish, At
<1>1. Shape(c, cmd[c]) /\ Active(c) /\ cmd[c] \in Command /\ c \in Releases /\ v \in Versions /\ core \in Baselines
  BY <1>0, Facts DEF Active, Ended, Shape, ReleaseSteps
<1>a. CASE End(c, "failed") /\ UNCHANGED base
  BY <1>0, <1>1, <1>a, EndKeeps DEF End
<1>b. CASE base[v] \in {Nil, core} /\ base' = [base EXCEPT ![v] = core] /\ Go(c, "deliver") /\ UNCHANGED activation
  <2>t. base \in [Versions -> Baselines \cup {Nil}] /\ core # Nil
    BY <1>1, NilIsNone DEF FreehandInv, Typed, TypeOK
  <2>b. base' \in [Versions -> Baselines \cup {Nil}] /\ base'[v] = core
        /\ \A u \in Versions : (u # v => base'[u] = base[u]) /\ (base[u] # Nil => base'[u] = base[u])
    BY <1>1, <1>b, <2>t
  <2>3. cmd' \in [Cmds -> Command] /\ cmd'[c].at = "deliver" /\ Keeps(c) /\ \A o \in Cmds \ {c} : cmd'[o] = cmd[o]
    BY <1>b, Goes DEF Steps
  <2> HIDE DEF v, core
  <2>k. cmd'[c].version = v /\ cmd'[c].core = core
    BY <2>3 DEF Keeps, v, core
  <2>4. Shape(c, cmd'[c])
    BY <1>0, <1>1, <2>3, Sides DEF Shape, Keeps, ReleaseSteps, PatchSteps, Delivering, Ended
  <2>5. Recorded(c)'
    BY <1>1, <2>3, <2>b, <2>k, Sides DEF Recorded, Delivering, Active, At
  <2>6. Owes(c)'
    BY <1>1, <2>3 DEF Owes, Active, Ended
  <2>7. Grows
    BY <1>0, <2>b DEF Grows
  <2>8. Records'
    <3>1. \A u \in Versions : base'[u] = Nil => base[u] = Nil
      BY <2>b
    <3>2. \A a \in artifacts : base'[a.version] # Nil /\ a.from = base'[a.version].kernel
      BY <2>b DEF FreehandInv, Records, Typed, TypeOK, Artifacts
    <3> QED
      BY <1>0, <3>1, <3>2 DEF FreehandInv, Records
  <2>c. AllCovered'
    BY <1>0, <2>3, StaysCovered DEF Shipping
  <2>9. Typed'
    BY <1>0, <1>b, <2>3, <2>b DEF FreehandInv, Typed, TypeOK, Command
  <2>10. ASSUME "overlap" \notin marks PROVE Doing(c)' /\ OfOneBuild' /\ OfTheTree' /\ FontsKept'
    <3>1. InTurn /\ Releasing(c)
      BY <1>1, <2>10, Facts DEF Doing
    <3>2. Releasing(c)'
      BY <1>0, <2>3, <3>1 DEF Releasing, Keeps, ReleaseSteps, Delivering
    <3>3. Doing(c)'
      BY <1>1, <2>3, <3>2, Sides DEF Doing
    <3>4. OfOneBuild'
      <4> SUFFICES ASSUME NEW u \in Versions, base'[u] # Nil
                   PROVE  /\ {"undone", "late"} \cap marks = {} => Whole(base'[u])
                          /\ "profile" \notin marks /\ side[u].graph # Nil =>
                                 side[u].graph = [source |-> base'[u].dill, names |-> base'[u].names]
                          /\ side[u].fonts # Nil => side[u].fonts.of = base'[u].dill
                          /\ lane[u] # Nil => lane[u].dill = base'[u].dill
                          /\ ipa[u] # Nil => ipa[u] = [image |-> [source |-> base'[u].dill, names |-> base'[u].names],
                                                       identity |-> u] /\ lane[u] # Nil
        BY <1>0 DEF OfOneBuild, Whole
      <4>1. CASE base[u] # Nil
        BY <2>b, <3>1, <4>1 DEF InTurn, OfOneBuild
      <4>2. CASE base[u] = Nil
        <5>1. u = v /\ base'[u] = core
          BY <2>b, <4>2
        <5>2. side[u].graph = Nil /\ side[u].fonts = Nil /\ lane[u] = Nil /\ ipa[u] = Nil
          BY <4>2 DEF FreehandInv, Records
        <5>3. {"undone", "late"} \cap marks = {} => Whole(core)
          BY <1>0, <3>1 DEF Releasing, core
        <5> QED
          BY <5>1, <5>2, <5>3
      <4> QED
        BY <4>1, <4>2
    <3>5. OfTheTree'
      <4>1. \A a \in artifacts : base'[a.version] = base[a.version]
        BY <2>b DEF FreehandInv, Records, Typed, TypeOK, Artifacts
      <4> QED
        BY <1>0, <3>1, <4>1 DEF InTurn, OfTheTree
    <3>6. FontsKept'
      <4> SUFFICES ASSUME "cut" \notin marks, NEW u \in Versions, base'[u] # Nil, side[u].fonts = Nil
                   PROVE  \E d \in Releases : cmd'[d].at \in Keeping /\ cmd'[d].version = u
        BY <1>0 DEF FontsKept
      <4>1. CASE u = v
        BY <1>1, <2>3, <2>k, <4>1
      <4>2. CASE u # v
        <5>1. base[u] # Nil
          BY <2>b, <4>2
        <5>2. PICK d \in Releases : cmd[d].at \in Keeping /\ cmd[d].version = u
          BY <3>1, <5>1 DEF InTurn, FontsKept
        <5>3. cmd'[d] = cmd[d]
          BY <2>3, <4>2, <5>2, Sides DEF v
        <5> QED
          BY <5>2, <5>3
      <4> QED
        BY <4>1, <4>2
    <3> QED
      BY <3>3, <3>4, <3>5, <3>6
  <2> QED
    BY <1>0, <1>1, <2>3, <2>4, <2>5, <2>6, <2>7, <2>8, <2>c, <2>9, <2>10, Facts, StepKeeps
<1> QED
  BY <1>a, <1>b DEF Publish

LEMMA DeliverKeeps == ASSUME FreehandInv, NEW c \in Cmds, Deliver(c) PROVE FreehandInv'
<1>0. /\ cmd[c].at = "deliver"
      /\ UNCHANGED <<tree, staged, kernel, base, side, lane, hosted, ipa, artifacts, marks, used>>
  BY DEF Deliver, At, records
<1>1. Shape(c, cmd[c]) /\ Recorded(c) /\ Active(c) /\ cmd[c] \in Command /\ c \in Releases /\ cmd[c].version \in Versions
  BY <1>0, Facts DEF Active, Ended, Shape, ReleaseSteps, Delivering
<1>a. CASE app = Nil
  <2>1. End(c, "failed") /\ UNCHANGED app
    BY <1>a DEF Deliver
  <2>2. "overlap" \in marks
    BY <1>0, <1>1, <1>a, Facts DEF Doing, Releasing, ReleaseSteps, Delivering
  <2> QED
    BY <1>0, <1>1, <2>1, <2>2, EndKeeps DEF End
<1>b. CASE app # Nil
  <2>1. app' = [app EXCEPT !.identity = cmd[c].version] /\ Go(c, "adopt") /\ UNCHANGED activation
    BY <1>b DEF Deliver
  <2>2. app \in Apps /\ app' \in Apps /\ app'.image = app.image /\ app'.identity = cmd[c].version
    BY <1>1, <1>b, <2>1, FilesTyped DEF Apps
  <2>3. cmd' \in [Cmds -> Command] /\ cmd'[c].at = "adopt" /\ Keeps(c) /\ \A o \in Cmds \ {c} : cmd'[o] = cmd[o]
    BY <2>1, Goes DEF Steps
  <2>4. Shape(c, cmd'[c])
    BY <1>0, <1>1, <2>3, Sides DEF Shape, Keeps, ReleaseSteps, PatchSteps, Delivering, Ended
  <2>5. Recorded(c)'
    BY <1>0, <1>1, <2>3, Sides DEF Recorded, Keeps, Delivering, Active, At
  <2>6. Owes(c)' /\ app' # Nil
    BY <1>1, <2>2, <2>3, NilIsNone DEF Owes, Active, Ended
  <2>7. ASSUME "overlap" \notin marks PROVE Doing(c)'
    <3>1. Releasing(c)
      BY <1>1, <2>7, Facts DEF Doing
    <3>2. Releasing(c)'
      BY <1>0, <2>2, <2>3, <2>6, <3>1 DEF Releasing, Keeps, ReleaseSteps, Delivering
    <3> QED
      BY <1>1, <2>3, <3>2, Sides DEF Doing
  <2>8. cmd'[c].version = cmd[c].version
    BY <2>3 DEF Keeps
  <2> QED
    BY <1>0, <1>1, <2>1, <2>2, <2>3, <2>4, <2>5, <2>6, <2>7, <2>8, QuietStep, FilesTyped
<1> QED
  BY <1>a, <1>b

(* The command keeps something more beside its baseline.                   *)
LEMMA BesideKeeps ==
    ASSUME FreehandInv, NEW c \in Cmds, Active(c), cmd[c].at \in Keeping \ {"deliver"}, c \in Releases,
           cmd' \in [Cmds -> Command], \A o \in Cmds \ {c} : cmd'[o] = cmd[o],
           Keeps(c), cmd'[c].at \in {"fonts", "clear", "copy", "register"},
           cmd'[c].at \in {"clear", "copy"} => cmd[c].at \in {"clear", "copy"},
           cmd'[c].at \in {"clear", "copy", "register"} => app # Nil,
           staged' \in [edges : Sources \cup {Nil}, graph : Images \cup {Nil}],
           side' \in [Versions -> [graph : Images \cup {Nil}, fonts : Fonts \cup {Nil}]],
           \A u \in Versions \ {cmd[c].version} : side'[u] = side[u],
           side[cmd[c].version].graph # Nil => side'[cmd[c].version].graph # Nil,
           UNCHANGED <<tree, activation, kernel, app, base, lane, hosted, ipa, artifacts, marks>>,
           AllCovered',
           "overlap" \notin marks /\ "profile" \notin marks /\ side'[cmd[c].version].graph # Nil =>
               side'[cmd[c].version].graph = [source |-> base[cmd[c].version].dill, names |-> base[cmd[c].version].names],
           "overlap" \notin marks /\ side'[cmd[c].version].fonts # Nil =>
               side'[cmd[c].version].fonts.of = base[cmd[c].version].dill,
           "overlap" \notin marks /\ cmd'[c].at = "register" => side'[cmd[c].version].fonts # Nil
    PROVE  FreehandInv'
<1> DEFINE v == cmd[c].version
<1>1. Shape(c, cmd[c]) /\ Recorded(c) /\ cmd[c] \in Command /\ v \in Versions
      /\ base[v] = cmd[c].core /\ cmd[c].core \in Baselines
  BY Facts DEF Shape, Delivering, Recorded
<1>2. cmd'[c].version = v
  BY DEF Keeps
<1>3. Shape(c, cmd'[c])
  BY <1>1, Sides DEF Shape, Keeps, ReleaseSteps, PatchSteps, Delivering, Ended
<1>4. Recorded(c)'
  BY <1>1, Sides DEF Recorded, Keeps, Delivering, Active, At
<1>5. Owes(c)'
  BY <1>1 DEF Owes, Active, Ended
<1> HIDE DEF v
<1>6. Grows
  BY DEF Grows, v
<1>7. Records'
  <2>1. \A u \in Versions : base[u] = Nil => u # v
    BY <1>1, NilIsNone
  <2> QED
    BY <2>1 DEF FreehandInv, Records, v
<1>8. Typed'
  BY DEF FreehandInv, Typed, TypeOK, Command
<1>9. ASSUME "overlap" \notin marks PROVE Doing(c)' /\ OfOneBuild' /\ OfTheTree' /\ FontsKept'
  <2>1. InTurn /\ Releasing(c)
    BY <1>1, <1>9, Facts DEF Doing
  <2>2. Releasing(c)'
    BY <2>1 DEF Releasing, Keeps, ReleaseSteps, Delivering
  <2>3. Doing(c)'
    BY <2>2, Sides DEF Doing
  <2>5. OfOneBuild'
    <3> SUFFICES ASSUME NEW u \in Versions, base[u] # Nil
                 PROVE  /\ {"undone", "late"} \cap marks = {} => Whole(base[u])
                        /\ "profile" \notin marks /\ side'[u].graph # Nil =>
                               side'[u].graph = [source |-> base[u].dill, names |-> base[u].names]
                        /\ side'[u].fonts # Nil => side'[u].fonts.of = base[u].dill
                        /\ lane[u] # Nil => lane[u].dill = base[u].dill
                        /\ ipa[u] # Nil => ipa[u] = [image |-> [source |-> base[u].dill, names |-> base[u].names],
                                                     identity |-> u] /\ lane[u] # Nil
      BY DEF OfOneBuild, Whole
    <3>1. CASE u = v
      BY <1>9, <2>1, <3>1 DEF InTurn, OfOneBuild, v
    <3>2. CASE u # v
      BY <2>1, <3>2 DEF InTurn, OfOneBuild, v
    <3> QED
      BY <3>1, <3>2
  <2>6. OfTheTree'
    BY <2>1 DEF InTurn, OfTheTree
  <2>7. FontsKept'
    <3> SUFFICES ASSUME "cut" \notin marks, NEW u \in Versions, base[u] # Nil, side'[u].fonts = Nil
                 PROVE  \E d \in Releases : cmd'[d].at \in Keeping /\ cmd'[d].version = u
      BY DEF FontsKept
    <3>1. CASE u = v
      BY <1>2, <1>9, <3>1 DEF v
    <3>2. CASE u # v
      <4>1. PICK d \in Releases : cmd[d].at \in Keeping /\ cmd[d].version = u
        BY <2>1, <3>2 DEF InTurn, FontsKept, v
      <4> QED
        BY <3>2, <4>1, Sides DEF v
    <3> QED
      BY <3>1, <3>2
  <2> QED
    BY <2>3, <2>5, <2>6, <2>7
<1> QED
  BY <1>3, <1>4, <1>5, <1>6, <1>7, <1>8, <1>9, Facts, StepKeeps

(* What is kept beside a baseline, while commands run one at a time.       *)
LEMMA BesideOne ==
    ASSUME FreehandInv, NEW c \in Cmds, c \in Releases, cmd[c].at \in Keeping, "overlap" \notin marks
    PROVE  LET v == cmd[c].version IN
           /\ base[v] = cmd[c].core /\ Releasing(c)
           /\ cmd[c].core.dill = cmd[c].image.source /\ cmd[c].core.names = cmd[c].image.names
           /\ "profile" \notin marks /\ side[v].graph # Nil =>
                  side[v].graph = [source |-> base[v].dill, names |-> base[v].names]
           /\ side[v].fonts # Nil => side[v].fonts.of = base[v].dill
<1>1. InTurn /\ Releasing(c) /\ Recorded(c) /\ Shape(c, cmd[c]) /\ cmd[c].version \in Versions
  BY Facts DEF Doing
<1>2. base[cmd[c].version] = cmd[c].core /\ base[cmd[c].version] # Nil
  BY <1>1, NilIsNone DEF Recorded, Shape, Delivering
<1> QED
  BY <1>1, <1>2 DEF InTurn, OfOneBuild, Releasing, Delivering

(* The object graph is of the build in hand, if it is of this command.     *)
LEMMA AdoptKeeps == ASSUME FreehandInv, NEW c \in Cmds, Adopt(c) PROVE FreehandInv'
<1> DEFINE v == cmd[c].version
           graph == staged.graph
<1>0. /\ cmd[c].at = "adopt" /\ Go(c, "fonts")
      /\ UNCHANGED <<tree, activation, kernel, app, base, lane, hosted, ipa, artifacts, marks>>
  BY DEF Adopt, At
<1>1. Shape(c, cmd[c]) /\ Active(c) /\ c \in Releases /\ v \in Versions
  BY <1>0, Facts DEF Active, Ended, Shape, ReleaseSteps, Delivering
<1>t. side \in [Versions -> [graph : Images \cup {Nil}, fonts : Fonts \cup {Nil}]] /\ graph \in Images \cup {Nil}
      /\ staged \in [edges : Sources \cup {Nil}, graph : Images \cup {Nil}]
  BY FilesTyped DEF FreehandInv, Typed, TypeOK
<1>2. cmd' \in [Cmds -> Command] /\ cmd'[c].at = "fonts" /\ Keeps(c) /\ \A o \in Cmds \ {c} : cmd'[o] = cmd[o]
  BY <1>0, Goes DEF Steps
<1>3. (/\ graph # Nil /\ side' = [side EXCEPT ![v].graph = graph] /\ staged' = [staged EXCEPT !.graph = Nil])
      \/ UNCHANGED <<side, staged>>
  BY DEF Adopt
<1>s. /\ side' \in [Versions -> [graph : Images \cup {Nil}, fonts : Fonts \cup {Nil}]]
      /\ staged' \in [edges : Sources \cup {Nil}, graph : Images \cup {Nil}]
      /\ \A u \in Versions \ {v} : side'[u] = side[u]
      /\ side'[v].fonts = side[v].fonts
      /\ side'[v].graph = side[v].graph \/ (graph # Nil /\ side'[v].graph = graph)
  BY <1>1, <1>3, <1>t
<1>4. AllCovered'
  BY <1>0, <1>2, <1>s, StaysCovered DEF Shipping
<1>5. ASSUME "overlap" \notin marks
      PROVE  /\ "profile" \notin marks /\ side'[v].graph # Nil =>
                    side'[v].graph = [source |-> base[v].dill, names |-> base[v].names]
             /\ side'[v].fonts # Nil => side'[v].fonts.of = base[v].dill
  <2>1. /\ base[v] = cmd[c].core /\ Releasing(c)
        /\ cmd[c].core.dill = cmd[c].image.source /\ cmd[c].core.names = cmd[c].image.names
        /\ "profile" \notin marks /\ side[v].graph # Nil =>
               side[v].graph = [source |-> base[v].dill, names |-> base[v].names]
        /\ side[v].fonts # Nil => side[v].fonts.of = base[v].dill
    BY <1>0, <1>1, <1>5, BesideOne
  <2>2. ASSUME "profile" \notin marks, graph # Nil
        PROVE  graph = [source |-> base[v].dill, names |-> base[v].names]
    <3>1. graph = cmd[c].image
      BY <1>0, <2>1, <2>2 DEF Releasing
    <3>2. graph = [source |-> graph.source, names |-> graph.names]
      BY <1>t, <2>2 DEF Images
    <3> QED
      BY <2>1, <3>1, <3>2
  <2> QED
    BY <1>s, <2>1, <2>2
<1> HIDE DEF graph
<1> QED
  BY <1>0, <1>1, <1>2, <1>s, <1>4, <1>5, BesideKeeps

(* The fonts that are read are those of the app in hand.                   *)
LEMMA ReadFontsKeeps == ASSUME FreehandInv, NEW c \in Cmds, ReadFonts(c) PROVE FreehandInv'
<1> DEFINE icons == app.image.source
           r == [cmd[c] EXCEPT !.at = "clear", !.icons = icons]
<1>0. /\ cmd[c].at = "fonts" /\ app # Nil /\ Set(c, r)
      /\ UNCHANGED <<tree, activation, staged, kernel, app, base, side, lane, hosted, ipa, artifacts, marks, used>>
  BY DEF ReadFonts, At, records, shared
<1>1. Shape(c, cmd[c]) /\ Recorded(c) /\ Active(c) /\ cmd[c] \in Command /\ c \in Releases
  BY <1>0, Facts DEF Active, Ended, Shape, ReleaseSteps, Delivering
<1>i. icons \in Sources
  BY <1>0, FilesTyped DEF Apps, Images
<1> HIDE DEF icons
<1>2. /\ r \in Command /\ r.at = "clear" /\ r.icons = icons /\ r.image = cmd[c].image /\ r.core = cmd[c].core
      /\ r.inputs = cmd[c].inputs /\ r.version = cmd[c].version /\ r.obfuscate = cmd[c].obfuscate
  BY ZenonT(30), <1>1, <1>i DEF Command, Steps
<1> HIDE DEF r
<1>3. cmd' \in [Cmds -> Command] /\ cmd'[c] = r /\ \A o \in Cmds \ {c} : cmd'[o] = cmd[o]
  BY <1>0, <1>2, Sets
<1>4. Shape(c, r)
  BY <1>0, <1>1, <1>2, <1>i, Sides DEF Shape, ReleaseSteps, PatchSteps, Delivering, Ended
<1>5. Recorded(c)'
  BY <1>0, <1>1, <1>2, <1>3, Sides DEF Recorded, Delivering, Active, At
<1>6. Owes(c)'
  BY <1>1, <1>2, <1>3 DEF Owes, Active, Ended
<1>7. ASSUME "overlap" \notin marks PROVE Doing(c)'
  <2>1. Releasing(c)
    BY <1>1, <1>7, Facts DEF Doing
  <2>2. icons = cmd[c].image.source
    BY <1>0, <2>1 DEF Releasing, ReleaseSteps, Delivering, icons
  <2>3. Releasing(c)'
    BY <1>0, <1>2, <1>3, <2>1, <2>2 DEF Releasing, ReleaseSteps, Delivering
  <2> QED
    BY <1>1, <1>2, <1>3, <2>3, Sides DEF Doing
<1>8. cmd'[c].at = "clear" /\ cmd'[c].version = cmd[c].version
  BY <1>2, <1>3
<1> QED
  BY <1>0, <1>1, <1>2, <1>3, <1>4, <1>5, <1>6, <1>7, <1>8, QuietStep, FilesTyped

(* What putting fonts beside a baseline does.                              *)
LEMMA Puts ==
    ASSUME FreehandInv, NEW c \in Cmds, NEW fonts \in Fonts \cup {Nil}, PutFonts(c, fonts)
    PROVE  LET v == cmd[c].version IN
           /\ side' \in [Versions -> [graph : Images \cup {Nil}, fonts : Fonts \cup {Nil}]]
           /\ \A u \in Versions \ {v} : side'[u] = side[u]
           /\ side'[v].graph = side[v].graph /\ side'[v].fonts = fonts
<1>1. side \in [Versions -> [graph : Images \cup {Nil}, fonts : Fonts \cup {Nil}]] /\ cmd[c].version \in Versions
  BY Facts DEF FreehandInv, Typed, TypeOK
<1> QED
  BY <1>1 DEF PutFonts

LEMMA StaysAt ==
    ASSUME FreehandInv, NEW c \in Cmds, UNCHANGED cmd
    PROVE  cmd' \in [Cmds -> Command] /\ Keeps(c) /\ \A o \in Cmds \ {c} : cmd'[o] = cmd[o]
BY Facts DEF Keeps

(* The fonts that are removed are covered by the command that removes them.*)
LEMMA ClearFontsKeeps == ASSUME FreehandInv, NEW c \in Cmds, ClearFonts(c) PROVE FreehandInv'
<1> DEFINE v == cmd[c].version
<1>0. /\ cmd[c].at = "clear"
      /\ UNCHANGED <<tree, activation, staged, kernel, app, base, lane, hosted, ipa, artifacts, marks>>
  BY DEF ClearFonts, At, shared
<1>1. Shape(c, cmd[c]) /\ Active(c) /\ c \in Releases /\ v \in Versions /\ app # Nil
      /\ staged \in [edges : Sources \cup {Nil}, graph : Images \cup {Nil}]
  BY <1>0, Facts, FilesTyped DEF Active, Ended, Shape, ReleaseSteps, Delivering, Recorded
<1>2. "overlap" \notin marks =>
          /\ "profile" \notin marks /\ side[v].graph # Nil =>
                 side[v].graph = [source |-> base[v].dill, names |-> base[v].names]
          /\ side[v].fonts # Nil => side[v].fonts.of = base[v].dill
  BY <1>0, <1>1, BesideOne
<1>a. CASE side[v].fonts # Nil /\ PutFonts(c, [side[v].fonts EXCEPT !.whole = FALSE]) /\ UNCHANGED cmd
  <2> DEFINE fonts == [side[v].fonts EXCEPT !.whole = FALSE]
  <2>1. side[v].fonts \in Fonts
    BY <1>1, <1>a DEF FreehandInv, Typed, TypeOK
  <2>2. fonts \in Fonts /\ fonts # Nil /\ fonts.of = side[v].fonts.of
    BY <2>1, NilIsNone DEF Fonts
  <2> HIDE DEF fonts
  <2>3. /\ side' \in [Versions -> [graph : Images \cup {Nil}, fonts : Fonts \cup {Nil}]]
        /\ \A u \in Versions \ {v} : side'[u] = side[u]
        /\ side'[v].graph = side[v].graph /\ side'[v].fonts = fonts
    BY <1>a, <2>2, Puts DEF fonts
  <2>4. cmd' \in [Cmds -> Command] /\ Keeps(c) /\ (\A o \in Cmds \ {c} : cmd'[o] = cmd[o]) /\ cmd'[c].at = "clear"
    BY <1>0, <1>a, StaysAt
  <2>5. AllCovered'
    BY <1>0, <2>2, <2>3, <2>4, StaysCovered DEF Shipping
  <2> QED
    BY <1>0, <1>1, <1>2, <1>a, <2>2, <2>3, <2>4, <2>5, BesideKeeps
<1>b. CASE PutFonts(c, Nil) /\ Go(c, "copy")
  <2>1. cmd' \in [Cmds -> Command] /\ cmd'[c].at = "copy" /\ Keeps(c) /\ \A o \in Cmds \ {c} : cmd'[o] = cmd[o]
    BY <1>b, Goes DEF Steps
  <2>2. /\ side' \in [Versions -> [graph : Images \cup {Nil}, fonts : Fonts \cup {Nil}]]
        /\ \A u \in Versions \ {v} : side'[u] = side[u]
        /\ side'[v].graph = side[v].graph /\ side'[v].fonts = Nil
    BY <1>b, Puts
  <2>3. AllCovered'
    <3> SUFFICES ASSUME "bare" \notin marks, NEW u \in Versions, Shipping(u)' PROVE Covered(u)'
      BY <1>0 DEF AllCovered
    <3>1. Shipping(u)
      BY <1>0, <2>1, Sides DEF Shipping
    <3>2. Covered(u)
      BY <3>1 DEF FreehandInv, AllCovered
    <3>3. CASE u = v
      BY <1>1, <2>1, <3>3 DEF Covered, Keeps
    <3>4. CASE u # v
      <4>1. side'[u] = side[u]
        BY <2>2, <3>4
      <4>2. \A d \in Releases : cmd[d].at = "copy" => cmd'[d] = cmd[d]
        BY <1>0, <2>1, Sides
      <4> QED
        BY <3>2, <4>1, <4>2 DEF Covered
    <3> QED
      BY <3>3, <3>4
  <2> QED
    BY <1>0, <1>1, <1>2, <2>1, <2>2, <2>3, BesideKeeps
<1> QED
  BY <1>a, <1>b DEF ClearFonts, KeptFonts

(* One at a time, what is copied is of the build the baseline records.     *)
LEMMA CopyFontsKeeps == ASSUME FreehandInv, NEW c \in Cmds, CopyFonts(c) PROVE FreehandInv'
<1> DEFINE v == cmd[c].version
<1>0. /\ cmd[c].at = "copy"
      /\ UNCHANGED <<tree, activation, staged, kernel, app, base, lane, hosted, ipa, artifacts, marks>>
  BY DEF CopyFonts, At, shared
<1>1. Shape(c, cmd[c]) /\ Active(c) /\ c \in Releases /\ v \in Versions /\ cmd[c].icons \in Sources
      /\ staged \in [edges : Sources \cup {Nil}, graph : Images \cup {Nil}]
  BY <1>0, Facts, FilesTyped DEF Active, Ended, Shape, ReleaseSteps, Delivering
<1>2. PICK fonts \in Copies(c) : PutFonts(c, fonts) /\ (UNCHANGED cmd \/ Go(c, "register"))
  BY DEF CopyFonts
<1>3. fonts \in Fonts /\ fonts # Nil /\ ("overlap" \notin marks => fonts.of = cmd[c].icons)
  <2>1. fonts \in Fonts
    BY <1>1, <1>2 DEF Copies, Fonts
  <2>2. "overlap" \notin marks => fonts.of = cmd[c].icons
    BY <1>2 DEF Copies
  <2> QED
    BY <2>1, <2>2, NilIsNone
<1>4. "overlap" \notin marks =>
          /\ "profile" \notin marks /\ side[v].graph # Nil =>
                 side[v].graph = [source |-> base[v].dill, names |-> base[v].names]
          /\ fonts.of = base[v].dill
  <2> SUFFICES ASSUME "overlap" \notin marks
               PROVE  /\ "profile" \notin marks /\ side[v].graph # Nil =>
                             side[v].graph = [source |-> base[v].dill, names |-> base[v].names]
                      /\ fonts.of = base[v].dill
    OBVIOUS
  <2>1. /\ base[v] = cmd[c].core /\ Releasing(c) /\ cmd[c].core.dill = cmd[c].image.source
        /\ "profile" \notin marks /\ side[v].graph # Nil =>
                 side[v].graph = [source |-> base[v].dill, names |-> base[v].names]
    BY <1>0, <1>1, BesideOne
  <2>2. cmd[c].icons = cmd[c].image.source
    BY <1>0, <2>1 DEF Releasing
  <2> QED
    BY <1>3, <2>1, <2>2
<1>5. /\ side' \in [Versions -> [graph : Images \cup {Nil}, fonts : Fonts \cup {Nil}]]
      /\ \A u \in Versions \ {v} : side'[u] = side[u]
      /\ side'[v].graph = side[v].graph /\ side'[v].fonts = fonts
  BY <1>2, <1>3, Puts
<1>6. /\ cmd' \in [Cmds -> Command] /\ Keeps(c) /\ (\A o \in Cmds \ {c} : cmd'[o] = cmd[o])
      /\ cmd'[c].at \in {"copy", "register"}
  BY <1>0, <1>2, Goes, StaysAt DEF Steps
<1>7. cmd'[c].version = v
  BY <1>6 DEF Keeps
<1>8. AllCovered'
  BY <1>0, <1>3, <1>5, <1>6, <1>7, StaysCovered DEF Shipping
<1>9. app # Nil
  BY <1>0, <1>1, Facts DEF Recorded
<1> QED
  BY <1>0, <1>1, <1>3, <1>4, <1>5, <1>6, <1>8, <1>9, BesideKeeps

LEMMA SignKeeps == ASSUME FreehandInv, NEW c \in Cmds, Sign(c) PROVE FreehandInv'
<1> DEFINE r == [cmd[c] EXCEPT !.at = "lane", !.signed = app]
<1>0. /\ cmd[c].at = "register"
      /\ UNCHANGED <<tree, staged, kernel, app, base, side, lane, hosted, ipa, artifacts, marks, used>>
  BY DEF Sign, At, records
<1>1. /\ Shape(c, cmd[c]) /\ Recorded(c) /\ Active(c) /\ cmd[c] \in Command /\ c \in Releases
      /\ app # Nil /\ app \in Apps
  BY <1>0, Facts, FilesTyped DEF Active, Ended, Shape, ReleaseSteps, Delivering, Recorded
<1>a. CASE End(c, "failed")
  BY <1>0, <1>1, <1>a, EndKeeps DEF End
<1>b. CASE Set(c, r) /\ UNCHANGED activation
  <2>2. /\ r \in Command /\ r.at = "lane" /\ r.signed = app /\ r.core = cmd[c].core /\ r.image = cmd[c].image
        /\ r.inputs = cmd[c].inputs /\ r.version = cmd[c].version /\ r.obfuscate = cmd[c].obfuscate
    BY ZenonT(30), <1>1 DEF Command, Steps
  <2> HIDE DEF r
  <2>3. cmd' \in [Cmds -> Command] /\ cmd'[c] = r /\ \A o \in Cmds \ {c} : cmd'[o] = cmd[o]
    BY <1>b, <2>2, Sets
  <2>4. Shape(c, r)
    BY <1>0, <1>1, <2>2, Sides DEF Shape, ReleaseSteps, PatchSteps, Delivering, Ended
  <2>5. Recorded(c)'
    BY <1>0, <1>1, <2>2, <2>3, Sides DEF Recorded, Delivering, Active, At
  <2>6. Owes(c)'
    BY <1>1, <2>2, <2>3 DEF Owes, Active, Ended
  <2>7. ASSUME "overlap" \notin marks PROVE Doing(c)'
    <3>1. Releasing(c)
      BY <1>1, <2>7, Facts DEF Doing
    <3>2. app = [image |-> cmd[c].image, identity |-> cmd[c].version]
      BY <1>0, <1>1, <3>1 DEF Releasing, ReleaseSteps, Delivering, Apps
    <3>3. Releasing(c)'
      BY <1>0, <2>2, <2>3, <3>1, <3>2 DEF Releasing, ReleaseSteps, Delivering
    <3> QED
      BY <1>1, <2>2, <2>3, <3>3, Sides DEF Doing
  <2> QED
    BY <1>0, <1>1, <1>b, <2>2, <2>3, <2>4, <2>5, <2>6, <2>7, QuietStep, FilesTyped
<1> QED
  BY <1>a, <1>b DEF Sign

(* The engine lane records the app.dill of the build in hand; the call     *)
(* that registers the version may fail after that.                         *)
LEMMA HostKeeps == ASSUME FreehandInv, NEW c \in Cmds, Host(c) PROVE FreehandInv'
<1> DEFINE v == cmd[c].version
           entry == [dill |-> kernel.source, manifest |-> base[v].manifest]
<1>0. /\ cmd[c].at = "lane"
      /\ UNCHANGED <<tree, staged, kernel, app, base, side, ipa, artifacts, marks>>
  BY DEF Host, At
<1>1. /\ Shape(c, cmd[c]) /\ Recorded(c) /\ Active(c) /\ cmd[c] \in Command /\ c \in Releases /\ v \in Versions
      /\ base[v] = cmd[c].core /\ cmd[c].core \in Baselines
  BY <1>0, Facts DEF Active, Ended, Shape, ReleaseSteps, Delivering, Recorded
<1>a. CASE End(c, "failed") /\ UNCHANGED <<lane, hosted>>
  BY <1>0, <1>1, <1>a, EndKeeps DEF End
<1>b. CASE /\ kernel # Nil /\ lane[v] \in {Nil, entry} /\ lane' = [lane EXCEPT ![v] = entry]
           /\ \/ hosted' = hosted \cup {v} /\ Go(c, "ipa") /\ UNCHANGED activation
              \/ End(c, "failed") /\ UNCHANGED hosted
  <2>t. lane \in [Versions -> LaneRecords \cup {Nil}] /\ entry \in LaneRecords /\ entry # Nil
    <3>1. kernel.source \in Sources /\ base[v].manifest \in Sources
      BY <1>1, <1>b, FilesTyped DEF Kernels, Baselines
    <3>2. entry \in LaneRecords
      BY <3>1 DEF LaneRecords
    <3> QED
      BY <3>2, NilIsNone DEF FreehandInv, Typed, TypeOK
  <2>l. /\ lane' \in [Versions -> LaneRecords \cup {Nil}]
        /\ lane'[v] = entry /\ \A u \in Versions \ {v} : lane'[u] = lane[u]
    BY <1>1, <1>b, <2>t
  <2>d. entry.dill = kernel.source
    OBVIOUS
  <2> HIDE DEF entry
  <2>1. /\ cmd' \in [Cmds -> Command] /\ \A o \in Cmds \ {c} : cmd'[o] = cmd[o]
        /\ Shape(c, cmd'[c]) /\ Recorded(c)' /\ (activation' => Owes(c)') /\ activation' \in BOOLEAN
        /\ "overlap" \notin marks => Doing(c)'
    <3>1. CASE hosted' = hosted \cup {v} /\ Go(c, "ipa") /\ UNCHANGED activation
      <4>1. cmd' \in [Cmds -> Command] /\ cmd'[c].at = "ipa" /\ Keeps(c) /\ \A o \in Cmds \ {c} : cmd'[o] = cmd[o]
        BY <3>1, Goes DEF Steps
      <4>2. Shape(c, cmd'[c])
        BY <1>0, <1>1, <4>1, Sides DEF Shape, Keeps, ReleaseSteps, PatchSteps, Delivering, Ended
      <4>3. Recorded(c)'
        BY <1>0, <1>1, <2>l, <2>t, <4>1, Sides DEF Recorded, Keeps, Delivering, Active, At
      <4>4. Owes(c)'
        BY <1>1, <4>1 DEF Owes, Active, Ended
      <4>5. ASSUME "overlap" \notin marks PROVE Doing(c)'
        <5>1. Releasing(c)
          BY <1>1, <4>5, Facts DEF Doing
        <5>2. Releasing(c)'
          BY <1>0, <4>1, <5>1 DEF Releasing, Keeps, ReleaseSteps, Delivering
        <5> QED
          BY <1>1, <4>1, <5>2, Sides DEF Doing
      <4> QED
        BY <3>1, <4>1, <4>2, <4>3, <4>4, <4>5, FilesTyped
    <3>2. CASE End(c, "failed") /\ UNCHANGED hosted
      BY <3>2, Stops DEF End
    <3> QED
      BY <1>b, <3>1, <3>2
  <2>2. hosted' \subseteq hosted \cup {v}
    BY <1>b
  <2>3. Grows
    BY <1>0, <2>l, <2>t DEF Grows
  <2>4. Records'
    <3>1. \A u \in Versions : base[u] = Nil => u # v
      BY <1>1, NilIsNone
    <3>2. \A u \in Versions : base[u] = Nil => lane'[u] = lane[u]
      BY <2>l, <3>1
    <3> QED
      BY <1>0, <3>2 DEF FreehandInv, Records
  <2>c. AllCovered'
    <3>1. /\ cmd'[c].at \in {"ipa", "failed"} /\ (cmd'[c].at = "ipa" => cmd'[c].version = v)
      BY <1>b, Goes, Stops DEF Steps, Keeps, End
    <3>2. \A u \in hosted' : Shipping(u)
      BY <1>0, <1>1, <2>2 DEF Shipping
    <3> QED
      BY <1>0, <2>1, <3>1, <3>2, StaysCovered
  <2>5. Typed'
    <3>1. \A u \in hosted' : u \in Versions /\ base[u] # Nil /\ lane'[u] # Nil
      <4> SUFFICES ASSUME NEW u \in hosted' PROVE u \in Versions /\ base[u] # Nil /\ lane'[u] # Nil
        OBVIOUS
      <4>1. u = v \/ (u \in hosted /\ u # v)
        BY <2>2
      <4>2. CASE u = v
        BY <1>1, <2>l, <2>t, <4>2, NilIsNone
      <4>3. CASE u \in hosted /\ u # v
        BY <2>l, <4>3 DEF FreehandInv, Typed, TypeOK
      <4> QED
        BY <4>1, <4>2, <4>3
    <3>2. TypeOK'
      BY <1>0, <2>1, <2>l, <3>1 DEF FreehandInv, Typed, TypeOK, Command
    <3> QED
      BY <1>0, <2>1, <3>1, <3>2 DEF FreehandInv, Typed
  <2>6. ASSUME "overlap" \notin marks PROVE OfOneBuild' /\ OfTheTree' /\ FontsKept'
    <3>1. InTurn /\ Releasing(c)
      BY <1>1, <2>6, Facts DEF Doing
    <3>2. entry.dill = base[v].dill
      BY <1>0, <1>1, <2>d, <3>1 DEF Releasing, ReleaseSteps, Delivering
    <3>3. OfOneBuild'
      BY <1>0, <2>l, <2>t, <3>1, <3>2 DEF InTurn, OfOneBuild
    <3>4. OfTheTree'
      BY <1>0, <3>1 DEF InTurn, OfTheTree
    <3>5. FontsKept'
      <4> SUFFICES ASSUME "cut" \notin marks, NEW u \in Versions, base[u] # Nil, side[u].fonts = Nil
                   PROVE  \E d \in Releases : cmd'[d].at \in Keeping /\ cmd'[d].version = u
        BY <1>0 DEF FontsKept
      <4>1. PICK d \in Releases : cmd[d].at \in Keeping /\ cmd[d].version = u
        BY <3>1 DEF InTurn, FontsKept
      <4>2. cmd'[d] = cmd[d]
        BY <1>0, <2>1, <4>1, Sides
      <4> QED
        BY <4>1, <4>2
    <3> QED
      BY <3>3, <3>4, <3>5
  <2> QED
    BY <1>0, <1>1, <2>1, <2>3, <2>4, <2>c, <2>5, <2>6, Facts, StepKeeps
<1> QED
  BY <1>a, <1>b DEF Host

(* What is signed is what the baseline records.                            *)
LEMMA PutIPAKeeps == ASSUME FreehandInv, NEW c \in Cmds, PutIPA(c) PROVE FreehandInv'
<1> DEFINE v == cmd[c].version
           signed == cmd[c].signed
<1>0. /\ cmd[c].at = "ipa" /\ Stop(c, "done") /\ activation' = FALSE /\ ipa' = [ipa EXCEPT ![v] = signed]
      /\ UNCHANGED <<tree, staged, kernel, app, base, side, lane, hosted, artifacts, marks, used>>
  BY DEF PutIPA, At, End
<1>1. /\ Shape(c, cmd[c]) /\ Recorded(c) /\ Active(c) /\ cmd[c] \in Command /\ c \in Releases /\ v \in Versions
      /\ base[v] = cmd[c].core /\ cmd[c].core \in Baselines /\ signed \in Apps /\ lane[v] # Nil
  BY <1>0, Facts DEF Active, Ended, Shape, ReleaseSteps, Delivering, Recorded
<1>2. /\ ipa' \in [Versions -> Apps \cup {Nil}]
      /\ ipa'[v] = signed /\ \A u \in Versions \ {v} : ipa'[u] = ipa[u]
  BY <1>0, <1>1 DEF FreehandInv, Typed, TypeOK
<1>3. /\ cmd' \in [Cmds -> Command] /\ \A o \in Cmds \ {c} : cmd'[o] = cmd[o]
      /\ Shape(c, cmd'[c]) /\ Recorded(c)' /\ Doing(c)' /\ cmd'[c].at = "done"
  BY <1>0, Stops
<1>4. Grows /\ AllCovered'
  BY <1>0, <1>3, StaysCovered DEF Grows, Shipping
<1>5. Records'
  <2>1. \A u \in Versions : base[u] = Nil => u # v
    BY <1>1, NilIsNone
  <2> QED
    BY <1>0, <1>2, <2>1 DEF FreehandInv, Records
<1>6. Typed'
  BY <1>0, <1>2, <1>3 DEF FreehandInv, Typed, TypeOK, Command
<1>7. ASSUME "overlap" \notin marks PROVE OfOneBuild' /\ OfTheTree' /\ FontsKept'
  <2>1. InTurn /\ Releasing(c)
    BY <1>1, <1>7, Facts DEF Doing
  <2>2. signed = [image |-> [source |-> base[v].dill, names |-> base[v].names], identity |-> v]
    <3>1. signed = [image |-> cmd[c].image, identity |-> v]
      BY <1>0, <2>1 DEF Releasing
    <3>2. cmd[c].core.dill = cmd[c].image.source /\ cmd[c].core.names = cmd[c].image.names
      BY <1>0, <2>1 DEF Releasing, Delivering
    <3>3. cmd[c].image \in Images
      BY <1>1, <3>1 DEF Apps
    <3>4. cmd[c].image = [source |-> base[v].dill, names |-> base[v].names]
      BY <1>1, <3>2, <3>3 DEF Images
    <3> QED
      BY <3>1, <3>4
  <2>3. OfOneBuild'
    <3> SUFFICES ASSUME NEW u \in Versions, base[u] # Nil
                 PROVE  /\ {"undone", "late"} \cap marks = {} => Whole(base[u])
                        /\ "profile" \notin marks /\ side[u].graph # Nil =>
                               side[u].graph = [source |-> base[u].dill, names |-> base[u].names]
                        /\ side[u].fonts # Nil => side[u].fonts.of = base[u].dill
                        /\ lane[u] # Nil => lane[u].dill = base[u].dill
                        /\ ipa'[u] # Nil => ipa'[u] = [image |-> [source |-> base[u].dill, names |-> base[u].names],
                                                       identity |-> u] /\ lane[u] # Nil
      BY <1>0 DEF OfOneBuild, Whole
    <3>1. CASE u = v
      BY <1>1, <1>2, <2>1, <2>2, <3>1 DEF InTurn, OfOneBuild
    <3>2. CASE u # v
      BY <1>2, <2>1, <3>2 DEF InTurn, OfOneBuild
    <3> QED
      BY <3>1, <3>2
  <2>4. OfTheTree'
    BY <1>0, <2>1 DEF InTurn, OfTheTree
  <2>5. FontsKept'
    <3> SUFFICES ASSUME "cut" \notin marks, NEW u \in Versions, base[u] # Nil, side[u].fonts = Nil
                 PROVE  \E d \in Releases : cmd'[d].at \in Keeping /\ cmd'[d].version = u
      BY <1>0 DEF FontsKept
    <3>1. PICK d \in Releases : cmd[d].at \in Keeping /\ cmd[d].version = u
      BY <2>1 DEF InTurn, FontsKept
    <3>2. cmd'[d] = cmd[d]
      BY <1>0, <1>3, <3>1, Sides
    <3> QED
      BY <3>1, <3>2
  <2> QED
    BY <2>3, <2>4, <2>5
<1> QED
  BY <1>0, <1>1, <1>3, <1>4, <1>5, <1>6, <1>7, Facts, StepKeeps

-----------------------------------------------------------------------------
(* The patch: from the plan to the artifact. *)

(* A patch finds the fonts kept: no release is under way that has not.     *)
LEMMA FontsThere ==
    ASSUME FreehandInv, NEW c \in Patches, Active(c), {"overlap", "cut"} \cap marks = {}
    PROVE  side[cmd[c].version].fonts # Nil
<1>1. InTurn /\ base[cmd[c].version] # Nil /\ cmd[c].version \in Versions /\ \A o \in Cmds \ {c} : ~Active(o)
  BY Facts, Sides DEF Recorded
<1>2. \A d \in Releases : cmd[d].at \notin Keeping
  BY <1>1, Sides DEF Active, Ended
<1> QED
  BY <1>1, <1>2 DEF InTurn, FontsKept

(* From one step of a patch to the next.                                   *)
LEMMA PatchStep ==
    ASSUME FreehandInv, NEW c \in Patches, Active(c), cmd[c].at # "candidate",
           cmd' \in [Cmds -> Command], Keeps(c), \A o \in Cmds \ {c} : cmd'[o] = cmd[o],
           cmd'[c].at \in {"compile", "again", "icons", "fold", "generate", "store"},
           UNCHANGED <<tree, kernel, app, base, side, lane, hosted, ipa, artifacts, marks>>,
           activation' \in BOOLEAN, staged' \in [edges : Sources \cup {Nil}, graph : Images \cup {Nil}],
           activation' => Owes(c)' \/ (activation /\ ~Owes(c)),
           cmd'[c].at = "icons" => cmd[c].at = "collect",
           cmd'[c].at \in {"generate", "store"} => side[cmd[c].version].graph # Nil,
           cmd'[c].at \in {"fold", "generate", "store"} /\ {"overlap", "cut"} \cap marks = {} /\ Steady(c)
               /\ cmd[c].inputs.source \in NewIcons => side[cmd[c].version].fonts.of \in NewIcons
    PROVE  FreehandInv'
<1>1. c \in Cmds /\ c \notin Releases
  BY Sides
<1>2. Shape(c, cmd[c]) /\ Recorded(c) /\ cmd[c] \in Command
  BY <1>1, Facts
<1>3. Shape(c, cmd'[c])
  BY <1>1, <1>2 DEF Shape, Keeps, ReleaseSteps, PatchSteps, Delivering, Active, Ended
<1>4. Recorded(c)'
  BY <1>1, <1>2 DEF Recorded, Keeps, Delivering, Active, At
<1>5. ASSUME "overlap" \notin marks PROVE Doing(c)'
  <2>1. Patching(c)
    BY <1>1, <1>5, Facts DEF Doing
  <2>2. Steady(c)' <=> Steady(c)
    BY DEF Steady, Keeps
  <2>3. /\ Steady(c) => cmd[c].kernel = cmd[c].inputs.source
        /\ "during" \notin marks => tree = cmd[c].inputs
        /\ cmd[c].at = "collect" => app # Nil /\ app.image = cmd[c].image
        /\ cmd[c].at = "collect" /\ Steady(c) => cmd[c].image.source = cmd[c].inputs.source
    BY <2>1 DEF Patching, Active
  <2>4. Patching(c)'
    BY <1>5, <2>2, <2>3 DEF Patching, Keeps, Ended
  <2> QED
    BY <1>1, <2>4 DEF Doing
<1>6. cmd[c].at \notin Keeping
  BY <1>1, <1>2 DEF Shape, ReleaseSteps, Delivering
<1> QED
  BY <1>1, <1>3, <1>4, <1>5, <1>6, QuietStep, FilesTyped

(* What remains of a patch that found nothing to do.                       *)
LEMMA NoopKeeps ==
    ASSUME FreehandInv, NEW c \in Patches, Active(c), Stop(c, "noop"),
           UNCHANGED <<tree, staged, kernel, app, base, side, lane, hosted, ipa, artifacts, marks>>,
           activation' = FALSE \/ (activation' = activation /\ ~Owes(c)),
           {"overlap", "undone", "late", "during"} \cap marks = {} =>
               cmd[c].inputs.source = base[cmd[c].version].dill
    PROVE  FreehandInv'
<1> DEFINE r == [Fresh EXCEPT !.at = "noop", !.inputs = cmd[c].inputs, !.version = cmd[c].version]
<1>1. c \in Cmds /\ c \notin Releases
  BY Sides
<1>2. Shape(c, cmd[c]) /\ Recorded(c) /\ cmd[c] \in Command /\ cmd \in [Cmds -> Command]
  BY <1>1, Facts
<1>3. r \in Command /\ r.at = "noop" /\ r.inputs = cmd[c].inputs /\ r.version = cmd[c].version /\ r.obfuscate = FALSE
  BY ZenonT(30), <1>2, FreshTyped DEF Command, Fresh, Steps, Ended
<1>4. cmd' = [cmd EXCEPT ![c] = r]
  BY DEF Stop
<1> HIDE DEF r
<1>5. cmd' \in [Cmds -> Command] /\ cmd'[c] = r /\ \A o \in Cmds \ {c} : cmd'[o] = cmd[o]
  BY <1>1, <1>2, <1>3, <1>4
<1>6. Shape(c, cmd'[c])
  BY <1>1, <1>2, <1>3, <1>5 DEF Shape, ReleaseSteps, PatchSteps, Delivering, Active, Ended
<1>7. Recorded(c)'
  BY <1>1, <1>2, <1>3, <1>5 DEF Recorded, Delivering, Active, At
<1>8. ASSUME "overlap" \notin marks PROVE Doing(c)'
  <2>1. Patching(c)'
    BY <1>3, <1>5, <1>8 DEF Patching, Active, Ended
  <2> QED
    BY <1>1, <1>3, <1>5, <2>1 DEF Doing
<1>9. cmd[c].at \notin Keeping
  BY <1>1, <1>2 DEF Shape, ReleaseSteps, Delivering
<1> QED
  <2>1. activation' \in BOOLEAN /\ (activation' => Owes(c)' \/ (activation /\ ~Owes(c)))
    <3>1. CASE activation' = FALSE
      BY <3>1
    <3>2. CASE activation' = activation /\ ~Owes(c)
      BY <3>2, FilesTyped
    <3> QED
      BY <3>1, <3>2
  <2>2. staged' \in [edges : Sources \cup {Nil}, graph : Images \cup {Nil}] /\ kernel' \in Kernels \cup {Nil}
        /\ app' \in Apps \cup {Nil}
    BY FilesTyped
  <2> QED
    BY <1>1, <1>3, <1>5, <1>6, <1>7, <1>8, <1>9, <2>1, <2>2, QuietStep

LEMMA DiffCandidateKeeps == ASSUME FreehandInv, NEW c \in Cmds, DiffCandidate(c) PROVE FreehandInv'
<1> DEFINE v == cmd[c].version
           r == [cmd[c] EXCEPT !.at = "prune", !.kernel = tree.source]
<1>0. /\ cmd[c].at = "candidate"
      /\ UNCHANGED <<tree, activation, staged, kernel, app, base, side, lane, hosted, ipa, artifacts, marks>>
  BY DEF DiffCandidate, At, records, shared
<1>1. /\ Shape(c, cmd[c]) /\ Recorded(c) /\ Active(c) /\ cmd[c] \in Command /\ c \in Patches /\ c \notin Releases
      /\ v \in Versions /\ base[v] # Nil /\ ~Owes(c)
  <2>1. Shape(c, cmd[c]) /\ Recorded(c) /\ Active(c) /\ cmd[c] \in Command /\ v \in Versions
    BY <1>0, Facts DEF Active, Ended
  <2>2. c \in Patches /\ c \notin Releases
    BY <1>0, <2>1, Sides DEF Shape, PatchSteps
  <2> QED
    BY <1>0, <2>1, <2>2 DEF Recorded, Owes
<1>a. CASE tree.source = base[v].kernel /\ Stop(c, "noop")
  <2>1. ASSUME {"overlap", "undone", "late", "during"} \cap marks = {} PROVE cmd[c].inputs.source = base[v].dill
    <3>1. InTurn /\ Patching(c)
      BY <1>1, <2>1, Facts DEF Doing
    <3>2. tree = cmd[c].inputs
      BY <1>1, <2>1, <3>1 DEF Patching
    <3>3. base[v].kernel = base[v].dill
      BY <1>1, <2>1, <3>1 DEF InTurn, OfOneBuild, Whole
    <3> QED
      BY <1>a, <3>2, <3>3
  <2> QED
    BY <1>0, <1>1, <1>a, <2>1, NoopKeeps
<1>b. CASE Set(c, r)
  <2>0. tree.source \in Sources /\ "prune" \in Steps
    BY FilesTyped DEF Trees, Steps
  <2>1. /\ r \in Command /\ r.at = "prune" /\ r.kernel = tree.source /\ tree.source \in Sources
        /\ r.inputs = cmd[c].inputs /\ r.version = v /\ r.obfuscate = cmd[c].obfuscate
    <3>1. r \in Command
      BY <1>1, <2>0 DEF Command
    <3>2. /\ r.at = "prune" /\ r.kernel = tree.source
          /\ r.inputs = cmd[c].inputs /\ r.version = v /\ r.obfuscate = cmd[c].obfuscate
      BY <1>1 DEF Command
    <3> QED
      BY <2>0, <3>1, <3>2
  <2> HIDE DEF r
  <2>2. cmd' \in [Cmds -> Command] /\ cmd'[c] = r /\ \A o \in Cmds \ {c} : cmd'[o] = cmd[o]
    BY <1>b, <2>1, Sets
  <2>3. Shape(c, r)
    BY <1>0, <1>1, <2>1 DEF Shape, ReleaseSteps, PatchSteps, Delivering, Ended
  <2>4. Recorded(c)'
    BY <1>0, <1>1, <2>1, <2>2 DEF Recorded, Delivering, Active, At
  <2>5. ASSUME "overlap" \notin marks PROVE Doing(c)'
    <3>1. "during" \notin marks => tree = cmd[c].inputs
      BY <1>1, <2>5, Facts DEF Doing, Patching
    <3>2. Patching(c)'
      BY <1>0, <2>1, <2>2, <3>1 DEF Patching, Steady, Ended
    <3> QED
      BY <1>1, <2>1, <2>2, <3>2 DEF Doing
  <2>6. ~Owes(c)' /\ (activation' => activation)
    BY <1>0, <1>1, <2>1, <2>2 DEF Owes
  <2> QED
    BY <1>0, <1>1, <2>1, <2>2, <2>3, <2>4, <2>5, <2>6, QuietStep, FilesTyped
<1> QED
  BY <1>a, <1>b DEF DiffCandidate

(* A step that only a patch takes.                                         *)
LEMMA OfPatch ==
    ASSUME FreehandInv, NEW c \in Cmds,
           cmd[c].at \in {"prune", "again", "icons", "fold", "generate", "store"}
    PROVE  Active(c) /\ c \in Patches /\ c \notin Releases /\ ~Owes(c)
<1>1. Active(c) /\ c \in Patches /\ c \notin Releases
  BY Facts, Sides DEF Active, Ended, Shape, PatchSteps
<1> QED
  BY <1>1 DEF Owes

LEMMA StartCandidateBuildKeeps == ASSUME FreehandInv, NEW c \in Cmds, StartCandidateBuild(c) PROVE FreehandInv'
<1>0. /\ cmd[c].at = "prune"
      /\ UNCHANGED <<tree, kernel, app, base, side, lane, hosted, ipa, artifacts, marks>>
  BY DEF StartCandidateBuild, At, records
<1>1. Active(c) /\ c \in Patches /\ c \notin Releases /\ ~Owes(c) /\ cmd[c] \in Command
  BY <1>0, OfPatch, Facts
<1>2. PICK fingerprints \in BOOLEAN :
          IF fingerprints \/ side[cmd[c].version].fonts # Nil
          THEN /\ Set(c, [cmd[c] EXCEPT !.at = "compile", !.prunes = fingerprints])
               /\ activation' = TRUE
               /\ staged' = [staged EXCEPT !.edges = Nil]
          ELSE Go(c, "fold") /\ UNCHANGED <<activation, staged>>
  BY DEF StartCandidateBuild
<1>a. CASE fingerprints \/ side[cmd[c].version].fonts # Nil
  <2> DEFINE r == [cmd[c] EXCEPT !.at = "compile", !.prunes = fingerprints]
  <2>1. r \in Command /\ r.at = "compile"
    <3>1. "compile" \in Steps /\ fingerprints \in BOOLEAN
      BY <1>2 DEF Steps
    <3>2. r.at = "compile"
      BY <1>1 DEF Command
    <3>3. CASE fingerprints = TRUE
      BY ZenonT(30), <1>1, <3>1, <3>3 DEF Command
    <3>4. CASE fingerprints = FALSE
      BY ZenonT(30), <1>1, <3>1, <3>4 DEF Command
    <3> QED
      BY <3>1, <3>2, <3>3, <3>4
  <2>2. /\ r.inputs = cmd[c].inputs /\ r.version = cmd[c].version /\ r.obfuscate = cmd[c].obfuscate
        /\ r.profile = cmd[c].profile /\ r.dill = cmd[c].dill /\ r.kernel = cmd[c].kernel
        /\ r.edges = cmd[c].edges /\ r.image = cmd[c].image /\ r.core = cmd[c].core
      /\ r.icons = cmd[c].icons /\ r.signed = cmd[c].signed
    BY <1>1 DEF Command
  <2>3. Set(c, r) /\ activation' = TRUE /\ staged' = [staged EXCEPT !.edges = Nil]
    BY <1>2, <1>a
  <2> HIDE DEF r
  <2>4. cmd' \in [Cmds -> Command] /\ cmd'[c] = r /\ \A o \in Cmds \ {c} : cmd'[o] = cmd[o]
    BY <2>1, <2>3, Sets
  <2>5. Keeps(c) /\ Owes(c)' /\ staged' \in [edges : Sources \cup {Nil}, graph : Images \cup {Nil}]
    BY <1>1, <2>1, <2>2, <2>3, <2>4, FilesTyped DEF Keeps, Owes
  <2> QED
    BY <1>0, <1>1, <2>1, <2>3, <2>4, <2>5, PatchStep
<1>b. CASE ~(fingerprints \/ side[cmd[c].version].fonts # Nil)
  <2>1. Go(c, "fold") /\ UNCHANGED <<activation, staged>>
    BY <1>2, <1>b
  <2>2. cmd' \in [Cmds -> Command] /\ cmd'[c].at = "fold" /\ Keeps(c) /\ \A o \in Cmds \ {c} : cmd'[o] = cmd[o]
    BY <2>1, Goes DEF Steps
  <2>3. {"overlap", "cut"} \cap marks # {}
    BY <1>1, <1>b, FontsThere
  <2> QED
    BY <1>0, <1>1, <2>1, <2>2, <2>3, PatchStep, FilesTyped
<1> QED
  BY <1>a, <1>b

LEMMA PruneKeeps == ASSUME FreehandInv, NEW c \in Cmds, Prune(c) PROVE FreehandInv'
<1>0. /\ cmd[c].at = "collect" /\ c \in Patches /\ activation' = FALSE
      /\ UNCHANGED <<tree, staged, kernel, app, base, side, lane, hosted, ipa, artifacts, marks>>
  BY DEF Prune, At, records
<1>1. Active(c) /\ c \notin Releases
  BY <1>0, Sides DEF Active, Ended
<1>a. CASE cmd[c].image.source = base[cmd[c].version].dill /\ Stop(c, "noop")
  <2>1. ASSUME {"overlap", "undone", "late", "during"} \cap marks = {}
        PROVE  cmd[c].inputs.source = base[cmd[c].version].dill
    <3>1. Patching(c)
      BY <1>0, <2>1, Facts DEF Doing
    <3>2. Steady(c)
      BY <1>1, <2>1, <3>1 DEF Patching, Steady
    <3> QED
      BY <1>0, <1>a, <3>1, <3>2 DEF Patching
  <2> QED
    BY <1>0, <1>1, <1>a, <2>1, NoopKeeps
<1>b. CASE Go(c, "icons")
  <2>1. cmd' \in [Cmds -> Command] /\ cmd'[c].at = "icons" /\ Keeps(c) /\ \A o \in Cmds \ {c} : cmd'[o] = cmd[o]
    BY <1>b, Goes DEF Steps
  <2> QED
    BY <1>0, <1>1, <2>1, PatchStep, FilesTyped
<1> QED
  BY <1>a, <1>b DEF Prune

LEMMA CandidateBuildFailsKeeps == ASSUME FreehandInv, NEW c \in Cmds, CandidateBuildFails(c) PROVE FreehandInv'
<1> DEFINE v == cmd[c].version
           step == IF ~cmd[c].prunes THEN "failed" ELSE IF side[v].fonts # Nil THEN "again" ELSE "fold"
           r == [cmd[c] EXCEPT !.prunes = FALSE, !.at = step]
<1>0. /\ cmd[c].at \in {"compile", "snapshot"} /\ c \in Patches /\ activation' = FALSE /\ Set(c, r)
      /\ UNCHANGED <<tree, staged, kernel, app, base, side, lane, hosted, ipa, artifacts, marks>>
  BY DEF CandidateBuildFails, At, records
<1>1. Active(c) /\ c \notin Releases /\ cmd[c] \in Command /\ Shape(c, cmd[c])
  BY <1>0, Sides, Facts DEF Active, Ended
<1>2. step \in {"failed", "again", "fold"} /\ (step = "fold" => side[v].fonts = Nil)
  OBVIOUS
<1> HIDE DEF step
<1>3. r \in Command /\ r.at = step
  <2>1. step \in Steps
    BY <1>2 DEF Steps, Ended
  <2> QED
    BY ZenonT(30), <1>1, <2>1 DEF Command
<1>4. /\ r.inputs = cmd[c].inputs /\ r.version = cmd[c].version /\ r.obfuscate = cmd[c].obfuscate
      /\ r.profile = cmd[c].profile /\ r.dill = cmd[c].dill /\ r.kernel = cmd[c].kernel
      /\ r.edges = cmd[c].edges /\ r.image = cmd[c].image /\ r.core = cmd[c].core
      /\ r.icons = cmd[c].icons /\ r.signed = cmd[c].signed
  BY <1>1 DEF Command
<1> HIDE DEF r
<1>5. cmd' \in [Cmds -> Command] /\ cmd'[c] = r /\ \A o \in Cmds \ {c} : cmd'[o] = cmd[o]
  BY <1>0, <1>3, Sets
<1>a. CASE step = "failed"
  <2>1. Shape(c, cmd'[c])
    BY <1>0, <1>1, <1>3, <1>4, <1>5, <1>a DEF Shape, ReleaseSteps, PatchSteps, Delivering, Ended
  <2>2. Recorded(c)'
    BY <1>3, <1>5, <1>a DEF Recorded, Delivering, Active, At, Ended
  <2>3. Doing(c)'
    <3>1. Patching(c)'
      BY <1>3, <1>5, <1>a DEF Patching, Active, Ended
    <3> QED
      BY <1>1, <1>3, <1>5, <1>a, <3>1 DEF Doing
  <2> QED
    BY <1>0, <1>1, <1>3, <1>5, <1>a, <2>1, <2>2, <2>3, QuietStep, FilesTyped
<1>b. CASE step \in {"again", "fold"}
  <2>1. Keeps(c)
    BY <1>4, <1>5 DEF Keeps
  <2>2. step = "fold" => {"overlap", "cut"} \cap marks # {}
    BY <1>0, <1>1, <1>2, FontsThere
  <2> QED
    BY <1>0, <1>1, <1>3, <1>5, <1>b, <2>1, <2>2, PatchStep, FilesTyped
<1> QED
  BY <1>2, <1>a, <1>b

LEMMA BuildForIconsKeeps == ASSUME FreehandInv, NEW c \in Cmds, BuildForIcons(c) PROVE FreehandInv'
<1>0. /\ cmd[c].at = "again" /\ Go(c, "compile") /\ activation' = TRUE /\ staged' = [staged EXCEPT !.edges = Nil]
      /\ UNCHANGED <<tree, kernel, app, base, side, lane, hosted, ipa, artifacts, marks>>
  BY DEF BuildForIcons, At, records
<1>1. Active(c) /\ c \in Patches /\ c \notin Releases
  BY <1>0, OfPatch
<1>2. cmd' \in [Cmds -> Command] /\ cmd'[c].at = "compile" /\ Keeps(c) /\ \A o \in Cmds \ {c} : cmd'[o] = cmd[o]
  BY <1>0, Goes DEF Steps
<1>3. Owes(c)' /\ staged' \in [edges : Sources \cup {Nil}, graph : Images \cup {Nil}]
  BY <1>0, <1>1, <1>2, FilesTyped DEF Owes
<1> QED
  BY <1>0, <1>1, <1>2, <1>3, PatchStep

(* The app under build/ios is the candidate: its glyphs are those of the   *)
(* developer's tree.                                                       *)
LEMMA CheckIconsKeeps == ASSUME FreehandInv, NEW c \in Cmds, CheckIcons(c) PROVE FreehandInv'
<1> DEFINE fonts == side[cmd[c].version].fonts
<1>0. /\ cmd[c].at = "icons"
      /\ UNCHANGED <<tree, staged, kernel, app, base, side, lane, hosted, ipa, artifacts, marks>>
  BY DEF CheckIcons, At, records
<1>1. Active(c) /\ c \in Patches /\ c \notin Releases /\ ~Owes(c)
  BY <1>0, OfPatch
<1>a. CASE End(c, "failed")
  BY <1>0, <1>1, <1>a, EndKeeps DEF End
<1>b. CASE /\ ~(app.image.source \in NewIcons /\ fonts \notin {Nil} \cup [of : NewIcons, whole : BOOLEAN])
           /\ Go(c, "fold") /\ UNCHANGED activation
  <2>1. cmd' \in [Cmds -> Command] /\ cmd'[c].at = "fold" /\ Keeps(c) /\ \A o \in Cmds \ {c} : cmd'[o] = cmd[o]
    BY <1>b, Goes DEF Steps
  <2>2. ASSUME {"overlap", "cut"} \cap marks = {}, Steady(c), cmd[c].inputs.source \in NewIcons
        PROVE  fonts.of \in NewIcons
    <3>1. app.image.source = cmd[c].inputs.source
      BY <1>0, <1>1, <2>2, Facts DEF Doing, Patching
    <3>2. fonts # Nil
      BY <1>1, <2>2, FontsThere
    <3> QED
      BY <1>b, <2>2, <3>1, <3>2
  <2> QED
    BY <1>0, <1>1, <1>b, <2>1, <2>2, PatchStep, FilesTyped
<1> QED
  BY <1>a, <1>b DEF CheckIcons, KeptFonts

LEMMA CheckFoldsKeeps == ASSUME FreehandInv, NEW c \in Cmds, CheckFolds(c) PROVE FreehandInv'
<1>0. /\ cmd[c].at = "fold"
      /\ UNCHANGED <<tree, staged, kernel, app, base, side, lane, hosted, ipa, artifacts, marks>>
  BY DEF CheckFolds, At, records
<1>1. Active(c) /\ c \in Patches /\ c \notin Releases /\ ~Owes(c)
  BY <1>0, OfPatch
<1>a. CASE End(c, "failed")
  BY <1>0, <1>1, <1>a, EndKeeps DEF End
<1>b. CASE side[cmd[c].version].graph # Nil /\ Go(c, "generate") /\ UNCHANGED activation
  <2>1. cmd' \in [Cmds -> Command] /\ cmd'[c].at = "generate" /\ Keeps(c) /\ \A o \in Cmds \ {c} : cmd'[o] = cmd[o]
    BY <1>b, Goes DEF Steps
  <2>2. {"overlap", "cut"} \cap marks = {} /\ Steady(c) /\ cmd[c].inputs.source \in NewIcons =>
            side[cmd[c].version].fonts.of \in NewIcons
    BY <1>0, <1>1, Facts DEF Doing, Patching
  <2> QED
    BY <1>0, <1>1, <1>b, <2>1, <2>2, PatchStep, FilesTyped
<1> QED
  BY <1>a, <1>b DEF CheckFolds

LEMMA GenerateKeeps == ASSUME FreehandInv, NEW c \in Cmds, Generate(c) PROVE FreehandInv'
<1>0. /\ cmd[c].at = "generate"
      /\ UNCHANGED <<tree, activation, staged, kernel, app, base, side, lane, hosted, ipa, artifacts, marks>>
  BY DEF Generate, At, records, shared
<1>1. Active(c) /\ c \in Patches /\ c \notin Releases /\ ~Owes(c)
  BY <1>0, OfPatch
<1>a. CASE Stop(c, "failed")
  BY <1>0, <1>1, <1>a, EndKeeps
<1>b. CASE Go(c, "store")
  <2>1. cmd' \in [Cmds -> Command] /\ cmd'[c].at = "store" /\ Keeps(c) /\ \A o \in Cmds \ {c} : cmd'[o] = cmd[o]
    BY <1>b, Goes DEF Steps
  <2>2. {"overlap", "cut"} \cap marks = {} /\ Steady(c) /\ cmd[c].inputs.source \in NewIcons =>
            side[cmd[c].version].fonts.of \in NewIcons
    BY <1>0, <1>1, Facts DEF Doing, Patching
  <2>3. side[cmd[c].version].graph # Nil
    BY <1>0, Facts DEF Recorded
  <2> QED
    BY <1>0, <1>1, <1>b, <2>1, <2>2, <2>3, PatchStep, FilesTyped
<1> QED
  BY <1>a, <1>b DEF Generate

(* What is stored is what was checked, of the tree the command began with. *)
LEMMA StoreKeeps == ASSUME FreehandInv, NEW c \in Cmds, Store(c) PROVE FreehandInv'
<1> DEFINE v == cmd[c].version
           a == Artifact(c)
<1>0. /\ cmd[c].at = "store"
      /\ UNCHANGED <<tree, activation, staged, kernel, app, base, side, lane, hosted, ipa, marks, used>>
  BY DEF Store, At, records, shared
<1>1. /\ Active(c) /\ c \in Patches /\ c \notin Releases /\ ~Owes(c) /\ Shape(c, cmd[c]) /\ Recorded(c)
      /\ cmd[c] \in Command /\ v \in Versions
  BY <1>0, OfPatch, Facts
<1>a. CASE Stop(c, "failed") /\ UNCHANGED artifacts
  BY <1>0, <1>1, <1>a, EndKeeps
<1>b. CASE tree = cmd[c].inputs /\ artifacts' = artifacts \cup {a} /\ Stop(c, "done")
  <2>1. /\ a.version = v /\ a.from = base[v].kernel /\ a.to = cmd[c].kernel /\ a.inputs = cmd[c].inputs.source
        /\ a \in Artifacts
    <3>1. base[v] \in Baselines /\ side[v].graph \in Images
      <4>1. base[v] \in Baselines \cup {Nil} /\ side[v].graph \in Images \cup {Nil}
        BY <1>1 DEF FreehandInv, Typed, TypeOK
      <4>2. base[v] # Nil /\ side[v].graph # Nil
        BY <1>0, <1>1 DEF Recorded
      <4> QED
        BY <4>1, <4>2
    <3>2. cmd[c].kernel \in Sources /\ cmd[c].inputs.source \in Sources
      BY <1>0, <1>1 DEF Shape, Ended, Trees
    <3>3. base[v].kernel \in Sources
      BY <3>1 DEF Baselines
    <3> QED
      BY <1>1, <3>1, <3>2, <3>3 DEF Artifact, Artifacts
  <2> HIDE DEF a
  <2>2. base[v] # Nil
    BY <1>1 DEF Recorded
  <2>3. /\ cmd' \in [Cmds -> Command] /\ \A o \in Cmds \ {c} : cmd'[o] = cmd[o]
        /\ Shape(c, cmd'[c]) /\ Recorded(c)' /\ Doing(c)' /\ cmd'[c].at = "done"
    BY <1>b, Stops
  <2>4. Grows /\ AllCovered'
    BY <1>0, <2>3, StaysCovered DEF Grows, Shipping
  <2>5. Records'
    <3>1. \A b \in artifacts' : base[b.version] # Nil /\ b.from = base[b.version].kernel
      BY <1>b, <2>1, <2>2 DEF FreehandInv, Records
    <3> QED
      BY <1>0, <3>1 DEF FreehandInv, Records
  <2>6. Typed'
    <3>1. artifacts' \subseteq Artifacts
      BY <1>b, <2>1 DEF FreehandInv, Typed, TypeOK
    <3> QED
      BY <1>0, <2>3, <3>1 DEF FreehandInv, Typed, TypeOK, Command
  <2>7. ASSUME "overlap" \notin marks PROVE OfOneBuild' /\ OfTheTree' /\ FontsKept'
    <3>1. InTurn /\ Patching(c)
      BY <1>1, <2>7, Facts DEF Doing
    <3>2. OfOneBuild'
      BY <1>0, <3>1 DEF InTurn, OfOneBuild
    <3>3. OfTheTree'
      <4> SUFFICES ASSUME "undone" \notin marks, NEW b \in artifacts'
                   PROVE  /\ b.to = b.inputs
                          /\ "cut" \notin marks /\ b.to \in NewIcons => base[b.version].dill \in NewIcons
        BY <1>0 DEF OfTheTree
      <4>1. CASE b \in artifacts
        BY <3>1, <4>1 DEF InTurn, OfTheTree
      <4>2. CASE b = a
        <5>1. Steady(c)
          BY <1>b DEF Steady
        <5>2. cmd[c].kernel = cmd[c].inputs.source
          BY <1>0, <3>1, <5>1 DEF Patching, Ended
        <5>3. ASSUME "cut" \notin marks, cmd[c].kernel \in NewIcons PROVE base[v].dill \in NewIcons
          <6>1. side[v].fonts.of \in NewIcons
            BY <1>0, <3>1, <5>1, <5>2, <5>3 DEF Patching
          <6>2. side[v].fonts # Nil
            BY <1>1, <2>7, <5>3, FontsThere
          <6>3. side[v].fonts.of = base[v].dill
            BY <1>1, <2>2, <3>1, <6>2 DEF InTurn, OfOneBuild
          <6> QED
            BY <6>1, <6>3
        <5> QED
          BY <2>1, <4>2, <5>2, <5>3
      <4> QED
        BY <1>b, <4>1, <4>2
    <3>4. FontsKept'
      <4>1. \A d \in Releases : cmd'[d] = cmd[d]
        BY <1>1, <2>3, Sides
      <4> QED
        BY <1>0, <3>1, <4>1 DEF InTurn, FontsKept
    <3> QED
      BY <3>2, <3>3, <3>4
  <2> QED
    BY <1>0, <1>1, <2>3, <2>4, <2>5, <2>6, <2>7, Facts, StepKeeps
<1> QED
  BY <1>a, <1>b DEF Store

-----------------------------------------------------------------------------
(* Commands begin and are killed, and the developer edits. *)

(* Another command that runs is marked, and so is one that is killed.      *)
LEMMA Begins ==
    ASSUME FreehandInv, NEW c \in Cmds, cmd[c].at = "idle", NEW more, marks' = Overlap(c) \cup more, "overlap" \notin marks'
    PROVE  InTurn /\ "overlap" \notin marks /\ \A o \in Cmds \ {c} : ~Active(o)
<1>1. "overlap" \notin marks /\ \A o \in Cmds \ {c} : ~Active(o)
  BY DEF Overlap
<1> QED
  BY <1>1, Facts

(* A command that was idle starts with r.                                  *)
LEMMA FirstStep ==
    ASSUME FreehandInv, NEW c \in Cmds, cmd[c].at = "idle", NEW r \in Command, Set(c, r), Shape(c, r), Recorded(c)',
           r.at \in {"compile", "candidate"}, NEW more, marks' = Overlap(c) \cup more, more \subseteq {"profile"},
           UNCHANGED <<tree, app, base, side, lane, hosted, ipa, artifacts>>,
           activation' \in BOOLEAN, staged' \in [edges : Sources \cup {Nil}, graph : Images \cup {Nil}],
           kernel' \in Kernels \cup {Nil},
           activation' => Owes(c)' \/ activation,
           "overlap" \notin marks' => Doing(c)'
    PROVE  FreehandInv'
<1>1. cmd' \in [Cmds -> Command] /\ cmd'[c] = r /\ \A o \in Cmds \ {c} : cmd'[o] = cmd[o]
  BY Sets
<1>2. ~Owes(c)
  BY Sides DEF Owes, Active, Ended
<1>3. marks \subseteq marks' /\ ("overlap" \notin marks' => \A m \in marks' : m \in marks \/ m = "profile")
  BY DEF Overlap
<1>4. Typed'
  BY <1>1 DEF FreehandInv, Typed, TypeOK, Command
<1>5. Records' /\ Grows /\ AllCovered'
  <2>1. AllCovered'
    BY <1>1, <1>3, StaysCovered DEF Shipping
  <2> QED
    BY <2>1 DEF FreehandInv, Records, Grows
<1>6. ASSUME "overlap" \notin marks' PROVE OfOneBuild' /\ OfTheTree' /\ FontsKept' /\ \A o \in Cmds \ {c} : ~Active(o)
  <2>1. InTurn /\ \A o \in Cmds \ {c} : ~Active(o)
    BY <1>6, Begins
  <2>2. OfOneBuild' /\ OfTheTree'
    BY <1>3, <2>1 DEF InTurn, OfOneBuild, OfTheTree
  <2>3. FontsKept'
    <3> SUFFICES ASSUME "cut" \notin marks', NEW v \in Versions, base[v] # Nil, side[v].fonts = Nil
                 PROVE  \E d \in Releases : cmd'[d].at \in Keeping /\ cmd'[d].version = v
      BY DEF FontsKept
    <3>1. PICK d \in Releases : cmd[d].at \in Keeping /\ cmd[d].version = v
      BY <1>3, <2>1 DEF InTurn, FontsKept
    <3>2. cmd'[d] = cmd[d]
      BY <1>1, <3>1, Sides
    <3> QED
      BY <3>1, <3>2
  <2> QED
    BY <2>1, <2>2, <2>3
<1>7. activation' => Owes(c)' \/ (activation /\ ~Owes(c))
  BY <1>2
<1> QED
  BY <1>1, <1>3, <1>4, <1>5, <1>6, <1>7, StepKeeps

LEMMA PlanKeeps == ASSUME FreehandInv, NEW c \in Cmds, Plan(c) PROVE FreehandInv'
<1> DEFINE r == [Fresh EXCEPT !.at = "candidate", !.inputs = tree, !.version = tree.version]
<1>0. /\ cmd[c].at = "idle" /\ c \in Patches /\ base[tree.version] # Nil /\ Set(c, r) /\ marks' = Overlap(c) \cup {}
      /\ UNCHANGED <<tree, activation, staged, kernel, app, base, side, lane, hosted, ipa, artifacts>>
  BY DEF Plan, At, records, shared
<1>1. c \notin Releases /\ tree \in Trees /\ tree.version \in Versions
  BY <1>0, Sides, FilesTyped DEF Trees
<1>2. r \in Command /\ r.at = "candidate" /\ r.inputs = tree /\ r.version = tree.version /\ r.obfuscate = FALSE
  BY <1>1, FreshTyped DEF Command, Fresh, Steps
<1> HIDE DEF r
<1>3. cmd'[c] = r
  BY <1>0, <1>2, Sets
<1>4. Shape(c, r)
  BY <1>0, <1>1, <1>2 DEF Shape, ReleaseSteps, PatchSteps, Delivering, Ended
<1>5. Recorded(c)'
  BY <1>0, <1>2, <1>3 DEF Recorded, Delivering, Active, At
<1>6. Doing(c)'
  <2>1. Patching(c)'
    BY <1>0, <1>2, <1>3 DEF Patching, Active, Ended
  <2> QED
    BY <1>1, <1>2, <1>3, <2>1 DEF Doing
<1> DEFINE more == {}
<1>7. marks' = Overlap(c) \cup more /\ more \subseteq {"profile"}
  BY <1>0
<1>8. activation' \in BOOLEAN /\ (activation' => Owes(c)' \/ activation)
      /\ staged' \in [edges : Sources \cup {Nil}, graph : Images \cup {Nil}] /\ kernel' \in Kernels \cup {Nil}
  BY <1>0, FilesTyped
<1> HIDE DEF more
<1> QED
  BY <1>0, <1>2, <1>4, <1>5, <1>6, <1>7, <1>8, FirstStep

(* What a release begins with.                                             *)
Begun(i, o, p) == [Fresh EXCEPT !.at = "compile", !.inputs = i, !.obfuscate = o, !.profile = p]

LEMMA BegunTyped ==
    ASSUME NEW i \in Trees, NEW o \in BOOLEAN, NEW p \in BOOLEAN
    PROVE  Begun(i, o, p) \in Command /\ Begun(i, o, p).at = "compile" /\ Begun(i, o, p).inputs = i
           /\ Begun(i, o, p).profile = p
<1>1. Fresh \in Command /\ "compile" \in Steps
  BY FreshTyped DEF Steps
<1>2. CASE o = TRUE /\ p = TRUE
  BY ZenonT(30), <1>1, <1>2 DEF Begun, Command
<1>3. CASE o = TRUE /\ p = FALSE
  BY ZenonT(30), <1>1, <1>3 DEF Begun, Command
<1>4. CASE o = FALSE /\ p = TRUE
  BY ZenonT(30), <1>1, <1>4 DEF Begun, Command
<1>5. CASE o = FALSE /\ p = FALSE
  BY ZenonT(30), <1>1, <1>5 DEF Begun, Command
<1> QED
  BY <1>2, <1>3, <1>4, <1>5

LEMMA PrepareKeeps == ASSUME FreehandInv, NEW c \in Cmds, Prepare(c) PROVE FreehandInv'
<1>0. /\ cmd[c].at = "idle" /\ c \in Releases /\ activation' = TRUE /\ kernel' = Nil
      /\ UNCHANGED <<tree, app, base, side, lane, hosted, ipa, artifacts>>
  BY DEF Prepare, At, records
<1>1. c \notin Patches /\ tree \in Trees
  BY <1>0, Sides, FilesTyped
<1>2. PICK obfuscate \in BOOLEAN, profile \in BOOLEAN :
        /\ Set(c, Begun(tree, obfuscate, profile))
        /\ staged' = [edges |-> Nil, graph |-> IF profile THEN staged.graph ELSE Nil]
        /\ marks' = Overlap(c) \cup {m \in {"profile"} : profile /\ staged.graph # Nil}
  BY DEF Prepare, Begun
<1> DEFINE r == Begun(tree, obfuscate, profile)
           more == {m \in {"profile"} : profile /\ staged.graph # Nil}
<1>3. r \in Command /\ r.at = "compile" /\ r.inputs = tree /\ r.profile = profile
  BY <1>1, <1>2, BegunTyped
<1>4. Set(c, r) /\ marks' = Overlap(c) \cup more /\ more \subseteq {"profile"}
  BY <1>2
<1>5. profile /\ "profile" \notin marks' => staged'.graph = Nil
  BY <1>2
<1>6. staged'.edges = Nil /\ staged' \in [edges : Sources \cup {Nil}, graph : Images \cup {Nil}]
  BY <1>2, FilesTyped
<1> HIDE DEF r, more
<1>7. cmd'[c] = r
  BY <1>3, <1>4, Sets
<1>8. Shape(c, r)
  BY <1>0, <1>1, <1>3 DEF Shape, ReleaseSteps, PatchSteps, Delivering, Ended
<1>9. Recorded(c)'
  BY <1>1, <1>3, <1>7 DEF Recorded, Delivering, Active, At
<1>10. Owes(c)'
  BY <1>0, <1>3, <1>7 DEF Owes, Active, Ended
<1>11. Doing(c)'
  <2>1. Releasing(c)'
    BY <1>3, <1>5, <1>6, <1>7 DEF Releasing, ReleaseSteps, Delivering
  <2> QED
    BY <1>1, <1>3, <1>7, <2>1 DEF Doing
<1> QED
  BY <1>0, <1>3, <1>4, <1>6, <1>8, <1>9, <1>10, <1>11, FirstStep

(* A command is cut short by a kill or by an error of a step.              *)
LEMMA CutKeeps ==
    ASSUME FreehandInv, NEW c \in Cmds, Active(c), NEW how \in {"failed", "killed"}, Stop(c, how),
           NEW more, more \subseteq {"killed"}, marks' = (marks \cup more) \cup Cut(c),
           activation' = FALSE \/ (activation' = activation /\ "killed" \in marks'),
           UNCHANGED <<tree, staged, kernel, app, base, side, lane, hosted, ipa, artifacts>>
    PROVE  FreehandInv'
<1>1. /\ cmd' \in [Cmds -> Command] /\ (\A o \in Cmds \ {c} : cmd'[o] = cmd[o]) /\ cmd'[c].at = how
      /\ Shape(c, cmd'[c]) /\ Recorded(c)' /\ Doing(c)'
  BY Stops
<1>2. Typed'
  BY <1>1, FilesTyped DEF FreehandInv, Typed, TypeOK, Command
<1>3. Records' /\ Grows
  BY DEF FreehandInv, Records, Grows
<1>4. /\ marks \subseteq marks' /\ (cmd[c].at \in Keeping => "cut" \in marks')
      /\ \A m \in {"overlap", "late", "undone", "during", "profile"} : m \in marks' => m \in marks
  BY DEF Cut
<1>5. AllCovered'
  <2> SUFFICES ASSUME "bare" \notin marks', NEW v \in Versions, Shipping(v)' PROVE Covered(v)'
    BY DEF AllCovered
  <2>1. Shipping(v)
    BY <1>1, Sides DEF Shipping
  <2>2. Covered(v)
    BY <1>4, <2>1 DEF FreehandInv, AllCovered
  <2>3. cmd[c].at = "copy" /\ cmd[c].version = v => side[v].fonts # Nil
    BY <2>1 DEF Cut, At
  <2> QED
    BY <1>1, <2>2, <2>3, Sides DEF Covered
<1>6. ASSUME "overlap" \notin marks' PROVE OfOneBuild' /\ OfTheTree' /\ FontsKept' /\ \A o \in Cmds \ {c} : ~Active(o)
  <2>1. InTurn /\ \A o \in Cmds \ {c} : ~Active(o)
    BY <1>4, <1>6, Facts
  <2>2. OfOneBuild' /\ OfTheTree'
    BY <1>4, <2>1 DEF InTurn, OfOneBuild, OfTheTree
  <2>3. FontsKept'
    <3> SUFFICES ASSUME "cut" \notin marks', NEW v \in Versions, base[v] # Nil, side[v].fonts = Nil
                 PROVE  \E d \in Releases : cmd'[d].at \in Keeping /\ cmd'[d].version = v
      BY DEF FontsKept
    <3>1. PICK d \in Releases : cmd[d].at \in Keeping /\ cmd[d].version = v
      BY <1>4, <2>1 DEF InTurn, FontsKept
    <3>2. d # c
      BY <1>4, <3>1
    <3> QED
      BY <1>1, <3>1, <3>2, Sides
  <2> QED
    BY <2>1, <2>2, <2>3
<1>7. "killed" \notin marks' /\ activation' => Owes(c)' \/ (activation /\ ~Owes(c))
  OBVIOUS
<1> QED
  BY <1>1, <1>2, <1>3, <1>4, <1>5, <1>6, <1>7, StepKeeps

LEMMA KillKeeps == ASSUME FreehandInv, NEW c \in Cmds, Kill(c) PROVE FreehandInv'
<1> DEFINE more == {"killed"}
<1>0. /\ Active(c) /\ Stop(c, "killed") /\ marks' = (marks \cup more) \cup Cut(c) /\ "killed" \in marks'
      /\ UNCHANGED <<tree, activation, staged, kernel, app, base, side, lane, hosted, ipa, artifacts>>
  BY DEF Kill, records, shared
<1>1. more \subseteq {"killed"}
  OBVIOUS
<1> HIDE DEF more
<1> QED
  BY <1>0, <1>1, CutKeeps

LEMMA ReleaseFailsKeeps == ASSUME FreehandInv, NEW c \in Cmds, ReleaseFails(c) PROVE FreehandInv'
<1> DEFINE more == {}
<1>0. /\ Active(c) /\ Stop(c, "failed") /\ marks' = (marks \cup more) \cup Cut(c) /\ activation' = FALSE
      /\ UNCHANGED <<tree, staged, kernel, app, base, side, lane, hosted, ipa, artifacts>>
  BY DEF ReleaseFails, End, records, Active, Ended
<1>1. more \subseteq {"killed"}
  OBVIOUS
<1> HIDE DEF more
<1> QED
  BY <1>0, <1>1, CutKeeps

(* The developer edits: what a command holds may no longer be of the tree. *)
LEMMA EditKeeps == ASSUME FreehandInv, Edit PROVE FreehandInv'
<1>0. UNCHANGED <<activation, staged, kernel, app, base, side, lane, hosted, ipa, artifacts, cmd>>
  BY DEF Edit, records, shared
<1>1. PICK t \in Trees :
        /\ tree' = t
        /\ marks' = marks
             \cup {m \in {"undone"} : \E c \in Cmds : Active(c) /\ cmd[c].inputs = t}
             \cup {m \in {"late"} : \E c \in Releases : At(c, "kernel")}
             \cup {m \in {"during"} : \E c \in Patches : Active(c)}
  BY DEF Edit, Trees
<1>2. /\ marks \subseteq marks' /\ \A m \in {"killed", "cut", "bare", "overlap", "profile"} : m \in marks' => m \in marks
      /\ \A c \in Cmds : Active(c) /\ cmd[c].inputs = tree' => "undone" \in marks'
      /\ \A c \in Releases : cmd[c].at = "kernel" => "late" \in marks'
      /\ \A c \in Patches : Active(c) => "during" \in marks'
  BY <1>1 DEF At
<1>3. Typed'
  BY <1>0, <1>1 DEF FreehandInv, Typed, TypeOK
<1>4. Shapes' /\ (\A c \in Cmds : Recorded(c)')
  BY <1>0 DEF FreehandInv, Shapes, Recorded, Active, At
<1>5. Records' /\ Owed' /\ AllCovered'
  BY <1>0, <1>2 DEF FreehandInv, Records, Owed, Owes, Active, AllCovered, Covered, Shipping
<1>6. ASSUME "overlap" \notin marks' PROVE InTurn'
  <2>1. InTurn
    BY <1>2, <1>6 DEF FreehandInv, NoOverlap
  <2>2. Alone' /\ OfOneBuild' /\ OfTheTree' /\ FontsKept'
    BY <1>0, <1>2, <2>1 DEF InTurn, Alone, Active, OfOneBuild, OfTheTree, FontsKept
  <2>3. ASSUME NEW c \in Cmds PROVE Doing(c)'
    <3>1. Doing(c) /\ (Active(c) => ~Steady(c)')
      BY <1>0, <1>2, <2>1 DEF InTurn, Steady
    <3>2. ASSUME c \in Releases PROVE Releasing(c)'
      BY <1>0, <1>2, <3>1, <3>2 DEF Doing, Releasing
    <3>3. ASSUME c \in Patches PROVE Patching(c)'
      BY <1>0, <1>2, <3>1, <3>3 DEF Doing, Patching, Active, Ended
    <3> QED
      BY <1>0, <3>1, <3>2, <3>3 DEF Doing, Active, Ended
  <2> QED
    BY <2>2, <2>3 DEF InTurn
<1> QED
  BY <1>3, <1>4, <1>5, <1>6 DEF FreehandInv, NoOverlap

-----------------------------------------------------------------------------
(* The invariant. *)

LEMMA InitHolds == ASSUME Init PROVE FreehandInv
<1>1. /\ tree \in Trees /\ activation = FALSE /\ kernel = Nil /\ app = Nil /\ hosted = {} /\ artifacts = {} /\ marks = {}
      /\ staged \in [edges : Sources \cup {Nil}, graph : Images \cup {Nil}]
      /\ \A v \in Versions : base[v] = Nil /\ side[v].graph = Nil /\ side[v].fonts = Nil /\ lane[v] = Nil /\ ipa[v] = Nil
  BY FirstOnes DEF Init, Trees
<1>2. \A c \in Cmds : cmd[c] = Fresh /\ cmd[c].at = "idle" /\ ~Active(c) /\ cmd[c].obfuscate = FALSE
  BY DEF Init, Fresh, Active, Ended
<1>3. cmd \in [Cmds -> Command] /\ \A c \in Cmds : cmd[c] \in Command
  BY FreshTyped DEF Init
<1>4. Typed
  <2>1. /\ base \in [Versions -> Baselines \cup {Nil}]
        /\ side \in [Versions -> [graph : Images \cup {Nil}, fonts : Fonts \cup {Nil}]]
        /\ lane \in [Versions -> LaneRecords \cup {Nil}] /\ ipa \in [Versions -> Apps \cup {Nil}]
    BY DEF Init
  <2>2. \A c \in Cmds : cmd[c].at \in Steps /\ cmd[c].version \in Versions
    BY <1>3 DEF Command
  <2> QED
    BY <1>1, <1>3, <2>1, <2>2 DEF Typed, TypeOK
<1>5. Shapes /\ \A c \in Cmds : Recorded(c)
  BY <1>2 DEF Shapes, Shape, Recorded, ReleaseSteps, PatchSteps, Delivering, Ended, At
<1>6. Records /\ Owed
  BY <1>1 DEF Records, Owed
<1>c. AllCovered
  BY <1>1, <1>2, Sides DEF AllCovered, Shipping
<1>7. InTurn
  <2>1. Alone /\ OfOneBuild /\ OfTheTree /\ FontsKept
    BY <1>1, <1>2 DEF Alone, OfOneBuild, OfTheTree, FontsKept
  <2>2. ASSUME NEW c \in Cmds PROVE Doing(c)
    <3>1. Releasing(c)
      BY <1>2 DEF Releasing, ReleaseSteps, Delivering
    <3>2. Patching(c)
      BY <1>2 DEF Patching, Ended
    <3> QED
      BY <1>2, <3>1, <3>2 DEF Doing
  <2> QED
    BY <2>1, <2>2 DEF InTurn
<1> QED
  BY <1>4, <1>5, <1>6, <1>c, <1>7 DEF FreehandInv, NoOverlap

LEMMA StutterKeeps == ASSUME FreehandInv, UNCHANGED vars PROVE FreehandInv'
<1>0. UNCHANGED <<tree, activation, staged, kernel, app, base, side, lane, hosted, ipa, artifacts, cmd, marks>>
  BY DEF vars
<1>1. Typed'
  BY <1>0 DEF FreehandInv, Typed, TypeOK
<1>2. Shapes' /\ \A c \in Cmds : Recorded(c)'
  BY <1>0 DEF FreehandInv, Shapes, Recorded, Active, At
<1>3. Records' /\ Owed' /\ AllCovered'
  BY <1>0 DEF FreehandInv, Records, Owed, Owes, Active, AllCovered, Covered, Shipping
<1>4. ASSUME InTurn PROVE InTurn'
  <2>1. Alone' /\ OfOneBuild' /\ OfTheTree' /\ FontsKept'
    BY <1>0, <1>4 DEF InTurn, Alone, Active, OfOneBuild, OfTheTree, FontsKept
  <2>2. ASSUME NEW c \in Cmds PROVE Doing(c)'
    <3>1. Doing(c) /\ (Steady(c)' <=> Steady(c))
      BY <1>0, <1>4 DEF InTurn, Steady
    <3>2. ASSUME c \in Releases PROVE Releasing(c)'
      BY <1>0, <3>1, <3>2 DEF Doing, Releasing
    <3>3. ASSUME c \in Patches PROVE Patching(c)'
      BY <1>0, <3>1, <3>3 DEF Doing, Patching, Active
    <3> QED
      BY <1>0, <3>1, <3>2, <3>3 DEF Doing
  <2> QED
    BY <2>1, <2>2 DEF InTurn
<1> QED
  BY <1>0, <1>1, <1>2, <1>3, <1>4 DEF FreehandInv, NoOverlap

LEMMA NextKeeps == ASSUME FreehandInv, [Next]_vars PROVE FreehandInv'
<1>1. CASE Edit
  BY <1>1, EditKeeps
<1>2. ASSUME NEW c \in Cmds, Kill(c) \/ Compile(c) \/ Snapshot(c) PROVE FreehandInv'
  BY <1>2, KillKeeps, CompileKeeps, SnapshotKeeps
<1>3. ASSUME NEW c \in Cmds, Release(c) PROVE FreehandInv'
  BY <1>3, PrepareKeeps, VerifyKeeps, SourceKernelKeeps, PersistKeeps, PublishKeeps, DeliverKeeps, AdoptKeeps,
     ReadFontsKeeps, ClearFontsKeeps, CopyFontsKeeps, SignKeeps, HostKeeps, PutIPAKeeps, BuildFailsKeeps,
     ReleaseFailsKeeps DEF Release
<1>4. ASSUME NEW c \in Cmds, Patch(c) PROVE FreehandInv'
  BY <1>4, PlanKeeps, DiffCandidateKeeps, StartCandidateBuildKeeps, PruneKeeps, CandidateBuildFailsKeeps,
     BuildForIconsKeeps, CheckIconsKeeps, CheckFoldsKeeps, GenerateKeeps, StoreKeeps DEF Patch
<1>5. CASE UNCHANGED vars
  BY <1>5, StutterKeeps
<1> QED
  BY <1>1, <1>2, <1>3, <1>4, <1>5 DEF Next

(* Whatever commands run side by side and whatever is killed or edited,    *)
(* what a command relies on is recorded (persistFreehandBaseline publishes *)
(* by a rename that never replaces); one at a time, the files of the build *)
(* are what the command at work takes them for.                            *)
THEOREM FreehandInvHolds == Spec => []FreehandInv
<1>1. Init => FreehandInv
  BY InitHolds
<1>2. FreehandInv /\ [Next]_vars => FreehandInv'
  BY NextKeeps
<1> QED
  BY <1>1, <1>2, PTL DEF Spec

-----------------------------------------------------------------------------
(* What it says. *)

(* Whatever failed or killed builds left staged, a baseline, its object    *)
(* graph and what is signed and hosted are of one build                    *)
(* (runReleaseIOSEngineBuildFreehand).                                     *)
THEOREM BuildsAreOne == Spec => []OneBuild
<1>1. ASSUME FreehandInv PROVE OneBuild
  <2>1. TypeOK
    BY <1>1 DEF FreehandInv, Typed
  <2>2. "overlap" \notin marks => OfOneBuild
    BY <1>1 DEF FreehandInv, NoOverlap, InTurn
  <2>3. WholeBase
    BY <2>2 DEF WholeBase, Quiet, OfOneBuild, Whole
  <2>4. GraphIsTheBases
    BY <2>2 DEF GraphIsTheBases, Quiet, OfOneBuild
  <2>5. ShippedIsTheBase
    <3> SUFFICES ASSUME "overlap" \notin marks, NEW v \in Versions, ipa[v] # Nil
                 PROVE  /\ ipa[v].image = [source |-> base[v].dill, names |-> base[v].names]
                        /\ ipa[v].identity = v
                        /\ lane[v].dill = base[v].dill
      BY DEF ShippedIsTheBase, Quiet
    <3>1. base[v] # Nil
      BY <1>1 DEF FreehandInv, Records
    <3>2. ipa[v] = [image |-> [source |-> base[v].dill, names |-> base[v].names], identity |-> v] /\ lane[v] # Nil
          /\ lane[v].dill = base[v].dill
      <4>1. v \in Versions
        OBVIOUS
      <4> QED
        BY <2>2, <3>1, <4>1 DEF OfOneBuild
    <3> QED
      BY <3>2
  <2> QED
    BY <2>1, <2>3, <2>4, <2>5 DEF OneBuild
<1> QED
  BY <1>1, FreehandInvHolds, PTL

(* A stored patch leads from what users of its version run to the tree its *)
(* author had, draws no glyph they lack, and is not left out because       *)
(* nothing changed when something did (computeFreehandPatchPlan,           *)
(* assertFreehandIconGlyphs, generateAndPersistFreehandModule).            *)
THEOREM PatchesDoFit == Spec => []PatchesFit
<1>1. ASSUME FreehandInv PROVE PatchesFit
  <2>1. FontsBeforeHosting
    BY <1>1 DEF FreehandInv, Typed, AllCovered, Covered, Shipping, FontsBeforeHosting, Quiet, At
  <2>2. "overlap" \notin marks => InTurn
    BY <1>1 DEF FreehandInv, NoOverlap
  <2>3. ASSUME NEW a \in artifacts
        PROVE  /\ a.version \in Versions /\ base[a.version] # Nil /\ a.from = base[a.version].kernel
               /\ "overlap" \notin marks /\ ipa[a.version] # Nil => ipa[a.version].image.source = base[a.version].dill
    <3>1. a.version \in Versions /\ base[a.version] # Nil /\ a.from = base[a.version].kernel
      BY <1>1, <2>3 DEF FreehandInv, Typed, TypeOK, Records, Artifacts
    <3>2. ASSUME "overlap" \notin marks, ipa[a.version] # Nil PROVE ipa[a.version].image.source = base[a.version].dill
      <4>1. ipa[a.version] = [image |-> [source |-> base[a.version].dill, names |-> base[a.version].names],
                              identity |-> a.version]
        BY <2>2, <3>1, <3>2 DEF InTurn, OfOneBuild
      <4> QED
        BY <4>1
    <3> QED
      BY <3>1, <3>2
  <2>4. PatchFromShipped
    <3> SUFFICES ASSUME {"overlap", "late", "undone"} \cap marks = {}, NEW a \in artifacts
                 PROVE  a.to = a.inputs /\ (ipa[a.version] # Nil => a.from = ipa[a.version].image.source)
      BY DEF PatchFromShipped, Quiet
    <3>1. a.to = a.inputs
      BY <2>2 DEF InTurn, OfTheTree
    <3>2. base[a.version].dill = base[a.version].kernel
      BY <2>2, <2>3 DEF InTurn, OfOneBuild, Whole
    <3> QED
      BY <2>3, <3>1, <3>2
  <2>5. IconsShip
    BY <2>2, <2>3 DEF IconsShip, Quiet, InTurn, OfTheTree
  <2>6. NoOpHonest
    <3> SUFFICES ASSUME {"overlap", "late", "undone", "during"} \cap marks = {}, NEW c \in Cmds, cmd[c].at = "noop"
                 PROVE  cmd[c].inputs.source = base[cmd[c].version].dill
      BY DEF NoOpHonest, Quiet, At
    <3>1. c \in Patches
      BY <1>1 DEF FreehandInv, Shapes, Shape, PatchSteps
    <3>2. Patching(c)
      BY <2>2, <3>1 DEF InTurn, Doing
    <3> QED
      BY <3>2 DEF Patching
  <2> QED
    BY <2>1, <2>4, <2>5, <2>6 DEF PatchesFit
<1> QED
  BY <1>1, FreehandInvHolds, PTL

(* However the commands end, short of a kill, the project is not left      *)
(* activated, so the next flutter build is plain (removeFreehandConfig).   *)
THEOREM ActivationIsEnded == Spec => []ActivationEnds
<1>1. ASSUME FreehandInv PROVE ActivationEnds
  BY <1>1 DEF FreehandInv, Owed, Owes, ActivationEnds, Active, Ended
<1> QED
  BY <1>1, FreehandInvHolds, PTL

LEMMA BaseMoves ==
    ASSUME FreehandInv, [Next]_vars
    PROVE  UNCHANGED base \/ \E c \in Cmds : Publish(c)
<1>1. CASE Edit
  BY <1>1 DEF Edit, records
<1>2. ASSUME NEW c \in Cmds, Kill(c) \/ Compile(c) \/ Snapshot(c) PROVE UNCHANGED base
  BY <1>2 DEF Kill, Compile, Snapshot, records
<1>3. ASSUME NEW c \in Cmds, Release(c), ~Publish(c) PROVE UNCHANGED base
  BY <1>3 DEF Release, Prepare, Verify, SourceKernel, Persist, Deliver, Adopt, ReadFonts, ClearFonts, CopyFonts, Sign,
              Host, PutIPA, BuildFails, ReleaseFails, records
<1>4. ASSUME NEW c \in Cmds, Patch(c) PROVE UNCHANGED base
  BY <1>4 DEF Patch, Plan, DiffCandidate, StartCandidateBuild, Prune, CandidateBuildFails, BuildForIcons, CheckIcons,
              CheckFolds, Generate, Store, records
<1>5. CASE UNCHANGED vars
  BY <1>5 DEF vars
<1> QED
  BY <1>1, <1>2, <1>3, <1>4, <1>5 DEF Next

(* .soroq/releases is a write-once store, whichever writers race for a     *)
(* version: the rename that publishes a baseline replaces none             *)
(* (persistFreehandBaselineWithDependencyMap).                             *)
THEOREM BaselinesBoundOnce == Spec => BoundOnce
<1>1. Init => Bound!Init
  BY DEF Init, Bound!Init
<1>2. ASSUME FreehandInv, [Next]_vars PROVE [Bound!Next]_base
  <2>1. CASE UNCHANGED base
    BY <2>1
  <2>2. ASSUME NEW c \in Cmds, Publish(c) PROVE [Bound!Next]_base
    <3> DEFINE v == cmd[c].version
               core == cmd[c].core
    <3>1. cmd[c].at = "publish"
      BY <2>2 DEF Publish, At
    <3>2. v \in Versions /\ core \in Baselines
      BY <1>2, <3>1, Facts DEF Shape
    <3>3. base \in [Versions -> Baselines \cup {Nil}]
      BY <1>2 DEF FreehandInv, Typed, TypeOK
    <3>4. UNCHANGED base \/ (base[v] \in {Nil, core} /\ base' = [base EXCEPT ![v] = core])
      BY <2>2 DEF Publish
    <3>5. CASE base[v] = core /\ base' = [base EXCEPT ![v] = core]
      <4>1. base' = base
        BY <3>2, <3>3, <3>5
      <4> QED
        BY <4>1
    <3>6. CASE base[v] = Nil /\ base' = [base EXCEPT ![v] = core]
      <4>1. Bound!Publish(v, core)
        BY <3>6 DEF Bound!Publish
      <4> QED
        BY <3>2, <4>1 DEF Bound!Next
    <3> QED
      BY <3>4, <3>5, <3>6
  <2> QED
    BY <1>2, <2>1, <2>2, BaseMoves
<1> QED
  BY <1>1, <1>2, FreehandInvHolds, PTL DEF Spec, BoundOnce, Bound!Spec

-----------------------------------------------------------------------------
(***************************************************************************)
(* The indexed lane.  IndexedHolds is an invariant of it, for any lists,   *)
(* source, engines, releases and files and any number of commands.  It is  *)
(* not inductive: that a patch fits an app rests on what every command     *)
(* holds on its way, which is IndexedInv.                                  *)
(***************************************************************************)

(* A baseline that some release wrote. *)
Known(rec, b) == \E r \in rec : r.base = b

(* What a command p holds, whatever the others do.                         *)
CmdOK(p, sc, d, rec) ==
    /\ p \in Commands
    /\ p.at # "idle" => p.engine \in LaneEngines /\ p.file \in OutFiles
    /\ p.at # "idle" /\ ~p.patch => p.id \in ReleaseIds /\ p.version \in AppVersions
    /\ p.at \in {"build", "identify", "write", "create"} => ~p.patch
    /\ p.at \notin {"idle", "resolve"} => p.entries \in Patchables /\ sc.manifest \in Patchables
    /\ p.at \notin {"idle", "resolve", "table"} => sc.table \in Patchables
    /\ p.at = "identify" => d \in Dills
    /\ p.at \in {"identify", "write", "create"} /\ p.app => p.built \in Dills
    /\ p.at \in {"write", "create"} => p.base \in LaneBaselines /\ p.base.id = p.id /\ p.base.engine = p.engine
    /\ p.at = "write" /\ IsBaseOf(p.met, p.base.id) => p.met = p.base /\ Known(rec, p.met)
    /\ p.at = "create" => Known(rec, p.base)
    /\ p.at \in {"compile", "publish"} =>
           Known(rec, p.base) /\ p.base \in LaneBaselines /\ p.base.engine = p.engine /\ p.base.dill = p.built

(* What it holds as long as nobody changed under it what it goes by.       *)
AloneOK(p, sc, d) == p.alone =>
    /\ p.at \in {"table", "check", "build", "identify", "guard", "verify", "compile"} => sc.manifest = p.entries
    /\ p.at \in {"check", "build", "identify"} => sc.table = p.entries
    /\ p.at = "identify" /\ p.built # Nothing => d = p.built /\ p.built.table = p.entries
    /\ p.at \in {"write", "create"} /\ p.built # Nothing => p.base.dill = p.built /\ p.built.table = p.base.manifest
    /\ p.at \in {"compile", "publish"} => p.entries = p.base.manifest

RecordedInv ==
    /\ \A r \in recorded : r.base \in LaneBaselines
    /\ \A q \in OutFiles : outFile[q] # Nothing => Known(recorded, outFile[q])
    /\ \A r, s \in recorded : r.base.id = s.base.id /\ r.base.id \notin strays => r.base = s.base

AppsInv == \A a \in apps : \E r \in recorded :
    /\ r.base.id = a.id /\ r.base.engine = a.engine
    /\ r.base.dill = a.dill /\ r.base.manifest = a.dill.table

PatchedInv == \A p \in patched :
    /\ Known(recorded, p.base)
    /\ p.id = p.base.id /\ p.engine = p.base.engine /\ p.dill = p.base.dill
    /\ p.alone => p.indexed = p.base.manifest

CommandsInv == \A c \in LaneCmds : CmdOK(laneCmd[c], scaffold, dill, recorded) /\ AloneOK(laneCmd[c], scaffold, dill)

EnsuredInv == ensured \subseteq ReleaseIds /\ NoPhantomRelease

IndexedInv == IndexedTypeOK /\ CommandsInv /\ RecordedInv /\ AppsInv /\ PatchedInv /\ EnsuredInv
-----------------------------------------------------------------------------
(* A record of Commands is determined by its fields. *)
LEMMA CommandFields ==
    ASSUME NEW p \in Commands, NEW b \in BOOLEAN
    PROVE  LET q == [p EXCEPT !.alone = b] IN
           /\ q \in Commands /\ q.alone = b
           /\ q.at = p.at /\ q.patch = p.patch /\ q.id = p.id /\ q.engine = p.engine
           /\ q.version = p.version /\ q.file = p.file /\ q.entries = p.entries
           /\ q.built = p.built /\ q.app = p.app /\ q.base = p.base /\ q.met = p.met
BY DEF Commands

(* What a bystander holds does not depend on what a step does, as long as  *)
(* files stay written and baselines recorded.                              *)
LEMMA BystanderOK ==
    ASSUME NEW p, NEW q, NEW sc, NEW sc2, NEW d, NEW d2, NEW rec, NEW rec2,
           CmdOK(p, sc, d, rec), q = p \/ q = [p EXCEPT !.alone = FALSE], rec \subseteq rec2,
           sc.manifest \in Patchables => sc2.manifest \in Patchables,
           sc.table \in Patchables => sc2.table \in Patchables,
           d \in Dills => d2 \in Dills
    PROVE  CmdOK(q, sc2, d2, rec2)
<1>1. p \in Commands
  BY DEF CmdOK
<1>2. \A b : Known(rec, b) => Known(rec2, b)
  BY DEF Known
<1>3. CmdOK(p, sc2, d2, rec2)
  BY <1>2 DEF CmdOK
<1>4. CASE q = [p EXCEPT !.alone = FALSE]
  <2>1. /\ q \in Commands
        /\ q.at = p.at /\ q.patch = p.patch /\ q.id = p.id /\ q.engine = p.engine
        /\ q.version = p.version /\ q.file = p.file /\ q.entries = p.entries
        /\ q.built = p.built /\ q.app = p.app /\ q.base = p.base /\ q.met = p.met
    BY <1>1, <1>4, CommandFields
  <2> QED
    BY <1>3, <2>1 DEF CmdOK
<1> QED
  BY <1>3, <1>4

(* One command moves on and no file of the project changes. *)
LEMMA Frame ==
    ASSUME IndexedTypeOK, CommandsInv, NEW c \in LaneCmds, NEW q,
           laneCmd' = [laneCmd EXCEPT ![c] = q], UNCHANGED <<scaffold, dill>>,
           recorded \subseteq recorded',
           CmdOK(q, scaffold, dill, recorded'), AloneOK(q, scaffold, dill)
    PROVE  laneCmd' \in [LaneCmds -> Commands] /\ CommandsInv'
<1>1. laneCmd \in [LaneCmds -> Commands] /\ q \in Commands
  BY DEF IndexedTypeOK, CmdOK
<1>2. laneCmd' \in [LaneCmds -> Commands]
  BY <1>1
<1>3. SUFFICES ASSUME NEW x \in LaneCmds
               PROVE  CmdOK(laneCmd'[x], scaffold, dill, recorded') /\ AloneOK(laneCmd'[x], scaffold, dill)
  BY <1>2 DEF CommandsInv
<1>4. CASE x = c
  BY <1>1, <1>4
<1>5. CASE x # c
  <2>1. laneCmd'[x] = laneCmd[x]
    BY <1>1, <1>5
  <2>2. CmdOK(laneCmd[x], scaffold, dill, recorded) /\ AloneOK(laneCmd[x], scaffold, dill)
    BY DEF CommandsInv
  <2>3. CmdOK(laneCmd[x], scaffold, dill, recorded')
    BY <2>2, BystanderOK
  <2> QED
    BY <2>1, <2>2, <2>3
<1> QED
  BY <1>4, <1>5

(* One command moves on, having changed what others go by: those are no    *)
(* longer alone.                                                           *)
LEMMA AsideFrame ==
    ASSUME IndexedTypeOK, CommandsInv, NEW c \in LaneCmds, NEW q, NEW others,
           laneCmd' = [Aside(c, others) EXCEPT ![c] = q],
           UNCHANGED recorded,
           scaffold.manifest \in Patchables => scaffold'.manifest \in Patchables,
           scaffold.table \in Patchables => scaffold'.table \in Patchables,
           dill \in Dills => dill' \in Dills,
           CmdOK(q, scaffold', dill', recorded), AloneOK(q, scaffold', dill'),
           \A x \in LaneCmds \ ({c} \cup others) : AloneOK(laneCmd[x], scaffold', dill')
    PROVE  laneCmd' \in [LaneCmds -> Commands] /\ CommandsInv'
<1>1. laneCmd \in [LaneCmds -> Commands] /\ q \in Commands
  BY DEF IndexedTypeOK, CmdOK
<1>2. \A x \in LaneCmds : [laneCmd[x] EXCEPT !.alone = FALSE] \in Commands
  BY <1>1, CommandFields
<1>3. laneCmd' \in [LaneCmds -> Commands]
  BY <1>1, <1>2 DEF Aside
<1>4. SUFFICES ASSUME NEW x \in LaneCmds
               PROVE  CmdOK(laneCmd'[x], scaffold', dill', recorded) /\ AloneOK(laneCmd'[x], scaffold', dill')
  BY <1>3 DEF CommandsInv
<1>5. CASE x = c
  BY <1>1, <1>5 DEF Aside
<1>6. CASE x # c /\ x \in others
  <2>1. laneCmd'[x] = [laneCmd[x] EXCEPT !.alone = FALSE]
    BY <1>6 DEF Aside
  <2>2. CmdOK(laneCmd[x], scaffold, dill, recorded)
    BY DEF CommandsInv
  <2>3. CmdOK(laneCmd'[x], scaffold', dill', recorded)
    BY <2>1, <2>2, BystanderOK
  <2>4. ~laneCmd'[x].alone
    BY <1>1, <2>1, CommandFields
  <2> QED
    BY <2>3, <2>4 DEF AloneOK
<1>7. CASE x # c /\ x \notin others
  <2>1. laneCmd'[x] = laneCmd[x]
    BY <1>7 DEF Aside
  <2>2. CmdOK(laneCmd[x], scaffold, dill, recorded)
    BY DEF CommandsInv
  <2>3. CmdOK(laneCmd[x], scaffold', dill', recorded)
    BY <2>2, BystanderOK
  <2> QED
    BY <1>7, <2>1, <2>3
<1> QED
  BY <1>5, <1>6, <1>7

(* A command that ended holds nothing. *)
LEMMA IdleOK ==
    ASSUME NEW sc, NEW d, NEW rec
    PROVE  CmdIdle \in Commands /\ CmdOK(CmdIdle, sc, d, rec) /\ AloneOK(CmdIdle, sc, d)
<1>1. CmdIdle \in Commands
  BY DEF CmdIdle, Commands, LaneSteps
<1>2. CmdIdle.at = "idle"
  BY DEF CmdIdle
<1> QED
  BY <1>1, <1>2 DEF CmdOK, AloneOK

(* A step that only moves one command on. *)
LEMMA LaneQuietStep ==
    ASSUME IndexedInv, NEW c \in LaneCmds, NEW q,
           laneCmd' = [laneCmd EXCEPT ![c] = q],
           UNCHANGED <<listed, scaffold, dill, outFile, created, past>>,
           laneRuns' \in [releases : 0 .. MaxLaneReleases, patches : 0 .. MaxLanePatches],
           CmdOK(q, scaffold, dill, recorded), AloneOK(q, scaffold, dill)
    PROVE  IndexedInv'
<1>0. UNCHANGED <<recorded, strays, apps, patched, ensured>>
  BY DEF past
<1>1. laneCmd' \in [LaneCmds -> Commands] /\ CommandsInv'
  BY <1>0, Frame DEF IndexedInv
<1>2. IndexedTypeOK'
  BY <1>1 DEF IndexedInv, IndexedTypeOK
<1>3. RecordedInv' /\ AppsInv' /\ PatchedInv' /\ EnsuredInv'
  BY <1>0 DEF IndexedInv, RecordedInv, AppsInv, PatchedInv, EnsuredInv, NoPhantomRelease, Known
<1> QED
  BY <1>1, <1>2, <1>3 DEF IndexedInv

(* A step that changes what others go by, and no history. *)
LEMMA AsideStep ==
    ASSUME IndexedInv, NEW c \in LaneCmds, NEW q, NEW others,
           laneCmd' = [Aside(c, others) EXCEPT ![c] = q],
           UNCHANGED <<listed, outFile, created, laneRuns, past>>,
           scaffold' \in [manifest : Patchables \cup {Nothing}, table : Patchables \cup {Nothing}],
           dill' \in Dills \cup {Nothing},
           scaffold.manifest \in Patchables => scaffold'.manifest \in Patchables,
           scaffold.table \in Patchables => scaffold'.table \in Patchables,
           dill \in Dills => dill' \in Dills,
           CmdOK(q, scaffold', dill', recorded), AloneOK(q, scaffold', dill'),
           \A x \in LaneCmds \ ({c} \cup others) : AloneOK(laneCmd[x], scaffold', dill')
    PROVE  IndexedInv'
<1>0. UNCHANGED <<recorded, strays, apps, patched, ensured>>
  BY DEF past
<1>1. laneCmd' \in [LaneCmds -> Commands] /\ CommandsInv'
  BY <1>0, AsideFrame DEF IndexedInv
<1>2. IndexedTypeOK'
  BY <1>1 DEF IndexedInv, IndexedTypeOK
<1>3. RecordedInv' /\ AppsInv' /\ PatchedInv' /\ EnsuredInv'
  BY <1>0 DEF IndexedInv, RecordedInv, AppsInv, PatchedInv, EnsuredInv, NoPhantomRelease, Known
<1> QED
  BY <1>1, <1>2, <1>3 DEF IndexedInv

-----------------------------------------------------------------------------
LEMMA LaneEndKeeps ==
    ASSUME IndexedInv, NEW c \in LaneCmds, LaneEnds(c),
           UNCHANGED <<listed, scaffold, dill, outFile, created, laneRuns, past>>
    PROVE  IndexedInv'
BY LaneQuietStep, IdleOK DEF LaneEnds, IndexedInv, IndexedTypeOK

(* The command of c as IndexedInv has it. *)
LEMMA OfCommand ==
    ASSUME IndexedInv, NEW c \in LaneCmds
    PROVE  /\ laneCmd[c] \in Commands
           /\ CmdOK(laneCmd[c], scaffold, dill, recorded) /\ AloneOK(laneCmd[c], scaffold, dill)
BY DEF IndexedInv, CommandsInv, CmdOK

LEMMA PatchBeginKeeps ==
    ASSUME IndexedInv, NEW c \in LaneCmds, NEW engine \in LaneEngines, NEW f \in OutFiles,
           RunPatchIOSEngineScaffolded(c, engine, f)
    PROVE  IndexedInv'
<1>1. /\ laneRuns \in [releases : 0 .. MaxLaneReleases, patches : 0 .. MaxLanePatches]
      /\ MaxLaneReleases \in Nat /\ MaxLanePatches \in Nat
  BY IndexedAssumption DEF IndexedInv, IndexedTypeOK
<1> DEFINE q == [[CmdIdle EXCEPT !.patch = TRUE, !.engine = engine, !.file = f]
                    EXCEPT !.at = "resolve"]
<1>2. laneCmd' = [laneCmd EXCEPT ![c] = q] /\ UNCHANGED <<listed, scaffold, dill, outFile, created, past>>
  BY DEF RunPatchIOSEngineScaffolded, BeginLane
<1>3. laneRuns' \in [releases : 0 .. MaxLaneReleases, patches : 0 .. MaxLanePatches]
  BY <1>1 DEF RunPatchIOSEngineScaffolded
<1>4. /\ q \in Commands /\ q.at = "resolve" /\ q.engine = engine /\ q.file = f
      /\ q.patch
  BY DEF Commands, CmdIdle, LaneSteps
<1>5. CmdOK(q, scaffold, dill, recorded) /\ AloneOK(q, scaffold, dill)
  BY <1>4 DEF CmdOK, AloneOK
<1> QED
  BY <1>2, <1>3, <1>5, LaneQuietStep

LEMMA ReleaseBeginKeeps ==
    ASSUME IndexedInv, NEW c \in LaneCmds, NEW engine \in LaneEngines, NEW f \in OutFiles,
           NEW id \in ReleaseIds, NEW version \in AppVersions,
           RunReleaseIOSEngineBuild(c, id, engine, version, f)
    PROVE  IndexedInv'
<1>1. /\ laneRuns \in [releases : 0 .. MaxLaneReleases, patches : 0 .. MaxLanePatches]
      /\ MaxLaneReleases \in Nat /\ MaxLanePatches \in Nat
  BY IndexedAssumption DEF IndexedInv, IndexedTypeOK
<1> DEFINE q == [[CmdIdle EXCEPT !.id = id, !.engine = engine, !.version = version, !.file = f]
                    EXCEPT !.at = "resolve"]
<1>2. laneCmd' = [laneCmd EXCEPT ![c] = q] /\ UNCHANGED <<listed, scaffold, dill, outFile, created, past>>
  BY DEF RunReleaseIOSEngineBuild, BeginLane
<1>3. laneRuns' \in [releases : 0 .. MaxLaneReleases, patches : 0 .. MaxLanePatches]
  BY <1>1 DEF RunReleaseIOSEngineBuild
<1>4. /\ q \in Commands /\ q.at = "resolve" /\ q.engine = engine /\ q.file = f
      /\ q.id = id /\ q.version = version
  BY DEF Commands, CmdIdle, LaneSteps
<1>5. CmdOK(q, scaffold, dill, recorded) /\ AloneOK(q, scaffold, dill)
  BY <1>4 DEF CmdOK, AloneOK
<1> QED
  BY <1>2, <1>3, <1>5, LaneQuietStep

LEMMA ScaffoldKeeps ==
    ASSUME IndexedInv, NEW c \in LaneCmds, ResolvePatchableEntries(c) \/ WritePatchTableFile(c)
    PROVE  IndexedInv'
<1>1. /\ laneCmd[c] \in Commands /\ CmdOK(laneCmd[c], scaffold, dill, recorded)
      /\ AloneOK(laneCmd[c], scaffold, dill)
  BY OfCommand
<1>2. /\ scaffold \in [manifest : Patchables \cup {Nothing}, table : Patchables \cup {Nothing}]
      /\ listed.list \in Patchables /\ dill \in Dills \cup {Nothing}
      /\ laneCmd \in [LaneCmds -> Commands]
  BY DEF IndexedInv, IndexedTypeOK
<1>3. Nothing \notin Patchables
  BY IndexedAssumption
<1>4. \A x \in LaneCmds : CmdOK(laneCmd[x], scaffold, dill, recorded) /\ AloneOK(laneCmd[x], scaffold, dill)
  BY DEF IndexedInv, CommandsInv
<1>5. CASE ResolvePatchableEntries(c)
  <2> DEFINE others == Goers(listed.list)
             q == [laneCmd[c] EXCEPT !.at = "table", !.entries = listed.list]
  <2>1. laneCmd' = [Aside(c, others) EXCEPT ![c] = q]
    <3>1. laneCmd' = [Aside(c, others) EXCEPT ![c].at = "table", ![c].entries = listed.list]
      BY <1>5 DEF ResolvePatchableEntries
    <3>2. Aside(c, others)[c] = laneCmd[c]
      BY DEF Aside
    <3> QED
      BY <3>1, <3>2 DEF Aside
  <2>2. /\ scaffold' = [scaffold EXCEPT !.manifest = listed.list]
        /\ UNCHANGED <<listed, dill, outFile, created, laneRuns, past>>
    BY <1>5 DEF ResolvePatchableEntries
  <2>3. /\ q \in Commands /\ q.at = "table" /\ q.entries = listed.list /\ q.engine = laneCmd[c].engine
        /\ q.file = laneCmd[c].file /\ q.patch = laneCmd[c].patch /\ q.id = laneCmd[c].id
        /\ q.version = laneCmd[c].version /\ laneCmd[c].at = "resolve"
    BY ZenonT(30), <1>1, <1>2, <1>5 DEF Commands, LaneSteps, ResolvePatchableEntries, LaneAt
  <2>4. scaffold'.manifest = listed.list /\ scaffold'.table = scaffold.table
    BY <1>2, <2>2
  <2>5. CmdOK(q, scaffold', dill', recorded) /\ AloneOK(q, scaffold', dill')
    BY <1>1, <1>2, <2>3, <2>4 DEF CmdOK, AloneOK
  <2>6. ASSUME NEW x \in LaneCmds \ ({c} \cup others) PROVE AloneOK(laneCmd[x], scaffold', dill')
    <3>1. laneCmd[x].entries = Nothing \/ laneCmd[x].entries = listed.list
      BY DEF Goers
    <3> QED
      BY <1>3, <1>4, <2>2, <2>4, <3>1 DEF CmdOK, AloneOK
  <2>7. scaffold' \in [manifest : Patchables \cup {Nothing}, table : Patchables \cup {Nothing}]
    BY <1>2, <2>2
  <2> QED
    BY <1>2, <2>1, <2>2, <2>4, <2>5, <2>6, <2>7, AsideStep
<1>6. CASE WritePatchTableFile(c)
  <2> DEFINE others == Goers(laneCmd[c].entries)
             q == [laneCmd[c] EXCEPT !.at = "check"]
  <2>1. laneCmd' = [Aside(c, others) EXCEPT ![c] = q]
    <3>1. laneCmd' = [Aside(c, others) EXCEPT ![c].at = "check"]
      BY <1>6 DEF WritePatchTableFile
    <3>2. Aside(c, others)[c] = laneCmd[c]
      BY DEF Aside
    <3> QED
      BY <3>1, <3>2 DEF Aside
  <2>2. /\ scaffold' = [scaffold EXCEPT !.table = laneCmd[c].entries]
        /\ UNCHANGED <<listed, dill, outFile, created, laneRuns, past>>
    BY <1>6 DEF WritePatchTableFile
  <2>3. /\ q \in Commands /\ q.at = "check" /\ q.entries = laneCmd[c].entries
        /\ q.engine = laneCmd[c].engine /\ q.alone = laneCmd[c].alone
        /\ q.file = laneCmd[c].file /\ q.patch = laneCmd[c].patch /\ q.id = laneCmd[c].id
        /\ q.version = laneCmd[c].version /\ laneCmd[c].at = "table"
    BY <1>1, <1>6 DEF Commands, LaneSteps, WritePatchTableFile, LaneAt
  <2>4. /\ scaffold'.table = laneCmd[c].entries /\ scaffold'.manifest = scaffold.manifest
        /\ laneCmd[c].entries \in Patchables
    BY <1>1, <1>2, <2>2, <2>3 DEF CmdOK
  <2>5. CmdOK(q, scaffold', dill', recorded) /\ AloneOK(q, scaffold', dill')
    BY <1>1, <1>2, <2>3, <2>4 DEF CmdOK, AloneOK
  <2>6. ASSUME NEW x \in LaneCmds \ ({c} \cup others) PROVE AloneOK(laneCmd[x], scaffold', dill')
    <3>1. laneCmd[x].entries = Nothing \/ laneCmd[x].entries = laneCmd[c].entries
      BY DEF Goers
    <3> QED
      BY <1>3, <1>4, <2>2, <2>4, <3>1 DEF CmdOK, AloneOK
  <2>7. scaffold' \in [manifest : Patchables \cup {Nothing}, table : Patchables \cup {Nothing}]
    BY <1>2, <2>2, <2>4
  <2> QED
    BY <1>2, <2>1, <2>2, <2>4, <2>5, <2>6, <2>7, AsideStep
<1> QED
  BY <1>5, <1>6

LEMMA CrossCheckKeeps ==
    ASSUME IndexedInv, NEW c \in LaneCmds, CrossCheckScaffold(c)
    PROVE  IndexedInv'
<1>1. /\ laneCmd[c] \in Commands /\ CmdOK(laneCmd[c], scaffold, dill, recorded)
      /\ AloneOK(laneCmd[c], scaffold, dill)
  BY OfCommand
<1>2. laneRuns \in [releases : 0 .. MaxLaneReleases, patches : 0 .. MaxLanePatches]
  BY DEF IndexedInv, IndexedTypeOK
<1>3. CASE LaneEnds(c)
  BY <1>3, LaneEndKeeps DEF CrossCheckScaffold
<1>4. CASE ~LaneEnds(c)
  <2> DEFINE q == [laneCmd[c] EXCEPT !.at = IF laneCmd[c].patch THEN "guard" ELSE "build"]
  <2>1. /\ laneCmd' = [laneCmd EXCEPT ![c] = q] /\ laneCmd[c].at = "check"
        /\ scaffold.manifest = laneCmd[c].entries
        /\ UNCHANGED <<listed, scaffold, dill, outFile, created, laneRuns, past>>
    BY <1>4 DEF CrossCheckScaffold, LaneTo, LaneAt
  <2>2. /\ q \in Commands /\ q.at = (IF laneCmd[c].patch THEN "guard" ELSE "build")
        /\ q.entries = laneCmd[c].entries /\ q.engine = laneCmd[c].engine /\ q.alone = laneCmd[c].alone
        /\ q.file = laneCmd[c].file /\ q.patch = laneCmd[c].patch /\ q.id = laneCmd[c].id
        /\ q.version = laneCmd[c].version
    BY <1>1 DEF Commands, LaneSteps
  <2>3. CmdOK(q, scaffold, dill, recorded) /\ AloneOK(q, scaffold, dill)
    BY <1>1, <2>1, <2>2 DEF CmdOK, AloneOK
  <2> QED
    BY <1>2, <2>1, <2>3, LaneQuietStep
<1> QED
  BY <1>3, <1>4

LEMMA LaneBuildKeeps ==
    ASSUME IndexedInv, NEW c \in LaneCmds, NEW outcome \in {"ends", "tail", "early"}, NEW archive \in BOOLEAN,
           FlutterBuildIOS(c, outcome, archive)
    PROVE  IndexedInv'
<1> DEFINE new == IF outcome = "early" THEN dill ELSE [code |-> listed.code, table |-> scaffold.table]
           others == {x \in LaneCmds : laneCmd[x].built \notin {Nothing, new}}
           quits == new = Nothing \/ (outcome # "ends" /\ archive)
           q == IF quits THEN CmdIdle
                ELSE [laneCmd[c] EXCEPT !.at = "identify", !.built = IF outcome = "early" THEN Nothing ELSE new,
                                        !.app = (outcome = "ends")]
<1>1. /\ laneCmd[c] \in Commands /\ CmdOK(laneCmd[c], scaffold, dill, recorded)
      /\ AloneOK(laneCmd[c], scaffold, dill)
  BY OfCommand
<1>2. /\ scaffold \in [manifest : Patchables \cup {Nothing}, table : Patchables \cup {Nothing}]
      /\ listed.code \in Codes /\ dill \in Dills \cup {Nothing}
  BY DEF IndexedInv, IndexedTypeOK
<1>3. Nothing \notin Dills
  BY IndexedAssumption
<1>4. laneCmd[c].at = "build" /\ dill' = new
      /\ UNCHANGED <<listed, scaffold, outFile, created, laneRuns, past>>
  BY DEF FlutterBuildIOS, LaneAt
<1>5. laneCmd' = [Aside(c, others) EXCEPT ![c] = q]
  <2>1. Aside(c, others)[c] = laneCmd[c]
    BY DEF Aside
  <2> QED
    BY <2>1 DEF FlutterBuildIOS
<1>6. scaffold.table \in Patchables
  BY <1>1, <1>4 DEF CmdOK
<1>7. new \in Dills \cup {Nothing} /\ (outcome # "early" => new \in Dills /\ new.table = scaffold.table)
  BY <1>2, <1>6 DEF Dills
<1>8. dill \in Dills => new \in Dills
  BY <1>7
<1>9. CmdOK(q, scaffold', dill', recorded) /\ AloneOK(q, scaffold', dill')
  <2>1. CASE quits
    BY <2>1, IdleOK
  <2>2. CASE ~quits
    <3>1. /\ q \in Commands /\ q.at = "identify" /\ q.built = (IF outcome = "early" THEN Nothing ELSE new)
          /\ q.app = (outcome = "ends") /\ q.alone = laneCmd[c].alone
          /\ q.entries = laneCmd[c].entries /\ q.engine = laneCmd[c].engine
          /\ q.file = laneCmd[c].file /\ q.patch = laneCmd[c].patch /\ q.id = laneCmd[c].id
          /\ q.version = laneCmd[c].version
      <4> DEFINE w == IF outcome = "early" THEN Nothing ELSE new
                 e == outcome = "ends"
      <4>1. w \in Dills \cup {Nothing} /\ e \in BOOLEAN
        BY <1>7
      <4>2. q = [laneCmd[c] EXCEPT !.at = "identify", !.built = w, !.app = e]
        BY <2>2
      <4> HIDE DEF w, e, q
      <4>3. /\ q \in Commands /\ q.at = "identify" /\ q.built = w /\ q.app = e
            /\ q.alone = laneCmd[c].alone
            /\ q.entries = laneCmd[c].entries /\ q.engine = laneCmd[c].engine
            /\ q.file = laneCmd[c].file /\ q.patch = laneCmd[c].patch /\ q.id = laneCmd[c].id
            /\ q.version = laneCmd[c].version
        BY <1>1, <4>1, <4>2 DEF Commands, LaneSteps
      <4> USE DEF w, e
      <4> QED
        BY <4>3
    <3>2. new \in Dills
      BY <1>7, <2>2
    <3>3. CmdOK(q, scaffold', dill', recorded)
      <4>1. scaffold' = scaffold /\ dill' \in Dills
        BY <1>4, <3>2
      <4>2. q.app => q.built \in Dills
        BY <3>1, <3>2
      <4> HIDE DEF q, new
      <4> QED
        BY <1>1, <1>4, <3>1, <4>1, <4>2 DEF CmdOK
    <3>4. AloneOK(q, scaffold', dill')
      <4>1. scaffold' = scaffold
        BY <1>4
      <4>2. q.built # Nothing => dill' = q.built /\ q.built.table = scaffold.table
        BY <1>4, <1>7, <3>1
      <4> HIDE DEF q, new
      <4> QED
        BY <1>1, <1>4, <3>1, <4>1, <4>2 DEF AloneOK
    <3> QED
      BY <3>3, <3>4
  <2> QED
    BY <2>1, <2>2
<1>10. ASSUME NEW x \in LaneCmds \ ({c} \cup others) PROVE AloneOK(laneCmd[x], scaffold', dill')
  <2>1. AloneOK(laneCmd[x], scaffold, dill)
    BY DEF IndexedInv, CommandsInv
  <2>2. laneCmd[x].built = Nothing \/ laneCmd[x].built = new
    OBVIOUS
  <2> HIDE DEF new
  <2> QED
    BY <1>4, <2>1, <2>2 DEF AloneOK
<1> HIDE DEF q, new, others
<1> QED
  BY ZenonT(30), <1>2, <1>4, <1>5, <1>7, <1>8, <1>9, <1>10, AsideStep

LEMMA IdentifyKeeps ==
    ASSUME IndexedInv, NEW c \in LaneCmds, IdentifyBaseline(c)
    PROVE  IndexedInv'
<1>1. /\ laneCmd[c] \in Commands /\ CmdOK(laneCmd[c], scaffold, dill, recorded)
      /\ AloneOK(laneCmd[c], scaffold, dill)
  BY OfCommand
<1>2. /\ laneRuns \in [releases : 0 .. MaxLaneReleases, patches : 0 .. MaxLanePatches]
      /\ outFile \in [OutFiles -> LaneBaselines \cup {Nothing}]
  BY DEF IndexedInv, IndexedTypeOK
<1>3. CASE LaneEnds(c)
  BY <1>3, LaneEndKeeps DEF IdentifyBaseline
<1>4. CASE ~LaneEnds(c)
  <2> DEFINE b == Identity(c)
             met == outFile[laneCmd[c].file]
             q == [laneCmd[c] EXCEPT !.at = "write", !.base = b, !.met = met]
  <2>1. /\ laneCmd' = [laneCmd EXCEPT ![c] = q] /\ laneCmd[c].at = "identify"
        /\ Unaltered(laneCmd[c].file, b)
        /\ UNCHANGED <<listed, scaffold, dill, outFile, created, laneRuns, past>>
    BY <1>4 DEF IdentifyBaseline, LaneAt
  <2>2. /\ b \in LaneBaselines /\ b.id = laneCmd[c].id /\ b.engine = laneCmd[c].engine
        /\ b.dill = dill /\ b.manifest = scaffold.manifest
    BY <1>1, <2>1 DEF CmdOK, Identity, LaneBaselines
  <2>3. met \in LaneBaselines \cup {Nothing}
    BY <1>1, <1>2, <2>1 DEF CmdOK
  <2>4. IsBaseOf(met, b.id) => met = b /\ Known(recorded, met)
    <3>1. laneCmd[c].file \in OutFiles
      BY <1>1, <2>1 DEF CmdOK
    <3>2. \A f \in OutFiles : outFile[f] # Nothing => Known(recorded, outFile[f])
      BY DEF IndexedInv, RecordedInv
    <3> QED
      BY <2>1, <3>1, <3>2 DEF Unaltered, IsBaseOf
  <2> HIDE DEF b, met
  <2>5. /\ q \in Commands /\ q.at = "write" /\ q.base = b /\ q.met = met
        /\ q.built = laneCmd[c].built /\ q.app = laneCmd[c].app
        /\ q.entries = laneCmd[c].entries /\ q.engine = laneCmd[c].engine /\ q.alone = laneCmd[c].alone
        /\ q.file = laneCmd[c].file /\ q.patch = laneCmd[c].patch /\ q.id = laneCmd[c].id
        /\ q.version = laneCmd[c].version
    <3>1. laneCmd[c] \in Commands /\ b \in LaneBaselines \cup {Nothing} /\ "write" \in LaneSteps
      BY <1>1, <2>2 DEF LaneSteps
    <3>2. q \in Commands
      BY <2>3, <3>1 DEF Commands
    <3> QED
      BY <3>1, <3>2 DEF Commands
  <2> HIDE DEF q
  <2>6. CmdOK(q, scaffold, dill, recorded)
    BY <1>1, <2>1, <2>2, <2>4, <2>5 DEF CmdOK
  <2>7. AloneOK(q, scaffold, dill)
    BY <1>1, <2>1, <2>2, <2>5 DEF AloneOK
  <2> QED
    BY <1>2, <2>1, <2>6, <2>7, LaneQuietStep
<1> QED
  BY <1>3, <1>4

(* The one step that writes a baseline.  If the file held a baseline of    *)
(* the id it held this one, which is known; else the id goes astray unless *)
(* all that is known of it is this one.                                    *)
LEMMA WriteKeeps ==
    ASSUME IndexedInv, NEW c \in LaneCmds, WriteBaseline(c)
    PROVE  IndexedInv'
<1>1. /\ laneCmd[c] \in Commands /\ CmdOK(laneCmd[c], scaffold, dill, recorded)
      /\ AloneOK(laneCmd[c], scaffold, dill)
  BY OfCommand
<1> DEFINE b == laneCmd[c].base
           n == [base |-> b, built |-> laneCmd[c].built, alone |-> laneCmd[c].alone]
           q == [laneCmd[c] EXCEPT !.at = "create"]
<1>2. /\ laneCmd' = [laneCmd EXCEPT ![c] = q] /\ laneCmd[c].at = "write"
      /\ outFile' = [outFile EXCEPT ![laneCmd[c].file] = b] /\ recorded' = recorded \cup {n}
      /\ UNCHANGED <<listed, scaffold, dill, created, laneRuns, apps, patched, ensured>>
  BY DEF WriteBaseline, LaneAt, LaneTo
<1>3. /\ strays \subseteq strays'
      /\ \/ IsBaseOf(laneCmd[c].met, b.id)
         \/ \A r \in recorded : r.base.id = b.id => r.base = b
         \/ b.id \in strays'
  <2>1. strays' = IF ~IsBaseOf(laneCmd[c].met, b.id) /\ \E r \in recorded : r.base.id = b.id /\ r.base # b
                  THEN strays \cup {b.id} ELSE strays
    BY DEF WriteBaseline
  <2> HIDE DEF b
  <2> QED
    BY <2>1
<1>4. b \in LaneBaselines /\ n.base = b /\ recorded \subseteq recorded' /\ Known(recorded', b)
  <2>1. b \in LaneBaselines
    BY <1>1, <1>2 DEF CmdOK
  <2>2. n.base = b
    OBVIOUS
  <2> HIDE DEF n
  <2> QED
    BY <1>2, <2>1, <2>2 DEF Known
<1>5. laneCmd' \in [LaneCmds -> Commands] /\ CommandsInv'
  <2>1. /\ q \in Commands /\ q.at = "create" /\ q.base = b
        /\ q.built = laneCmd[c].built /\ q.app = laneCmd[c].app
        /\ q.entries = laneCmd[c].entries /\ q.engine = laneCmd[c].engine /\ q.alone = laneCmd[c].alone
        /\ q.file = laneCmd[c].file /\ q.patch = laneCmd[c].patch /\ q.id = laneCmd[c].id
        /\ q.version = laneCmd[c].version
    BY <1>1 DEF Commands, LaneSteps
  <2>2. CmdOK(q, scaffold, dill, recorded')
    <3> HIDE DEF q
    <3> QED
      BY <1>1, <1>2, <1>4, <2>1 DEF CmdOK
  <2>3. AloneOK(q, scaffold, dill)
    <3> HIDE DEF q
    <3> QED
      BY <1>1, <1>2, <2>1 DEF AloneOK
  <2> QED
    BY <1>2, <1>4, <2>2, <2>3, Frame DEF IndexedInv
<1>6. IndexedTypeOK'
  BY <1>2, <1>4, <1>5 DEF IndexedInv, IndexedTypeOK
<1>7. RecordedInv'
  <2>1. ASSUME NEW f \in OutFiles, outFile'[f] # Nothing PROVE Known(recorded', outFile'[f])
    <3>1. outFile'[f] = b \/ outFile'[f] = outFile[f]
      BY <1>2 DEF IndexedInv, IndexedTypeOK
    <3>2. outFile[f] # Nothing => Known(recorded, outFile[f])
      BY DEF IndexedInv, RecordedInv
    <3> QED
      BY <1>4, <2>1, <3>1, <3>2 DEF Known
  <2>2. ASSUME NEW r \in recorded, r.base.id = b.id, b.id \notin strays' PROVE r.base = b
    <3>1. CASE IsBaseOf(laneCmd[c].met, b.id)
      <4>1. laneCmd[c].met = b /\ Known(recorded, b)
        BY <1>1, <1>2, <3>1 DEF CmdOK
      <4>2. PICK s \in recorded : s.base = b
        BY <4>1 DEF Known
      <4> QED
        BY <1>3, <2>2, <4>2 DEF IndexedInv, RecordedInv
    <3> QED
      BY <1>3, <2>2, <3>1
  <2>3. ASSUME NEW r \in recorded', NEW s \in recorded', r.base.id = s.base.id, r.base.id \notin strays'
        PROVE  r.base = s.base
    <3>1. CASE r \in recorded /\ s \in recorded
      BY <1>3, <2>3, <3>1 DEF IndexedInv, RecordedInv
    <3> HIDE DEF n
    <3>2. (r \in recorded \/ r = n) /\ (s \in recorded \/ s = n)
      BY <1>2
    <3> QED
      BY <1>4, <2>2, <2>3, <3>1, <3>2
  <2>4. \A r \in recorded' : r.base \in LaneBaselines
    BY <1>2, <1>4 DEF IndexedInv, RecordedInv
  <2> QED
    BY <2>1, <2>3, <2>4 DEF RecordedInv
<1>8. AppsInv' /\ PatchedInv' /\ EnsuredInv'
  <2> HIDE DEF n
  <2> QED
    BY <1>2, <1>4 DEF IndexedInv, AppsInv, PatchedInv, EnsuredInv, NoPhantomRelease, Known
<1> QED
  BY <1>5, <1>6, <1>7, <1>8 DEF IndexedInv

LEMMA EnsureKeeps ==
    ASSUME IndexedInv, NEW c \in LaneCmds, NEW arrives \in BOOLEAN, NEW answered \in BOOLEAN,
           NEW reached \in BOOLEAN, EnsureControlPlaneSetup(c, arrives, answered, reached)
    PROVE  IndexedInv'
<1>1. /\ laneCmd[c] \in Commands /\ CmdOK(laneCmd[c], scaffold, dill, recorded)
      /\ AloneOK(laneCmd[c], scaffold, dill)
  BY OfCommand
<1> DEFINE id == laneCmd[c].id
           version == laneCmd[c].version
           made == arrives /\ CanCreate(id, version)
<1>2. /\ laneCmd[c].at = "create" /\ laneCmd' = [laneCmd EXCEPT ![c] = CmdIdle]
      /\ created' = (IF made THEN [created EXCEPT ![id] = version] ELSE created)
      /\ UNCHANGED <<listed, scaffold, dill, outFile, laneRuns, recorded, strays, patched>>
  BY DEF EnsureControlPlaneSetup, LaneAt, LaneEnds
<1>3. id \in ReleaseIds /\ version \in AppVersions
  BY <1>1, <1>2 DEF CmdOK
<1>4. created \in [ReleaseIds -> AppVersions \cup {Nothing}] /\ Nothing \notin AppVersions /\ Nothing \notin Dills
  BY IndexedAssumption DEF IndexedInv, IndexedTypeOK
<1>5. /\ created' \in [ReleaseIds -> AppVersions \cup {Nothing}] /\ (made => created'[id] # Nothing)
      /\ \A i \in ReleaseIds : created[i] # Nothing => created'[i] # Nothing
  <2>1. CASE made
    BY <1>2, <1>3, <1>4, <2>1
  <2>2. CASE ~made
    BY <1>2, <1>4, <2>2
  <2> QED
    BY <2>1, <2>2
<1>6. laneCmd' \in [LaneCmds -> Commands] /\ CommandsInv'
  BY <1>2, IdleOK, Frame DEF IndexedInv
<1>7. IndexedTypeOK'
  BY <1>2, <1>5, <1>6 DEF IndexedInv, IndexedTypeOK
<1>8. RecordedInv' /\ PatchedInv'
  <2>1. outFile' = outFile /\ recorded' = recorded /\ strays' = strays /\ patched' = patched
    BY <1>2
  <2>2. RecordedInv /\ PatchedInv
    BY DEF IndexedInv
  <2> QED
    BY <2>1, <2>2 DEF RecordedInv, PatchedInv, Known
<1>9. /\ UNCHANGED <<ensured, apps>> \/ (ensured' = ensured \cup {id} /\ Succeeded(c))
      /\ ensured' = ensured \/ created'[id] # Nothing
  BY <1>5 DEF EnsureControlPlaneSetup, ExistsByID
<1>10. EnsuredInv'
  BY <1>3, <1>5, <1>9 DEF IndexedInv, EnsuredInv, NoPhantomRelease
<1>11. AppsInv'
  <2>1. CASE apps' = apps
    BY <1>2, <2>1 DEF IndexedInv, AppsInv
  <2>2. CASE laneCmd[c].app /\ laneCmd[c].alone
             /\ apps' = apps \cup {[id |-> id, engine |-> laneCmd[c].engine, dill |-> laneCmd[c].built]}
    <3>1. PICK r \in recorded : r.base = laneCmd[c].base
      BY <1>1, <1>2 DEF CmdOK, Known
    <3>2. laneCmd[c].built \in Dills /\ r.base.id = id /\ r.base.engine = laneCmd[c].engine
      BY <1>1, <1>2, <2>2, <3>1 DEF CmdOK
    <3>3. r.base.dill = laneCmd[c].built /\ r.base.manifest = laneCmd[c].built.table
      BY <1>1, <1>2, <1>4, <2>2, <3>1, <3>2 DEF AloneOK
    <3> QED
      BY <1>2, <2>2, <3>1, <3>2, <3>3 DEF IndexedInv, AppsInv
  <2> QED
    BY <1>9, <2>1, <2>2 DEF Succeeded
<1> QED
  BY <1>6, <1>7, <1>8, <1>10, <1>11 DEF IndexedInv

LEMMA GuardKeeps ==
    ASSUME IndexedInv, NEW c \in LaneCmds, AssertManifestMatchesBaseline(c)
    PROVE  IndexedInv'
<1>1. /\ laneCmd[c] \in Commands /\ CmdOK(laneCmd[c], scaffold, dill, recorded)
      /\ AloneOK(laneCmd[c], scaffold, dill)
  BY OfCommand
<1>2. laneRuns \in [releases : 0 .. MaxLaneReleases, patches : 0 .. MaxLanePatches]
  BY DEF IndexedInv, IndexedTypeOK
<1>3. CASE LaneEnds(c)
  BY <1>3, LaneEndKeeps DEF AssertManifestMatchesBaseline
<1>4. CASE ~LaneEnds(c)
  <2> DEFINE q == [laneCmd[c] EXCEPT !.at = "verify"]
  <2>1. /\ laneCmd' = [laneCmd EXCEPT ![c] = q] /\ laneCmd[c].at = "guard"
        /\ UNCHANGED <<listed, scaffold, dill, outFile, created, laneRuns, past>>
    BY <1>4 DEF AssertManifestMatchesBaseline, LaneTo, LaneAt
  <2>2. /\ q \in Commands /\ q.at = "verify"
        /\ q.entries = laneCmd[c].entries /\ q.engine = laneCmd[c].engine /\ q.alone = laneCmd[c].alone
        /\ q.file = laneCmd[c].file /\ q.patch = laneCmd[c].patch /\ q.id = laneCmd[c].id
        /\ q.version = laneCmd[c].version
    BY <1>1 DEF Commands, LaneSteps
  <2> HIDE DEF q
  <2>3. CmdOK(q, scaffold, dill, recorded) /\ AloneOK(q, scaffold, dill)
    BY <1>1, <2>1, <2>2 DEF CmdOK, AloneOK
  <2> QED
    BY <1>2, <2>1, <2>3, LaneQuietStep
<1> QED
  BY <1>3, <1>4

LEMMA LaneVerifyKeeps ==
    ASSUME IndexedInv, NEW c \in LaneCmds, NEW given \in Dills, VerifyPatchInputs(c, given)
    PROVE  IndexedInv'
<1>1. /\ laneCmd[c] \in Commands /\ CmdOK(laneCmd[c], scaffold, dill, recorded)
      /\ AloneOK(laneCmd[c], scaffold, dill)
  BY OfCommand
<1>2. /\ laneRuns \in [releases : 0 .. MaxLaneReleases, patches : 0 .. MaxLanePatches]
      /\ outFile \in [OutFiles -> LaneBaselines \cup {Nothing}]
  BY DEF IndexedInv, IndexedTypeOK
<1>3. CASE LaneEnds(c)
  BY <1>3, LaneEndKeeps DEF VerifyPatchInputs
<1>4. CASE ~LaneEnds(c)
  <2> DEFINE b == outFile[laneCmd[c].file]
             q == [laneCmd[c] EXCEPT !.at = "compile", !.base = b, !.built = given]
  <2>1. /\ laneCmd' = [laneCmd EXCEPT ![c] = q] /\ laneCmd[c].at = "verify"
        /\ b # Nothing /\ b.engine = laneCmd[c].engine /\ b.dill = given /\ b.manifest = scaffold.manifest
        /\ UNCHANGED <<listed, scaffold, dill, outFile, created, laneRuns, past>>
    BY <1>4 DEF VerifyPatchInputs, LaneAt, EngineMatchesBaseline, AppDillMatches
  <2>2. b \in LaneBaselines /\ Known(recorded, b)
    <3>1. laneCmd[c].file \in OutFiles
      BY <1>1, <2>1 DEF CmdOK
    <3>2. \A f \in OutFiles : outFile[f] # Nothing => Known(recorded, outFile[f])
      BY DEF IndexedInv, RecordedInv
    <3> QED
      BY <1>2, <2>1, <3>1, <3>2
  <2> HIDE DEF b
  <2>3. /\ q \in Commands /\ q.at = "compile" /\ q.base = b /\ q.built = given
        /\ q.entries = laneCmd[c].entries /\ q.engine = laneCmd[c].engine /\ q.alone = laneCmd[c].alone
        /\ q.file = laneCmd[c].file /\ q.patch = laneCmd[c].patch /\ q.id = laneCmd[c].id
        /\ q.version = laneCmd[c].version
    <3>1. "compile" \in LaneSteps /\ b \in LaneBaselines \cup {Nothing} /\ given \in Dills \cup {Nothing}
      BY <2>2 DEF LaneSteps
    <3>2. q \in Commands
      BY <1>1, <3>1 DEF Commands
    <3> QED
      BY <1>1, <3>2 DEF Commands
  <2> HIDE DEF q
  <2>4. CmdOK(q, scaffold, dill, recorded) /\ AloneOK(q, scaffold, dill)
    BY <1>1, <2>1, <2>2, <2>3 DEF CmdOK, AloneOK
  <2> QED
    BY <1>2, <2>1, <2>4, LaneQuietStep
<1> QED
  BY <1>3, <1>4

LEMMA LaneCompileKeeps ==
    ASSUME IndexedInv, NEW c \in LaneCmds, CompilePatchBytecode(c)
    PROVE  IndexedInv'
<1>1. /\ laneCmd[c] \in Commands /\ CmdOK(laneCmd[c], scaffold, dill, recorded)
      /\ AloneOK(laneCmd[c], scaffold, dill)
  BY OfCommand
<1>2. laneRuns \in [releases : 0 .. MaxLaneReleases, patches : 0 .. MaxLanePatches]
  BY DEF IndexedInv, IndexedTypeOK
<1> DEFINE q == [laneCmd[c] EXCEPT !.at = "publish", !.entries = scaffold.manifest]
<1>3. /\ laneCmd' = [laneCmd EXCEPT ![c] = q] /\ laneCmd[c].at = "compile"
      /\ UNCHANGED <<listed, scaffold, dill, outFile, created, laneRuns, past>>
  BY DEF CompilePatchBytecode, LaneAt, Identities
<1>4. scaffold.manifest \in Patchables /\ scaffold.table \in Patchables
  BY <1>1, <1>3 DEF CmdOK
<1>5. /\ q \in Commands /\ q.at = "publish" /\ q.base = laneCmd[c].base /\ q.built = laneCmd[c].built
      /\ q.entries = scaffold.manifest /\ q.engine = laneCmd[c].engine /\ q.alone = laneCmd[c].alone
      /\ q.file = laneCmd[c].file /\ q.patch = laneCmd[c].patch /\ q.id = laneCmd[c].id
      /\ q.version = laneCmd[c].version
  BY ZenonT(30), <1>1, <1>4 DEF Commands, LaneSteps
<1> HIDE DEF q
<1>6. CmdOK(q, scaffold, dill, recorded) /\ AloneOK(q, scaffold, dill)
  BY <1>1, <1>3, <1>4, <1>5 DEF CmdOK, AloneOK
<1> QED
  BY <1>2, <1>3, <1>6, LaneQuietStep

LEMMA LanePublishKeeps ==
    ASSUME IndexedInv, NEW c \in LaneCmds, NEW arrives \in BOOLEAN, PublishEngineBundle(c, arrives)
    PROVE  IndexedInv'
<1>1. /\ laneCmd[c] \in Commands /\ CmdOK(laneCmd[c], scaffold, dill, recorded)
      /\ AloneOK(laneCmd[c], scaffold, dill)
  BY OfCommand
<1> DEFINE p == laneCmd[c]
           n == [id |-> p.base.id, base |-> p.base, engine |-> p.engine, dill |-> p.built,
                 indexed |-> p.entries, alone |-> p.alone]
<1>2. /\ laneCmd[c].at = "publish" /\ laneCmd' = [laneCmd EXCEPT ![c] = CmdIdle]
      /\ patched' \subseteq patched \cup {n}
      /\ UNCHANGED <<listed, scaffold, dill, outFile, created, laneRuns, recorded, strays, apps, ensured>>
  BY DEF PublishEngineBundle, LaneAt, LaneEnds
<1>3. laneCmd' \in [LaneCmds -> Commands] /\ CommandsInv'
  BY <1>2, IdleOK, Frame DEF IndexedInv
<1>4. IndexedTypeOK'
  BY <1>2, <1>3 DEF IndexedInv, IndexedTypeOK
<1>5. RecordedInv' /\ AppsInv' /\ EnsuredInv'
  <2>1. /\ outFile' = outFile /\ recorded' = recorded /\ strays' = strays /\ apps' = apps
        /\ ensured' = ensured /\ created' = created
    BY <1>2
  <2>2. RecordedInv /\ AppsInv /\ EnsuredInv
    BY DEF IndexedInv
  <2> QED
    BY <2>1, <2>2 DEF RecordedInv, AppsInv, EnsuredInv, NoPhantomRelease, Known
<1>6. PatchedInv'
  <2>1. /\ Known(recorded, n.base) /\ n.id = n.base.id /\ n.engine = n.base.engine /\ n.dill = n.base.dill
        /\ (n.alone => n.indexed = n.base.manifest)
    BY <1>1, <1>2 DEF CmdOK, AloneOK
  <2>2. PatchedInv /\ recorded' = recorded
    BY <1>2 DEF IndexedInv
  <2> HIDE DEF n
  <2> QED
    BY <1>2, <2>1, <2>2 DEF PatchedInv
<1> QED
  BY <1>3, <1>4, <1>5, <1>6 DEF IndexedInv

LEMMA LaneEditKeeps ==
    ASSUME IndexedInv, EditTree
    PROVE  IndexedInv'
<1>1. /\ UNCHANGED <<scaffold, dill, outFile, created, laneCmd, laneRuns>>
      /\ UNCHANGED <<recorded, strays, apps, patched, ensured>>
      /\ listed' \in [list : Patchables, code : Codes]
  BY DEF EditTree, past
<1>2. IndexedTypeOK'
  BY <1>1 DEF IndexedInv, IndexedTypeOK
<1>3. CommandsInv' /\ RecordedInv' /\ AppsInv' /\ PatchedInv' /\ EnsuredInv'
  BY <1>1 DEF IndexedInv, CommandsInv, RecordedInv, AppsInv, PatchedInv, EnsuredInv, NoPhantomRelease, Known
<1> QED
  BY <1>2, <1>3 DEF IndexedInv

-----------------------------------------------------------------------------
LEMMA IndexedStarts == IndexedInit => IndexedInv
<1> SUFFICES ASSUME IndexedInit PROVE IndexedInv
  OBVIOUS
<1>1. CommandsInv
  BY IdleOK DEF IndexedInit, CommandsInv
<1>2. MaxLaneReleases \in Nat /\ MaxLanePatches \in Nat
  BY IndexedAssumption
<1>3. laneRuns \in [releases : 0 .. MaxLaneReleases, patches : 0 .. MaxLanePatches]
  BY <1>2 DEF IndexedInit
<1>4. IndexedTypeOK
  <2>1. laneCmd \in [LaneCmds -> Commands]
    BY IdleOK DEF IndexedInit
  <2> QED
    BY <1>3, <2>1 DEF IndexedInit, IndexedTypeOK
<1>5. RecordedInv /\ AppsInv /\ PatchedInv /\ EnsuredInv
  BY DEF IndexedInit, RecordedInv, AppsInv, PatchedInv, EnsuredInv, NoPhantomRelease
<1> QED
  BY <1>1, <1>4, <1>5 DEF IndexedInv

LEMMA IndexedSteps == IndexedInv /\ [IndexedNext]_indexedVars => IndexedInv'
<1> SUFFICES ASSUME IndexedInv, [IndexedNext]_indexedVars PROVE IndexedInv'
  OBVIOUS
<1>1. CASE UNCHANGED indexedVars
  <2>1. /\ UNCHANGED <<listed, scaffold, dill, outFile, created, laneCmd, laneRuns>>
        /\ UNCHANGED <<recorded, strays, apps, patched, ensured>>
    BY <1>1 DEF indexedVars, past
  <2> QED
    BY <2>1 DEF IndexedInv, IndexedTypeOK, CommandsInv, RecordedInv, AppsInv, PatchedInv, EnsuredInv,
                NoPhantomRelease, Known
<1>2. CASE EditTree
  BY <1>2, LaneEditKeeps
<1>3. ASSUME NEW c \in LaneCmds, NEW engine \in LaneEngines, NEW f \in OutFiles,
             RunPatchIOSEngineScaffolded(c, engine, f)
      PROVE  IndexedInv'
  BY <1>3, PatchBeginKeeps
<1>4. ASSUME NEW c \in LaneCmds, NEW engine \in LaneEngines, NEW f \in OutFiles,
             NEW id \in ReleaseIds, NEW version \in AppVersions,
             RunReleaseIOSEngineBuild(c, id, engine, version, f)
      PROVE  IndexedInv'
  BY <1>4, ReleaseBeginKeeps
<1>5. ASSUME NEW c \in LaneCmds, ResolvePatchableEntries(c) \/ WritePatchTableFile(c) PROVE IndexedInv'
  BY <1>5, ScaffoldKeeps
<1>6. ASSUME NEW c \in LaneCmds, CrossCheckScaffold(c) PROVE IndexedInv'
  BY <1>6, CrossCheckKeeps
<1>7. ASSUME NEW c \in LaneCmds, NEW outcome \in {"ends", "tail", "early"}, NEW archive \in BOOLEAN,
             FlutterBuildIOS(c, outcome, archive)
      PROVE  IndexedInv'
  BY <1>7, LaneBuildKeeps
<1>8. ASSUME NEW c \in LaneCmds, IdentifyBaseline(c) \/ WriteBaseline(c) PROVE IndexedInv'
  BY <1>8, IdentifyKeeps, WriteKeeps
<1>9. ASSUME NEW c \in LaneCmds, NEW arrives \in BOOLEAN, NEW answered \in BOOLEAN, NEW reached \in BOOLEAN,
             EnsureControlPlaneSetup(c, arrives, answered, reached)
      PROVE  IndexedInv'
  BY <1>9, EnsureKeeps
<1>10. ASSUME NEW c \in LaneCmds, AssertManifestMatchesBaseline(c) \/ CompilePatchBytecode(c) PROVE IndexedInv'
  BY <1>10, GuardKeeps, LaneCompileKeeps
<1>11. ASSUME NEW c \in LaneCmds, NEW given \in Dills, VerifyPatchInputs(c, given) PROVE IndexedInv'
  BY <1>11, LaneVerifyKeeps
<1>12. ASSUME NEW c \in LaneCmds, NEW arrives \in BOOLEAN, PublishEngineBundle(c, arrives) PROVE IndexedInv'
  BY <1>12, LanePublishKeeps
<1>13. ASSUME NEW c \in LaneCmds, KillLane(c) PROVE IndexedInv'
  BY <1>13, LaneEndKeeps DEF KillLane
<1> QED
  BY <1>1, <1>2, <1>3, <1>4, <1>5, <1>6, <1>7, <1>8, <1>9, <1>10, <1>11, <1>12, <1>13 DEF IndexedNext

(* A patch and an app of one release come of one baseline.                 *)
LEMMA IndicesFollow == IndexedInv => IndexedHolds
<1> SUFFICES ASSUME IndexedInv PROVE IndexedHolds
  OBVIOUS
<1>1. IndicesLand
  <2> SUFFICES ASSUME NEW p \in patched, NEW a \in apps, p.id = a.id, p.id \notin strays, p.alone
               PROVE  a.dill = p.dill /\ a.engine = p.engine /\ p.indexed = a.dill.table
    BY DEF IndicesLand
  <2>1. PICK r \in recorded : /\ r.base.id = a.id /\ r.base.engine = a.engine
                              /\ r.base.dill = a.dill /\ r.base.manifest = a.dill.table
    BY DEF IndexedInv, AppsInv
  <2>2. PICK s \in recorded : s.base = p.base
    BY DEF IndexedInv, PatchedInv, Known
  <2>3. /\ p.id = p.base.id /\ p.engine = p.base.engine /\ p.dill = p.base.dill
        /\ p.indexed = p.base.manifest
    BY DEF IndexedInv, PatchedInv
  <2>4. r.base = s.base
    BY <2>1, <2>2, <2>3 DEF IndexedInv, RecordedInv
  <2> QED
    BY <2>1, <2>2, <2>3, <2>4
<1> QED
  BY <1>1 DEF IndexedHolds, IndexedInv, EnsuredInv

(* However the commands of the indexed lane interleave, die and lose their *)
(* requests: a patch published against a release replaces by index, in any *)
(* app of the release, what it was compiled to replace, and no release is  *)
(* reported that the control plane does not have.                          *)
THEOREM IndexedLaneHolds == IndexedSpec => []IndexedHolds
<1>1. IndexedInit => IndexedInv
  BY IndexedStarts
<1>2. IndexedInv /\ [IndexedNext]_indexedVars => IndexedInv'
  BY IndexedSteps
<1>3. IndexedInv => IndexedHolds
  BY IndicesFollow
<1> QED
  BY <1>1, <1>2, <1>3, PTL DEF IndexedSpec

=============================================================================
