---------------------------- MODULE AndroidProofs ----------------------------
(***************************************************************************)
(* What `soroq release android' and `soroq patch android' promise, for any *)
(* flavors, toolchains, versions, edits, clones, kills and failed requests:*)
(* what is kept of a release is the release's own, the names it gave       *)
(* survive in its patches, and flavors are not mixed.                      *)
(*                                                                         *)
(* One command runs at a time, so the invariant says what is on record     *)
(* (Records, NamesOk, Apart), what the command at work has in hand (InHand,*)
(* OnBase), and what was published (Made).                                 *)
(***************************************************************************)
EXTENDS AndroidPatch, WellFoundedInduction, TLAPS

Trees == [version : Versions, source : Sources]

Releasing == {"map", "record", "create", "upload", "stash", "flavor", "state", "pin", "pinFlavor"}
Patching == {"stashBase", "plan", "patchBuild", "verify", "publish"}
Steps == {"idle", "preflight", "build", "inspect", "earlyBuild", "base"} \cup Releasing \cup Patching

Command == [at : Steps, flavor : Flavors, obfuscate : BOOLEAN, builds : BOOLEAN,
            toolchain : Toolchains \cup {Nil}, fresh : BOOLEAN, map : Names, id : Ids \cup {Nil},
            path : Ids \cup {Nil}, early : BOOLEAN, known : BOOLEAN, pinned : BOOLEAN]

Counts == [commands : 0..MaxCommands, setups : 0..MaxSetups,
           clones : 0..MaxClones, faults : 0..MaxFaults]

Typed ==
    /\ tree \in Trees /\ active \in Toolchains
    /\ out \in [Flavors -> Artifact \cup {Nil}]
    /\ registered \in Seq(Ids) /\ hosted \in [Ids -> Artifact \cup {Nil}]
    /\ last \in Lasts \cup {Nil}
    /\ stash \in [Ids -> Artifact \cup {Nil}] /\ frec \in [Ids -> Flavors \cup {Nil}]
    /\ obf \in [Ids -> [map : Names, record : Names]]
    /\ pin \in [LockKeys -> Pins \cup {Nil}]
    /\ cmd \in Command
    /\ used \in Counts

(* What the local records say of a release is true of it.                  *)
OutOk == \A f \in Flavors : out[f] # Nil => out[f].flavor = f
HostedOk == \A i \in Ids : hosted[i] # Nil => Known(i) /\ hosted[i].flavor = i.flavor
StashOk == \A i \in Ids : stash[i] # Nil /\ "mixed" \notin marks => stash[i] = hosted[i]
FrecOk == \A i \in Ids : frec[i] # Nil => frec[i] = i.flavor
LastOk ==
    last # Nil => /\ Known(last.id) /\ last.flavor = last.id.flavor /\ frec[last.id] # Nil
                  /\ "mixed" \notin marks => last.path = last.id
PinOk ==
    \A k \in LockKeys : pin[k] # Nil =>
        /\ Known(pin[k].id) /\ hosted[pin[k].id] # Nil
        /\ hosted[pin[k].id].toolchain = pin[k].toolchain
        /\ pin[k].flavor = pin[k].id.flavor
Records == OutOk /\ HostedOk /\ StashOk /\ FrecOk /\ LastOk /\ PinOk

(* ... and so is what is kept of its names.                                *)
Unlost == marks \cap {"cloned", "overwritten", "unrecorded"} = {}
OfNames(i, names) ==
    /\ Unlost /\ names # 0 => obf[i].map = names /\ obf[i].record = names
    /\ marks = {} /\ names = 0 => obf[i].map = 0 /\ obf[i].record = 0
NamesOk == \A i \in Ids : hosted[i] # Nil => OfNames(i, hosted[i].names)

(* The flavor of a release is on record.                                   *)
OnRecord(i) ==
    \/ frec[i] # Nil
    \/ \E k \in LockKeys : pin[k] # Nil /\ pin[k].id = i /\ pin[k].flavor # None
Alone(i) == \A r \in Range(registered) : r # i /\ r.version = i.version => ~OnRecord(r)
Apart == \A r, q \in Range(registered) :
             r # q /\ r.version = q.version => ~OnRecord(r) \/ ~OnRecord(q)

(* What a release command has in hand ...                                  *)
InHand ==
    LET a == out[cmd.flavor] IN
    /\ cmd.at \in {"preflight", "build", "inspect"} \cup Releasing => cmd.toolchain \in Toolchains
    /\ cmd.at \in {"preflight", "build"} => cmd.builds /\ ~cmd.fresh
    /\ cmd.at = "inspect" /\ ~cmd.obfuscate => cmd.map = 0
    /\ cmd.at = "inspect" /\ cmd.fresh => a # Nil /\ a.toolchain = cmd.toolchain /\ a.names = cmd.map
    /\ cmd.at \in Releasing =>
           /\ cmd.id \in Ids /\ cmd.id.flavor = cmd.flavor /\ a # Nil /\ Alone(cmd.id)
           /\ cmd.builds => a.toolchain = cmd.toolchain /\ a.names = cmd.map
    /\ cmd.at \in {"map", "record", "pin", "pinFlavor"} => cmd.builds
    /\ cmd.at = "record" => obf[cmd.id].map = cmd.map
    /\ cmd.at = "create" /\ cmd.builds /\ cmd.map # 0 => obf[cmd.id].map = cmd.map /\ obf[cmd.id].record = cmd.map
    /\ cmd.at = "upload" => OfNames(cmd.id, a.names)
    /\ cmd.at \in {"upload", "stash", "flavor", "state", "pin", "pinFlavor"} => Known(cmd.id)
    /\ cmd.at \in {"stash", "flavor", "state", "pin", "pinFlavor"} => hosted[cmd.id] = a
    /\ cmd.at \in {"state", "pin", "pinFlavor"} => frec[cmd.id] # Nil

(* ... and a patch command.                                                *)
OnBase ==
    LET a == out[cmd.flavor]
        id == cmd.id
    IN
    /\ cmd.at \in {"base"} \cup Patching => id \in Ids
    /\ cmd.at \in {"earlyBuild", "base", "stashBase", "plan", "publish"} /\ cmd.early => ~cmd.obfuscate
    /\ cmd.at \in {"base", "stashBase", "plan", "publish"} /\ cmd.early =>
           /\ a # Nil /\ a.names = 0
           /\ cmd.pinned => hosted[id] # Nil /\ a.toolchain = hosted[id].toolchain
    /\ cmd.at = "earlyBuild" => cmd.early
    /\ cmd.at \in {"earlyBuild", "base", "stashBase", "plan", "patchBuild"} => ~cmd.fresh
    /\ cmd.at \in {"patchBuild", "verify"} => ~cmd.early
    /\ cmd.at \in Patching =>
           /\ cmd.path \in Ids /\ stash[cmd.path] # Nil
           /\ "mixed" \notin marks => stash[cmd.path] = hosted[id]
           /\ cmd.flavor # id.flavor => cmd.flavor = None /\ ~cmd.known
    /\ cmd.at \in {"patchBuild", "verify", "publish"} /\ ~cmd.early =>
           /\ cmd.toolchain \in Toolchains
           /\ cmd.pinned => hosted[id] # Nil /\ hosted[id].toolchain = cmd.toolchain
    /\ cmd.at \in {"patchBuild", "verify", "publish"} =>
           obf[id].map = obf[id].record /\ (cmd.obfuscate <=> obf[id].record # 0)
    /\ cmd.at \in {"verify", "publish"} /\ ~cmd.early =>
           /\ cmd.fresh => a # Nil /\ a.toolchain = cmd.toolchain /\ a.names = cmd.map
           /\ cmd.flavor = None => cmd.fresh
           /\ ~cmd.obfuscate => cmd.map = 0
    /\ cmd.at = "publish" /\ ~cmd.early /\ cmd.obfuscate => cmd.map = obf[id].map

(* A published patch was made as its release allows.                       *)
Made(p) ==
    /\ p.id \in Ids
    /\ "mixed" \notin p.marks =>
           /\ p.base = hosted[p.id] /\ hosted[p.id] # Nil
           /\ p.pinned => p.candidate.toolchain = hosted[p.id].toolchain
    /\ p.marks = {} => p.candidate.names = hosted[p.id].names
    /\ p.candidate.flavor # p.id.flavor => p.candidate.flavor = None /\ ~p.known

AndroidInv == Typed /\ Records /\ NamesOk /\ Apart /\ InHand /\ OnBase /\ (\A p \in patches : Made(p))

-----------------------------------------------------------------------------
(* What the commands read. *)

LEMMA NilIsNone ==
    /\ Nil \notin Ids /\ Nil \notin Artifact /\ Nil \notin Lasts /\ Nil \notin Pins
    /\ Nil \notin Flavors /\ Nil \notin Toolchains /\ None \in Flavors /\ Latest \in LockKeys
    /\ Sources \subseteq Names /\ 0 \in Names /\ 0 \notin Sources /\ 1 \in Sources /\ 1 \in Versions
BY AndroidAssumption DEF Flavors, Latest, LockKeys, Names, Sources, Versions

LEMMA RangeTyped == ASSUME Typed PROVE Range(registered) \subseteq Ids
BY DEF Typed, Range

(* Whoever recorded the flavor of a release recorded its own.              *)
LEMMA KnownIs ==
    ASSUME Typed, Records, NEW i \in Ids
    PROVE  KnownFlavor(i) = IF OnRecord(i) THEN i.flavor ELSE Nil
<1>1. CASE frec[i] # Nil
  BY <1>1 DEF KnownFlavor, OnRecord, Records, FrecOk
<1>2. CASE frec[i] = Nil
  <2> DEFINE named == {k \in LockKeys : pin[k] # Nil /\ pin[k].id = i /\ pin[k].flavor # None}
  <2>1. ~(last # Nil /\ last.id = i)
    BY <1>2 DEF Records, LastOk
  <2>2. KnownFlavor(i) = IF named = {} THEN Nil ELSE pin[CHOOSE k \in named : TRUE].flavor
    BY <1>2, <2>1 DEF KnownFlavor
  <2>3. OnRecord(i) <=> named # {}
    BY <1>2 DEF OnRecord
  <2>4. \A k \in named : pin[k].flavor = i.flavor
    BY DEF Records, PinOk
  <2>5. named # {} => (CHOOSE k \in named : TRUE) \in named
    OBVIOUS
  <2> HIDE DEF named
  <2> QED
    BY <2>2, <2>3, <2>4, <2>5
<1> QED
  BY <1>1, <1>2

LEMMA LeastOf ==
    ASSUME NEW T, T \subseteq Nat, T # {}
    PROVE  \E x \in T : \A y \in T : x <= y
<1>1. PICK x \in T : \A y \in T : <<y, x>> \notin OpToRel(<, Nat)
  BY NatLessThanWellFounded, WFMin
<1>2. x \in Nat /\ \A y \in T : y \in Nat /\ ~(y < x)
  BY <1>1 DEF OpToRel
<1>3. \A y \in T : x <= y
  BY <1>2
<1> QED
  BY <1>3

(* The newest release of a version is one of those that are registered.    *)
LEMMA NewestIs ==
    ASSUME Typed, NEW v
    PROVE  /\ Newest(v) \in Ids \cup {Nil}
           /\ (\E r \in Range(registered) : r.version = v) => Newest(v) \in Ids
<1> DEFINE of == {n \in DOMAIN registered : registered[n].version = v}
           U == {n \in Nat : \A m \in of : m <= n}
<1>1. DOMAIN registered = 1..Len(registered) /\ Len(registered) \in Nat /\ \A n \in DOMAIN registered : registered[n] \in Ids
  BY DEF Typed
<1>2. of \subseteq Nat /\ Len(registered) \in U /\ U \subseteq Nat
  BY <1>1
<1>3. ASSUME of # {} PROVE \E n \in of : \A m \in of : m <= n
  <2>1. PICK n \in U : \A m \in U : n <= m
    BY <1>2, LeastOf
  <2>2. n \in of
    <3> SUFFICES ASSUME n \notin of PROVE FALSE
      OBVIOUS
    <3>1. n \in Nat /\ \A m \in of : m \in Nat /\ m <= n - 1
      BY <1>2
    <3>2. PICK m \in of : TRUE
      BY <1>3
    <3>3. n - 1 \in U
      BY <1>1, <3>1, <3>2
    <3> QED
      BY <2>1, <3>1, <3>3
  <2> QED
    BY <2>2
<1>4. of # {} => (CHOOSE n \in of : \A m \in of : m <= n) \in of
  BY <1>3
<1>5. Newest(v) = IF of = {} THEN Nil ELSE registered[CHOOSE n \in of : \A m \in of : m <= n]
  BY DEF Newest
<1>6. (\E r \in Range(registered) : r.version = v) => of # {}
  BY DEF Range
<1>7. \A n \in of : registered[n] \in Ids
  BY <1>1
<1> HIDE DEF of
<1> QED
  BY <1>4, <1>5, <1>6, <1>7

LEMMA PinOfIs ==
    ASSUME NEW id, PinOf(id) # Nil
    PROVE  \E k \in LockKeys : pin[k] = PinOf(id) /\ pin[k] # Nil /\ pin[k].id = id
<1> DEFINE keys == {k \in LockKeys : pin[k] # Nil /\ pin[k].id = id}
<1>1. keys # {} /\ PinOf(id) = pin[IF Latest \in keys THEN Latest ELSE CHOOSE k \in keys : TRUE]
  BY DEF PinOf
<1>2. (IF Latest \in keys THEN Latest ELSE CHOOSE k \in keys : TRUE) \in keys
  BY <1>1
<1> QED
  BY <1>1, <1>2

LEMMA EarlyPinIs ==
    ASSUME NEW f, EarlyPin(f) # Nil
    PROVE  \E k \in LockKeys : pin[k] = EarlyPin(f) /\ pin[k] # Nil
BY PinOfIs, NilIsNone DEF EarlyPin

-----------------------------------------------------------------------------
(* Steps of the command that leave all records as they are. *)

LEMMA IdleTyped == Idle \in Command /\ Idle.at = "idle"
BY NilIsNone DEF Idle, Command, Steps

LEMMA IdleFits == ASSUME cmd' = Idle PROVE cmd' \in Command /\ InHand' /\ OnBase'
<1>1. cmd' \in Command /\ cmd'.at = "idle"
  BY IdleTyped
<1>2. InHand'
  BY <1>1 DEF InHand, Releasing
<1>3. OnBase'
  BY <1>1 DEF OnBase, Patching
<1> QED
  BY <1>1, <1>2, <1>3

LEMMA LocalStep ==
    ASSUME AndroidInv, UNCHANGED <<registered, hosted, last, stash, frec, obf, pin, patches, marks>>,
           tree' \in Trees, active' \in Toolchains, out' \in [Flavors -> Artifact \cup {Nil}], OutOk',
           used' \in Counts,
           cmd' \in Command, InHand', OnBase'
    PROVE  AndroidInv'
<1>1. Typed'
  BY DEF AndroidInv, Typed
<1>2. Records'
  BY DEF AndroidInv, Records, HostedOk, StashOk, FrecOk, LastOk, PinOk, Known
<1>3. NamesOk'
  BY DEF AndroidInv, NamesOk, OfNames, Unlost
<1>4. Apart'
  BY DEF AndroidInv, Apart, OnRecord
<1>5. \A p \in patches' : Made(p)'
  BY DEF AndroidInv, Made
<1> QED
  BY <1>1, <1>2, <1>3, <1>4, <1>5 DEF AndroidInv

LEMMA UsedTyped ==
    ASSUME Typed
    PROVE  /\ UNCHANGED used => used' \in Counts
           /\ CanFault /\ Fault => used' \in Counts
           /\ used.commands < MaxCommands /\ used' = [used EXCEPT !.commands = @ + 1] => used' \in Counts
           /\ used.setups < MaxSetups /\ used' = [used EXCEPT !.setups = @ + 1] => used' \in Counts
           /\ used.clones < MaxClones /\ used' = [used EXCEPT !.clones = @ + 1] => used' \in Counts
<1>1. used \in Counts /\ {MaxCommands, MaxSetups, MaxClones, MaxFaults} \subseteq Nat
  BY AndroidAssumption DEF Typed
<1>2. UNCHANGED used => used' \in Counts
  BY <1>1
<1>3. CanFault /\ Fault => used' \in Counts
  BY <1>1 DEF Counts, CanFault, Fault
<1>4. used.commands < MaxCommands /\ used' = [used EXCEPT !.commands = @ + 1] => used' \in Counts
  BY <1>1 DEF Counts
<1>5. used.setups < MaxSetups /\ used' = [used EXCEPT !.setups = @ + 1] => used' \in Counts
  BY <1>1 DEF Counts
<1>6. used.clones < MaxClones /\ used' = [used EXCEPT !.clones = @ + 1] => used' \in Counts
  BY <1>1 DEF Counts
<1> QED
  BY <1>2, <1>3, <1>4, <1>5, <1>6

LEMMA SameHand ==
    ASSUME InHand, OnBase, UNCHANGED <<out, registered, hosted, stash, frec, obf, pin, cmd, marks>>
    PROVE  InHand' /\ OnBase'
<1>1. InHand'
  BY DEF InHand, Alone, OnRecord, OfNames, Unlost, Known
<1>2. OnBase'
  BY DEF OnBase
<1> QED
  BY <1>1, <1>2

LEMMA EditKeeps == ASSUME AndroidInv, Edit \/ Checkout \/ Setup PROVE AndroidInv'
<1>1. tree' \in Trees /\ active' \in Toolchains
  <2>1. CASE Edit
    <3>1. tree \in Trees /\ active \in Toolchains /\ tree.source < MaxSource /\ active' = active
      BY <2>1 DEF Edit, AndroidInv, Typed
    <3>2. PICK v \in {tree.version, tree.version + 1} \cap Versions : tree' = [version |-> v, source |-> tree.source + 1]
      BY <2>1 DEF Edit
    <3>3. v \in Versions /\ tree.source + 1 \in Sources
      BY <3>1, <3>2, AndroidAssumption DEF Trees, Sources
    <3> QED
      BY <3>1, <3>2, <3>3 DEF Trees
  <2>2. CASE Checkout
    <3>1. tree \in Trees /\ tree.version > 1 /\ tree.source < MaxSource
      BY <2>2 DEF Checkout, AndroidInv, Typed
    <3>2. tree.version - 1 \in Versions /\ tree.source + 1 \in Sources
      BY <3>1, AndroidAssumption DEF Trees, Versions, Sources
    <3> QED
      BY <2>2, <3>2 DEF Checkout, Trees, AndroidInv, Typed
  <2>3. CASE Setup
    BY <2>3 DEF AndroidInv, Typed, Setup
  <2> QED
    BY <2>1, <2>2, <2>3
<1>2. UNCHANGED <<out, registered, hosted, last, stash, frec, obf, pin, patches, cmd, marks>>
  BY DEF Edit, Checkout, Setup, server, local
<1>3. used' \in Counts
  BY UsedTyped DEF Edit, Checkout, Setup, AndroidInv
<1>4. InHand' /\ OnBase'
  BY <1>2, SameHand DEF AndroidInv
<1>5. out' \in [Flavors -> Artifact \cup {Nil}] /\ OutOk' /\ cmd' \in Command
  BY <1>2 DEF AndroidInv, Typed, Records, OutOk
<1> QED
  BY <1>1, <1>2, <1>3, <1>4, <1>5, LocalStep

(* A step of the command: the project and its records stay.               *)
LEMMA OwnStep ==
    ASSUME AndroidInv, UNCHANGED <<tree, active, registered, hosted, last, stash, frec, obf, pin, patches, marks>>,
           out' \in [Flavors -> Artifact \cup {Nil}], OutOk', used' \in Counts,
           cmd' \in Command, InHand', OnBase'
    PROVE  AndroidInv'
<1>1. tree' \in Trees /\ active' \in Toolchains
  BY DEF AndroidInv, Typed
<1> QED
  BY <1>1, LocalStep

LEMMA IdleStep ==
    ASSUME AndroidInv, UNCHANGED <<tree, active, out, registered, hosted, last, stash, frec, obf, pin, patches, marks>>,
           used' \in Counts, cmd' = Idle
    PROVE  AndroidInv'
<1>1. out' \in [Flavors -> Artifact \cup {Nil}] /\ OutOk'
  BY DEF AndroidInv, Typed, Records, OutOk
<1> QED
  BY <1>1, IdleFits, OwnStep

LEMMA KillKeeps == ASSUME AndroidInv, Kill PROVE AndroidInv'
<1>1. used' \in Counts
  BY UsedTyped DEF Kill, AndroidInv
<1> QED
  BY <1>1, IdleStep DEF Kill, project, server, local

(* An artifact that a build writes.                                        *)
LEMMA BuiltIs ==
    ASSUME Typed, NEW f \in Flavors, NEW t \in Toolchains, NEW n \in Names
    PROVE  Built(f, t, n) \in Artifact /\ Built(f, t, n).flavor = f /\ Built(f, t, n).toolchain = t /\ Built(f, t, n).names = n
BY DEF Typed, Built, Artifact, Trees

LEMMA OutTyped ==
    ASSUME AndroidInv, NEW f \in Flavors, NEW a \in Artifact, a.flavor = f, out' = [out EXCEPT ![f] = a]
    PROVE  out' \in [Flavors -> Artifact \cup {Nil}] /\ OutOk' /\ out'[f] = a
BY DEF AndroidInv, Typed, Records, OutOk

-----------------------------------------------------------------------------
(* The release command up to its registration. *)

LEMMA StartReleaseKeeps == ASSUME AndroidInv, StartRelease PROVE AndroidInv'
<1>1. used' \in Counts /\ UNCHANGED <<tree, active, out, registered, hosted, last, stash, frec, obf, pin, patches, marks>>
  BY UsedTyped DEF StartRelease, AndroidInv, project, server, local
<1>2. PICK f \in Flavors, b \in BOOLEAN, o \in BOOLEAN :
          /\ b \/ (~o /\ out[f] # Nil)
          /\ cmd' = [Idle EXCEPT !.at = IF b THEN "preflight" ELSE "inspect",
                        !.flavor = f, !.obfuscate = o, !.builds = b, !.toolchain = active]
  BY DEF StartRelease
<1>3. active \in Toolchains /\ out \in [Flavors -> Artifact \cup {Nil}]
  BY DEF AndroidInv, Typed
<1>4. /\ cmd'.at = IF b THEN "preflight" ELSE "inspect"
      /\ cmd'.flavor = f /\ (cmd'.obfuscate <=> o) /\ (cmd'.builds <=> b) /\ cmd'.toolchain = active
      /\ cmd'.map = 0 /\ ~cmd'.fresh /\ cmd'.id = Nil /\ cmd'.path = Nil
  BY <1>2 DEF Idle
<1>5. cmd' \in Command
  BY <1>2, <1>3, NilIsNone DEF Idle, Command, Steps
<1>6. InHand'
  BY <1>3, <1>4 DEF InHand, Releasing
<1>7. OnBase'
  BY <1>4 DEF OnBase, Patching
<1>8. out' \in [Flavors -> Artifact \cup {Nil}] /\ OutOk'
  BY <1>1 DEF AndroidInv, Typed, Records, OutOk
<1> QED
  BY <1>1, <1>5, <1>6, <1>7, <1>8, OwnStep

LEMMA PreflightKeeps == ASSUME AndroidInv, Preflight PROVE AndroidInv'
<1>1. used' \in Counts /\ UNCHANGED <<tree, active, out, registered, hosted, last, stash, frec, obf, pin, patches, marks>>
  BY UsedTyped DEF Preflight, AndroidInv, project, server, local
<1>2. cmd.at = "preflight" /\ (cmd' = Idle \/ cmd' = [cmd EXCEPT !.at = "build"])
  BY DEF Preflight, Goto, Fail
<1>3. cmd \in Command /\ InHand
  BY DEF AndroidInv, Typed
<1>4. CASE cmd' = Idle
  BY <1>1, <1>4, IdleStep
<1>5. CASE cmd' = [cmd EXCEPT !.at = "build"]
  <2>1. cmd' \in Command /\ cmd'.at = "build" /\ cmd'.toolchain = cmd.toolchain /\ cmd'.builds = cmd.builds /\ cmd'.fresh = cmd.fresh
    BY <1>3, <1>5 DEF Command, Steps
  <2>2. InHand'
    BY <1>2, <1>3, <2>1 DEF InHand, Releasing
  <2>3. OnBase'
    BY <2>1 DEF OnBase, Patching
  <2>4. out' \in [Flavors -> Artifact \cup {Nil}] /\ OutOk'
    BY <1>1 DEF AndroidInv, Typed, Records, OutOk
  <2> QED
    BY <1>1, <2>1, <2>2, <2>3, <2>4, OwnStep
<1> QED
  BY <1>2, <1>4, <1>5

LEMMA BuildKeeps == ASSUME AndroidInv, Build PROVE AndroidInv'
<1> DEFINE names == IF cmd.obfuscate THEN tree.source ELSE 0
           f == cmd.flavor
<1>1. /\ used' \in Counts /\ cmd.at = "build"
      /\ UNCHANGED <<tree, active, registered, hosted, last, stash, frec, obf, pin, patches, marks>>
  BY UsedTyped DEF Build, AndroidInv, project, server, local
<1>2. \/ /\ out' = [out EXCEPT ![f] = Built(f, cmd.toolchain, names)]
         /\ cmd' = [cmd EXCEPT !.at = "inspect", !.map = names, !.fresh = TRUE]
      \/ cmd' = [cmd EXCEPT !.at = "inspect", !.map = names] /\ out' = out
  BY DEF Build
<1>3. cmd \in Command /\ InHand /\ tree \in Trees
  BY DEF AndroidInv, Typed
<1>4. cmd.toolchain \in Toolchains /\ f \in Flavors /\ names \in Names
  BY <1>1, <1>3, NilIsNone DEF InHand, Command, Trees
<1>5. ~cmd.obfuscate => names = 0
  OBVIOUS
<1>6. CASE /\ out' = [out EXCEPT ![f] = Built(f, cmd.toolchain, names)]
           /\ cmd' = [cmd EXCEPT !.at = "inspect", !.map = names, !.fresh = TRUE]
  <2>1. /\ cmd' \in Command /\ cmd'.at = "inspect" /\ cmd'.toolchain = cmd.toolchain /\ cmd'.map = names
        /\ cmd'.flavor = f /\ cmd'.obfuscate = cmd.obfuscate
    BY <1>3, <1>4, <1>6 DEF Command, Steps
  <2> DEFINE a == Built(f, cmd.toolchain, names)
  <2>2. a \in Artifact /\ a.flavor = f /\ a.toolchain = cmd.toolchain /\ a.names = names
    BY <1>4, BuiltIs DEF AndroidInv
  <2>3. out' = [out EXCEPT ![f] = a]
    BY <1>6
  <2> HIDE DEF a
  <2>4. out' \in [Flavors -> Artifact \cup {Nil}] /\ OutOk' /\ out'[f] = a
    BY <1>4, <2>2, <2>3, OutTyped
  <2>5. InHand'
    BY <1>4, <1>5, <2>1, <2>2, <2>4, NilIsNone DEF InHand, Releasing
  <2>6. OnBase'
    BY <2>1 DEF OnBase, Patching
  <2> QED
    BY <1>1, <2>1, <2>4, <2>5, <2>6, OwnStep
<1>7. CASE cmd' = [cmd EXCEPT !.at = "inspect", !.map = names] /\ out' = out
  <2>1. ~cmd.fresh
    BY <1>1 DEF AndroidInv, InHand
  <2>2. /\ cmd' \in Command /\ cmd'.at = "inspect" /\ cmd'.toolchain = cmd.toolchain /\ cmd'.map = names
        /\ cmd'.flavor = f /\ cmd'.obfuscate = cmd.obfuscate /\ ~cmd'.fresh
    BY <1>3, <1>4, <1>7, <2>1 DEF Command, Steps
  <2>3. InHand'
    BY <1>4, <1>5, <2>2 DEF InHand, Releasing
  <2>4. OnBase'
    BY <2>2 DEF OnBase, Patching
  <2>5. out' \in [Flavors -> Artifact \cup {Nil}] /\ OutOk'
    BY <1>7 DEF AndroidInv, Typed, Records, OutOk
  <2> QED
    BY <1>1, <2>2, <2>3, <2>4, <2>5, OwnStep
<1> QED
  BY <1>2, <1>6, <1>7

(* The guard leaves no release of the same runtime id on record.           *)
LEMMA GuardSaysAlone ==
    ASSUME Typed, Records, NEW id \in Ids, CollisionGuard(id, id.version, id.flavor)
    PROVE  Alone(id)
<1> SUFFICES ASSUME NEW r \in Range(registered), r # id, r.version = id.version, OnRecord(r) PROVE FALSE
  BY DEF Alone
<1>1. r \in Ids /\ r.flavor # id.flavor
  BY RangeTyped DEF Ids
<1>2. KnownFlavor(r) = r.flavor /\ r.flavor # Nil
  BY <1>1, KnownIs, NilIsNone DEF Ids
<1>3. Collides(id, id.version, id.flavor)
  BY <1>1, <1>2 DEF Collides
<1>4. id.flavor = None /\ ~AnyFlavored
  BY <1>3 DEF CollisionGuard
<1>5. r.flavor \in Named
  BY <1>1, <1>4 DEF Ids, Flavors
<1>6. AnyFlavored
  BY <1>1, <1>5 DEF AnyFlavored, OnRecord, Records, FrecOk, PinOk
<1> QED
  BY <1>4, <1>6

LEMMA NotPatching == ASSUME cmd'.at \in Releasing PROVE OnBase'
BY DEF OnBase, Releasing, Patching

LEMMA InspectKeeps == ASSUME AndroidInv, Inspect PROVE AndroidInv'
<1> DEFINE f == cmd.flavor
           id == [version |-> tree.version, flavor |-> f]
<1>1. /\ used' \in Counts /\ cmd.at = "inspect"
      /\ UNCHANGED <<tree, active, out, registered, hosted, last, stash, frec, obf, pin, patches, marks>>
  BY UsedTyped DEF Inspect, AndroidInv, project, server, local
<1>2. \/ /\ StaleGuard(f) /\ MatchesProject(out[f]) /\ CollisionGuard(id, out[f].version, f)
         /\ cmd' = [cmd EXCEPT !.id = id, !.at = IF cmd.builds /\ cmd.obfuscate THEN "map" ELSE "create"]
      \/ cmd' = Idle
  BY DEF Inspect, Fail
<1>3. cmd \in Command /\ InHand /\ tree \in Trees /\ Typed /\ Records
  BY DEF AndroidInv, Typed
<1>4. CASE cmd' = Idle
  BY <1>1, <1>4, IdleStep
<1>5. CASE /\ StaleGuard(f) /\ MatchesProject(out[f]) /\ CollisionGuard(id, out[f].version, f)
           /\ cmd' = [cmd EXCEPT !.id = id, !.at = IF cmd.builds /\ cmd.obfuscate THEN "map" ELSE "create"]
  <2>1. id \in Ids /\ id.flavor = f /\ id.version = tree.version
    BY <1>3 DEF Trees, Ids, Command
  <2>2. CollisionGuard(id, id.version, id.flavor)
    BY <1>5, <2>1 DEF MatchesProject
  <2>3. PICK i \in Ids : i = id /\ i.flavor = f
    BY <2>1
  <2>4. CollisionGuard(i, i.version, i.flavor)
    BY <2>2, <2>3
  <2>5. cmd' = [cmd EXCEPT !.id = i, !.at = IF cmd.builds /\ cmd.obfuscate THEN "map" ELSE "create"]
    BY <1>5, <2>3
  <2> HIDE DEF id
  <2>6. Alone(i)
    BY <1>3, <2>4, GuardSaysAlone
  <2>7. Alone(i)'
    BY <1>1, <2>6 DEF Alone, OnRecord
  <2>8. /\ cmd'.id = i /\ cmd'.flavor = f /\ cmd'.builds = cmd.builds /\ cmd'.map = cmd.map
        /\ cmd'.toolchain = cmd.toolchain /\ cmd'.obfuscate = cmd.obfuscate
        /\ cmd'.at = IF cmd.builds /\ cmd.obfuscate THEN "map" ELSE "create"
    BY <1>3, <2>5 DEF Command
  <2>9. cmd' \in Command
    BY <1>3, <2>5, ZenonT(30) DEF Command, Steps, Releasing
  <2>10. out[f] # Nil /\ (cmd.builds => out[f].toolchain = cmd.toolchain /\ out[f].names = cmd.map)
    BY <1>1, <1>3, <1>5 DEF StaleGuard, InHand
  <2>11. (~cmd.obfuscate => cmd.map = 0) /\ cmd.toolchain \in Toolchains
    BY <1>1, <1>3 DEF InHand
  <2>12. InHand'
    <3>1. cmd'.at \in Releasing /\ cmd'.at \in {"map", "create"} /\ (cmd'.at = "map" => cmd'.builds)
      BY <2>8 DEF Releasing
    <3>2. cmd'.at = "create" /\ cmd'.builds => cmd'.map = 0
      <4>1. CASE cmd.builds /\ cmd.obfuscate
        BY <2>8, <4>1
      <4>2. CASE ~cmd.builds
        BY <2>8, <4>2
      <4>3. CASE ~cmd.obfuscate
        BY <2>8, <2>11, <4>3
      <4> QED
        BY <4>1, <4>2, <4>3
    <3>3. Alone(cmd.id)'
      BY <2>7, <2>8
    <3>4. cmd'.id \in Ids /\ cmd'.id.flavor = cmd'.flavor /\ cmd'.toolchain \in Toolchains
      BY <2>3, <2>8, <2>11
    <3>5. out'[cmd'.flavor] # Nil /\ (cmd'.builds => out'[cmd'.flavor].toolchain = cmd'.toolchain /\ out'[cmd'.flavor].names = cmd'.map)
      BY <1>1, <2>8, <2>10
    <3>6. cmd'.at \notin {"preflight", "build", "inspect", "record", "upload", "stash", "flavor", "state", "pin", "pinFlavor"}
      BY <3>1
    <3> QED
      BY <3>1, <3>2, <3>3, <3>4, <3>5, <3>6 DEF InHand
  <2>13. OnBase'
    BY <2>8, NotPatching DEF Releasing
  <2>14. out' \in [Flavors -> Artifact \cup {Nil}] /\ OutOk'
    BY <1>1 DEF AndroidInv, Typed, Records, OutOk
  <2> QED
    BY <1>1, <2>9, <2>12, <2>13, <2>14, OwnStep
<1> QED
  BY <1>2, <1>4, <1>5

-----------------------------------------------------------------------------
(* The release command from its registration on. *)

(* What such a step has in hand, and goes on with.                         *)
LEMMA Has ==
    ASSUME AndroidInv, cmd.at \in Releasing
    PROVE  /\ cmd \in Command /\ cmd.id \in Ids /\ cmd.id.flavor = cmd.flavor /\ cmd.toolchain \in Toolchains
           /\ out[cmd.flavor] # Nil /\ out[cmd.flavor] \in Artifact /\ out[cmd.flavor].flavor = cmd.flavor
           /\ Alone(cmd.id)
           /\ cmd.builds => out[cmd.flavor].toolchain = cmd.toolchain /\ out[cmd.flavor].names = cmd.map
           /\ cmd.map \in Names /\ cmd.flavor \in Flavors
<1>1. cmd \in Command /\ cmd.flavor \in Flavors /\ cmd.map \in Names
  BY DEF AndroidInv, Typed, Command
<1>2. /\ cmd.id \in Ids /\ cmd.id.flavor = cmd.flavor /\ cmd.toolchain \in Toolchains /\ out[cmd.flavor] # Nil
      /\ Alone(cmd.id)
      /\ cmd.builds => out[cmd.flavor].toolchain = cmd.toolchain /\ out[cmd.flavor].names = cmd.map
  BY DEF AndroidInv, InHand
<1>3. out[cmd.flavor] \in Artifact /\ out[cmd.flavor].flavor = cmd.flavor
  BY <1>1, <1>2 DEF AndroidInv, Typed, Records, OutOk
<1> QED
  BY <1>1, <1>2, <1>3

LEMMA GoesOn ==
    ASSUME cmd \in Command, NEW s \in Steps, cmd' = [cmd EXCEPT !.at = s]
    PROVE  /\ cmd' \in Command /\ cmd'.at = s /\ cmd'.id = cmd.id /\ cmd'.flavor = cmd.flavor /\ cmd'.map = cmd.map
           /\ cmd'.toolchain = cmd.toolchain /\ cmd'.builds = cmd.builds /\ cmd'.obfuscate = cmd.obfuscate
           /\ cmd'.path = cmd.path /\ cmd'.early = cmd.early /\ cmd'.known = cmd.known /\ cmd'.pinned = cmd.pinned
           /\ cmd'.fresh = cmd.fresh
BY DEF Command

LEMMA CommitMapKeeps == ASSUME AndroidInv, CommitMap PROVE AndroidInv'
<1> DEFINE id == cmd.id
<1>1. /\ cmd.at = "map" /\ obf' = [obf EXCEPT ![id].map = cmd.map] /\ cmd' = [cmd EXCEPT !.at = "record"]
      /\ marks' = IF Known(id) /\ obf'[id] # obf[id] THEN marks \cup {"overwritten"} ELSE marks
      /\ UNCHANGED <<tree, active, out, registered, hosted, last, stash, frec, pin, patches, used>>
  BY DEF CommitMap, Goto, project, server
<1>2. cmd.at \in Releasing /\ cmd.builds
  BY <1>1 DEF Releasing, AndroidInv, InHand
<1>3. /\ cmd \in Command /\ id \in Ids /\ id.flavor = cmd.flavor /\ cmd.toolchain \in Toolchains
      /\ out[cmd.flavor] # Nil /\ Alone(id) /\ cmd.map \in Names
      /\ out[cmd.flavor].toolchain = cmd.toolchain /\ out[cmd.flavor].names = cmd.map
  BY <1>2, Has
<1>4. /\ cmd' \in Command /\ cmd'.at = "record" /\ cmd'.id = id /\ cmd'.flavor = cmd.flavor /\ cmd'.map = cmd.map
      /\ cmd'.toolchain = cmd.toolchain /\ cmd'.builds = cmd.builds /\ cmd'.obfuscate = cmd.obfuscate
  BY <1>1, <1>3, GoesOn DEF Steps, Releasing
<1>5. /\ obf' \in [Ids -> [map : Names, record : Names]] /\ obf'[id].map = cmd.map
      /\ \A i \in Ids \ {id} : obf'[i] = obf[i]
  BY <1>1, <1>3 DEF AndroidInv, Typed
<1>6. Typed'
  BY <1>1, <1>4, <1>5 DEF AndroidInv, Typed
<1>7. marks \subseteq marks' /\ ("mixed" \in marks' <=> "mixed" \in marks)
  BY <1>1
<1>8. Records'
  BY <1>1, <1>7 DEF AndroidInv, Records, OutOk, HostedOk, StashOk, FrecOk, LastOk, PinOk, Known
<1>9. NamesOk'
  <2> SUFFICES ASSUME NEW i \in Ids, hosted[i] # Nil PROVE OfNames(i, hosted[i].names)'
    BY <1>1 DEF NamesOk
  <2>1. OfNames(i, hosted[i].names) /\ Known(i)
    BY DEF AndroidInv, NamesOk, Records, HostedOk
  <2>2. CASE obf'[i] = obf[i]
    BY <1>1, <1>7, <2>1, <2>2 DEF OfNames, Unlost
  <2>3. CASE obf'[i] # obf[i]
    <3>1. "overwritten" \in marks'
      BY <1>1, <1>5, <2>1, <2>3
    <3> QED
      BY <3>1 DEF OfNames, Unlost
  <2> QED
    BY <2>2, <2>3
<1>10. Apart' /\ Alone(id)'
  BY <1>1, <1>3 DEF AndroidInv, Apart, Alone, OnRecord
<1>11. InHand'
  BY <1>1, <1>2, <1>3, <1>4, <1>5, <1>10 DEF InHand, Releasing
<1>12. OnBase'
  BY <1>4, NotPatching DEF Releasing
<1>13. \A p \in patches' : Made(p)'
  BY <1>1 DEF AndroidInv, Made
<1> QED
  BY <1>6, <1>8, <1>9, <1>10, <1>11, <1>12, <1>13 DEF AndroidInv

LEMMA CommitRecordKeeps == ASSUME AndroidInv, CommitRecord PROVE AndroidInv'
<1> DEFINE id == cmd.id
<1>1. /\ cmd.at = "record" /\ obf' = [obf EXCEPT ![id].record = cmd.map] /\ cmd' = [cmd EXCEPT !.at = "create"]
      /\ UNCHANGED <<tree, active, out, registered, hosted, last, stash, frec, pin, patches, marks, used>>
  BY DEF CommitRecord, Goto, project, server
<1>2. cmd.at \in Releasing /\ cmd.builds /\ obf[id].map = cmd.map
  BY <1>1 DEF Releasing, AndroidInv, InHand
<1>3. /\ cmd \in Command /\ id \in Ids /\ id.flavor = cmd.flavor /\ cmd.toolchain \in Toolchains
      /\ out[cmd.flavor] # Nil /\ Alone(id) /\ cmd.map \in Names
      /\ out[cmd.flavor].toolchain = cmd.toolchain /\ out[cmd.flavor].names = cmd.map
  BY <1>2, Has
<1>4. /\ cmd' \in Command /\ cmd'.at = "create" /\ cmd'.id = id /\ cmd'.flavor = cmd.flavor /\ cmd'.map = cmd.map
      /\ cmd'.toolchain = cmd.toolchain /\ cmd'.builds = cmd.builds /\ cmd'.obfuscate = cmd.obfuscate
  BY <1>1, <1>3, GoesOn DEF Steps, Releasing
<1>5. /\ obf' \in [Ids -> [map : Names, record : Names]] /\ obf'[id].map = cmd.map /\ obf'[id].record = cmd.map
      /\ \A i \in Ids \ {id} : obf'[i] = obf[i]
  BY <1>1, <1>2, <1>3 DEF AndroidInv, Typed
<1>6. Typed'
  BY <1>1, <1>4, <1>5 DEF AndroidInv, Typed
<1>8. Records'
  BY <1>1 DEF AndroidInv, Records, OutOk, HostedOk, StashOk, FrecOk, LastOk, PinOk, Known
<1>9. NamesOk'
  <2> SUFFICES ASSUME NEW i \in Ids, hosted[i] # Nil PROVE OfNames(i, hosted[i].names)'
    BY <1>1 DEF NamesOk
  <2>1. OfNames(i, hosted[i].names)
    BY DEF AndroidInv, NamesOk
  <2> QED
    BY <1>1, <1>2, <1>5, <2>1 DEF OfNames, Unlost
<1>10. Apart' /\ Alone(id)'
  BY <1>1, <1>3 DEF AndroidInv, Apart, Alone, OnRecord
<1>11. InHand'
  BY <1>1, <1>2, <1>3, <1>4, <1>5, <1>10 DEF InHand, Releasing
<1>12. OnBase'
  BY <1>4, NotPatching DEF Releasing
<1>13. \A p \in patches' : Made(p)'
  BY <1>1 DEF AndroidInv, Made
<1> QED
  BY <1>6, <1>8, <1>9, <1>10, <1>11, <1>12, <1>13 DEF AndroidInv

LEMMA CreateKeeps == ASSUME AndroidInv, Create PROVE AndroidInv'
<1> DEFINE id == cmd.id
           a == out[cmd.flavor]
<1>1. /\ cmd.at = "create" /\ cmd' = [cmd EXCEPT !.at = "upload"]
      /\ registered' = IF Known(id) THEN registered ELSE Append(registered, id)
      /\ marks' = marks \cup UNION {
             IF ~cmd.builds /\ a.names # 0 THEN {"unrecorded"} ELSE {},
             IF a.names = 0 /\ obf[id] # NoNames THEN {"leftover"} ELSE {}}
      /\ UNCHANGED <<tree, active, out, hosted, patches, last, stash, frec, obf, pin, used>>
  BY DEF Create, Goto, project, local
<1>2. cmd.at \in Releasing
  BY <1>1 DEF Releasing
<1>3. /\ cmd \in Command /\ id \in Ids /\ id.flavor = cmd.flavor /\ cmd.toolchain \in Toolchains
      /\ a # Nil /\ a \in Artifact /\ Alone(id)
      /\ cmd.builds => a.toolchain = cmd.toolchain /\ a.names = cmd.map
  BY <1>2, Has
<1>4. /\ cmd' \in Command /\ cmd'.at = "upload" /\ cmd'.id = id /\ cmd'.flavor = cmd.flavor /\ cmd'.map = cmd.map
      /\ cmd'.toolchain = cmd.toolchain /\ cmd'.builds = cmd.builds /\ cmd'.obfuscate = cmd.obfuscate
  BY <1>1, <1>3, GoesOn DEF Steps, Releasing
<1>5. registered' \in Seq(Ids) /\ Range(registered') = Range(registered) \cup {id}
  <2>1. registered \in Seq(Ids)
    BY DEF AndroidInv, Typed
  <2>2. CASE Known(id)
    BY <1>1, <2>1, <2>2 DEF Known
  <2>3. CASE ~Known(id)
    <3>1. registered' = Append(registered, id) /\ registered' \in Seq(Ids)
      BY <1>1, <1>3, <2>1, <2>3
    <3>2. /\ Len(registered) \in Nat /\ DOMAIN registered = 1..Len(registered)
          /\ DOMAIN registered' = 1..(Len(registered) + 1)
          /\ registered'[Len(registered) + 1] = id
          /\ \A n \in DOMAIN registered : registered'[n] = registered[n]
      BY <1>3, <2>1, <3>1
    <3>3. DOMAIN registered' = DOMAIN registered \cup {Len(registered) + 1}
      BY <3>2
    <3> QED
      BY <3>1, <3>2, <3>3 DEF Range
  <2> QED
    BY <2>2, <2>3
<1>6. Typed'
  BY <1>1, <1>4, <1>5 DEF AndroidInv, Typed
<1>7. marks \subseteq marks' /\ ("mixed" \in marks' <=> "mixed" \in marks)
  BY <1>1
<1>8. Records'
  <2>1. \A i : Known(i) => Known(i)'
    BY <1>5 DEF Known
  <2> QED
    BY <1>1, <1>7, <2>1 DEF AndroidInv, Records, OutOk, HostedOk, StashOk, FrecOk, LastOk, PinOk
<1>9. NamesOk'
  BY <1>1, <1>7 DEF AndroidInv, NamesOk, OfNames, Unlost
<1>10. Apart'
  <2> SUFFICES ASSUME NEW r \in Range(registered'), NEW q \in Range(registered'), r # q, r.version = q.version
               PROVE  ~OnRecord(r) \/ ~OnRecord(q)
    BY <1>1 DEF Apart, OnRecord
  <2>1. CASE r = id
    BY <1>3, <1>5, <2>1 DEF Alone
  <2>2. CASE q = id
    BY <1>3, <1>5, <2>2 DEF Alone
  <2>3. CASE r # id /\ q # id
    BY <1>5, <2>3 DEF AndroidInv, Apart
  <2> QED
    BY <2>1, <2>2, <2>3
<1>11. Alone(cmd.id)' /\ Known(cmd.id)'
  <2>1. Known(cmd.id)'
    BY <1>4, <1>5 DEF Known
  <2>2. Alone(cmd.id)'
    BY <1>1, <1>3, <1>4, <1>5 DEF Alone, OnRecord
  <2> QED
    BY <2>1, <2>2
<1>12. OfNames(cmd.id, out[cmd.flavor].names)'
  <2>1. Unlost' /\ a.names # 0 => obf[id].map = a.names /\ obf[id].record = a.names
    <3> SUFFICES ASSUME Unlost', a.names # 0 PROVE obf[id].map = a.names /\ obf[id].record = a.names
      OBVIOUS
    <3>1. "unrecorded" \notin marks'
      BY DEF Unlost
    <3>2. cmd.builds
      BY <1>1, <3>1
    <3>3. cmd.map # 0 /\ a.names = cmd.map
      BY <1>3, <3>2
    <3> QED
      BY <1>1, <3>2, <3>3 DEF AndroidInv, InHand
  <2>2. marks' = {} /\ a.names = 0 => obf[id].map = 0 /\ obf[id].record = 0
    <3> SUFFICES ASSUME marks' = {}, a.names = 0 PROVE obf[id] = NoNames
      BY DEF NoNames
    <3> QED
      BY <1>1
  <2> HIDE DEF id, a
  <2>3. OfNames(cmd.id, out[cmd.flavor].names)' <=>
           /\ Unlost' /\ out'[cmd'.flavor].names # 0 => obf'[cmd'.id].map = out'[cmd'.flavor].names /\ obf'[cmd'.id].record = out'[cmd'.flavor].names
           /\ marks' = {} /\ out'[cmd'.flavor].names = 0 => obf'[cmd'.id].map = 0 /\ obf'[cmd'.id].record = 0
    BY DEF OfNames
  <2>4. out'[cmd'.flavor] = a /\ obf'[cmd'.id] = obf[id]
    BY <1>1, <1>4 DEF a, id
  <2> QED
    BY <2>1, <2>2, <2>3, <2>4
<1>13. InHand'
  BY <1>1, <1>3, <1>4, <1>11, <1>12 DEF InHand, Releasing
<1>14. OnBase'
  BY <1>4, NotPatching DEF Releasing
<1>15. \A p \in patches' : Made(p)'
  BY <1>1 DEF AndroidInv, Made
<1> QED
  BY <1>6, <1>8, <1>9, <1>10, <1>13, <1>14, <1>15 DEF AndroidInv

LEMMA UploadKeeps == ASSUME AndroidInv, Upload PROVE AndroidInv'
<1> DEFINE id == cmd.id
           a == out[cmd.flavor]
<1>1. /\ cmd.at = "upload"
      /\ UNCHANGED <<tree, active, out, registered, patches, last, stash, frec, obf, pin, marks, used>>
      /\ \/ hosted[id] \in {Nil, a} /\ hosted' = [hosted EXCEPT ![id] = a] /\ cmd' = [cmd EXCEPT !.at = "stash"]
         \/ hosted' = hosted /\ cmd' = Idle
  BY DEF Upload, Goto, Fail, project, local
<1>2. cmd.at \in Releasing
  BY <1>1 DEF Releasing
<1>3. /\ cmd \in Command /\ id \in Ids /\ id.flavor = cmd.flavor /\ cmd.toolchain \in Toolchains
      /\ a # Nil /\ a \in Artifact /\ a.flavor = id.flavor /\ Alone(id)
      /\ cmd.builds => a.toolchain = cmd.toolchain /\ a.names = cmd.map
  BY <1>2, Has
<1>4. CASE hosted' = hosted /\ cmd' = Idle
  <2>1. used' \in Counts
    BY <1>1 DEF AndroidInv, Typed
  <2> QED
    BY <1>1, <1>4, <2>1, IdleStep
<1>5. CASE hosted[id] \in {Nil, a} /\ hosted' = [hosted EXCEPT ![id] = a] /\ cmd' = [cmd EXCEPT !.at = "stash"]
  <2>1. /\ cmd' \in Command /\ cmd'.at = "stash" /\ cmd'.id = id /\ cmd'.flavor = cmd.flavor /\ cmd'.map = cmd.map
        /\ cmd'.toolchain = cmd.toolchain /\ cmd'.builds = cmd.builds /\ cmd'.obfuscate = cmd.obfuscate
    BY <1>3, <1>5, GoesOn DEF Steps, Releasing
  <2>2. hosted \in [Ids -> Artifact \cup {Nil}] /\ Known(id) /\ OfNames(id, a.names)
    BY <1>1 DEF AndroidInv, Typed, InHand
  <2> HIDE DEF id, a
  <2>3. hosted' \in [Ids -> Artifact \cup {Nil}] /\ hosted'[id] = a /\ \A i \in Ids \ {id} : hosted'[i] = hosted[i]
    BY <1>3, <1>5, <2>2
  <2>4. \A i \in Ids : hosted[i] # Nil => hosted'[i] = hosted[i]
    BY <1>5, <2>3
  <2>5. Typed'
    BY <1>1, <2>1, <2>3 DEF AndroidInv, Typed
  <2>6. HostedOk'
    BY <1>1, <1>3, <2>2, <2>3 DEF AndroidInv, Records, HostedOk, Known
  <2>7. StashOk'
    <3> SUFFICES ASSUME NEW i \in Ids, stash[i] # Nil, "mixed" \notin marks PROVE hosted'[i] = stash[i]
      BY <1>1 DEF StashOk
    <3>1. stash[i] = hosted[i]
      BY DEF AndroidInv, Records, StashOk
    <3> QED
      BY <2>4, <3>1
  <2>8. PinOk'
    <3>1. \A k \in LockKeys : pin[k] # Nil => pin[k].id \in Ids
      BY DEF AndroidInv, Typed, Pins
    <3> QED
      BY <1>1, <2>4, <3>1 DEF AndroidInv, Records, PinOk, Known
  <2>9. OutOk' /\ FrecOk' /\ LastOk'
    BY <1>1 DEF AndroidInv, Records, OutOk, FrecOk, LastOk, Known
  <2>10. NamesOk'
    BY <1>1, <2>2, <2>3 DEF AndroidInv, NamesOk, OfNames, Unlost
  <2>11. Apart' /\ Alone(cmd.id)' /\ Known(cmd.id)'
    BY <1>1, <1>3, <2>1, <2>2 DEF AndroidInv, Apart, Alone, OnRecord, Known
  <2>12. out'[cmd'.flavor] = a
    BY <1>1, <2>1 DEF a
  <2>13. InHand'
    BY <1>3, <2>1, <2>3, <2>11, <2>12 DEF InHand, Releasing
  <2>14. OnBase'
    BY <2>1, NotPatching DEF Releasing
  <2>15. \A p \in patches' : Made(p)'
    <3> SUFFICES ASSUME NEW p \in patches PROVE Made(p)'
      BY <1>1
    <3>1. Made(p)
      BY DEF AndroidInv
    <3>2. p.id \in Ids
      BY <3>1 DEF Made
    <3>3. CASE hosted[p.id] # Nil
      <4>1. hosted'[p.id] = hosted[p.id]
        BY <2>4, <3>2, <3>3
      <4> QED
        BY <3>1, <4>1 DEF Made
    <3>4. CASE hosted[p.id] = Nil
      BY <3>1, <3>4 DEF Made
    <3> QED
      BY <3>3, <3>4
  <2> QED
    BY <2>5, <2>6, <2>7, <2>8, <2>9, <2>10, <2>11, <2>13, <2>14, <2>15 DEF AndroidInv, Records
<1> QED
  BY <1>1, <1>4, <1>5

LEMMA StashKeeps == ASSUME AndroidInv, Stash PROVE AndroidInv'
<1> DEFINE id == cmd.id
           a == out[cmd.flavor]
<1>1. /\ cmd.at = "stash" /\ stash' = [stash EXCEPT ![id] = a] /\ cmd' = [cmd EXCEPT !.at = "flavor"]
      /\ UNCHANGED <<tree, active, out, registered, hosted, patches, last, frec, obf, pin, marks, used>>
  BY DEF Stash, Goto, project, server
<1>2. cmd.at \in Releasing
  BY <1>1 DEF Releasing
<1>3. /\ cmd \in Command /\ id \in Ids /\ id.flavor = cmd.flavor /\ cmd.toolchain \in Toolchains
      /\ a # Nil /\ a \in Artifact /\ Alone(id)
      /\ cmd.builds => a.toolchain = cmd.toolchain /\ a.names = cmd.map
  BY <1>2, Has
<1>4. Known(id) /\ hosted[id] = a /\ stash \in [Ids -> Artifact \cup {Nil}]
  BY <1>1 DEF AndroidInv, InHand, Typed
<1>5. /\ cmd' \in Command /\ cmd'.at = "flavor" /\ cmd'.id = id /\ cmd'.flavor = cmd.flavor /\ cmd'.map = cmd.map
      /\ cmd'.toolchain = cmd.toolchain /\ cmd'.builds = cmd.builds /\ cmd'.obfuscate = cmd.obfuscate
  BY <1>1, <1>3, GoesOn DEF Steps, Releasing
<1> HIDE DEF id, a
<1>6. stash' \in [Ids -> Artifact \cup {Nil}] /\ \A i \in Ids : stash'[i] = IF i = id THEN a ELSE stash[i]
  BY <1>1, <1>3, <1>4
<1>7. Typed'
  BY <1>1, <1>5, <1>6 DEF AndroidInv, Typed
<1>8. StashOk'
  BY <1>1, <1>4, <1>6 DEF AndroidInv, Records, StashOk
<1>9. OutOk' /\ HostedOk' /\ FrecOk' /\ LastOk' /\ PinOk'
  BY <1>1 DEF AndroidInv, Records, OutOk, HostedOk, FrecOk, LastOk, PinOk, Known
<1>10. NamesOk'
  BY <1>1 DEF AndroidInv, NamesOk, OfNames, Unlost
<1>11. Apart' /\ Alone(cmd.id)' /\ Known(cmd.id)' /\ out'[cmd'.flavor] = a
  BY <1>1, <1>3, <1>4, <1>5 DEF AndroidInv, Apart, Alone, OnRecord, Known, a
<1>12. InHand'
  BY <1>1, <1>3, <1>4, <1>5, <1>11 DEF InHand, Releasing
<1>13. OnBase'
  BY <1>5, NotPatching DEF Releasing
<1>14. \A p \in patches' : Made(p)'
  BY <1>1 DEF AndroidInv, Made
<1> QED
  BY <1>7, <1>8, <1>9, <1>10, <1>11, <1>12, <1>13, <1>14 DEF AndroidInv, Records

LEMMA RecordFlavorKeeps == ASSUME AndroidInv, RecordFlavor PROVE AndroidInv'
<1> DEFINE id == cmd.id
           a == out[cmd.flavor]
<1>1. /\ cmd.at = "flavor" /\ frec' = [frec EXCEPT ![id] = cmd.flavor] /\ cmd' = [cmd EXCEPT !.at = "state"]
      /\ UNCHANGED <<tree, active, out, registered, hosted, patches, last, stash, obf, pin, marks, used>>
  BY DEF RecordFlavor, Goto, project, server
<1>2. cmd.at \in Releasing
  BY <1>1 DEF Releasing
<1>3. /\ cmd \in Command /\ id \in Ids /\ id.flavor = cmd.flavor /\ cmd.toolchain \in Toolchains
      /\ a # Nil /\ a \in Artifact /\ Alone(id) /\ cmd.flavor \in Flavors
      /\ cmd.builds => a.toolchain = cmd.toolchain /\ a.names = cmd.map
  BY <1>2, Has
<1>4. Known(id) /\ hosted[id] = a /\ frec \in [Ids -> Flavors \cup {Nil}]
  BY <1>1 DEF AndroidInv, InHand, Typed
<1>5. /\ cmd' \in Command /\ cmd'.at = "state" /\ cmd'.id = id /\ cmd'.flavor = cmd.flavor /\ cmd'.map = cmd.map
      /\ cmd'.toolchain = cmd.toolchain /\ cmd'.builds = cmd.builds /\ cmd'.obfuscate = cmd.obfuscate
  BY <1>1, <1>3, GoesOn DEF Steps, Releasing
<1> HIDE DEF id, a
<1>6. /\ frec' \in [Ids -> Flavors \cup {Nil}] /\ \A i \in Ids : frec'[i] = IF i = id THEN cmd.flavor ELSE frec[i]
      /\ frec'[id] # Nil
  BY <1>1, <1>3, <1>4, NilIsNone
<1>7. Typed'
  BY <1>1, <1>5, <1>6 DEF AndroidInv, Typed
<1>8. FrecOk'
  BY <1>1, <1>3, <1>6 DEF AndroidInv, Records, FrecOk
<1>9. OutOk' /\ HostedOk' /\ StashOk' /\ PinOk'
  BY <1>1 DEF AndroidInv, Records, OutOk, HostedOk, StashOk, PinOk, Known
<1>10. LastOk'
  <2>1. last # Nil => last.id \in Ids
    BY DEF AndroidInv, Typed, Lasts
  <2> QED
    BY <1>1, <1>6, <2>1 DEF AndroidInv, Records, LastOk, Known
<1>11. NamesOk'
  BY <1>1 DEF AndroidInv, NamesOk, OfNames, Unlost
<1>12. \A r \in Range(registered) : r # id /\ OnRecord(r)' => OnRecord(r)
  BY <1>1, <1>6, RangeTyped DEF AndroidInv, OnRecord
<1>13. Alone(cmd.id)'
  BY <1>1, <1>3, <1>5, <1>12 DEF Alone
<1>14. Apart'
  <2> SUFFICES ASSUME NEW r \in Range(registered), NEW q \in Range(registered), r # q, r.version = q.version
               PROVE  ~OnRecord(r)' \/ ~OnRecord(q)'
    BY <1>1 DEF Apart
  <2>1. CASE r = id
    BY <1>3, <1>12, <2>1 DEF Alone
  <2>2. CASE q = id
    BY <1>3, <1>12, <2>2 DEF Alone
  <2>3. CASE r # id /\ q # id
    BY <1>12, <2>3 DEF AndroidInv, Apart
  <2> QED
    BY <2>1, <2>2, <2>3
<1>15. Known(cmd.id)' /\ out'[cmd'.flavor] = a
  BY <1>1, <1>4, <1>5 DEF Known, a
<1>16. InHand'
  BY <1>1, <1>3, <1>4, <1>5, <1>6, <1>13, <1>15 DEF InHand, Releasing
<1>17. OnBase'
  BY <1>5, NotPatching DEF Releasing
<1>18. \A p \in patches' : Made(p)'
  BY <1>1 DEF AndroidInv, Made
<1> QED
  BY <1>7, <1>8, <1>9, <1>10, <1>11, <1>14, <1>16, <1>17, <1>18 DEF AndroidInv, Records

LEMMA SaveStateKeeps == ASSUME AndroidInv, SaveState PROVE AndroidInv'
<1> DEFINE id == cmd.id
           a == out[cmd.flavor]
<1>1. /\ cmd.at = "state" /\ last' = [id |-> id, path |-> id, flavor |-> cmd.flavor]
      /\ (cmd.builds /\ cmd' = [cmd EXCEPT !.at = "pin"]) \/ cmd' = Idle
      /\ UNCHANGED <<tree, active, out, registered, hosted, patches, stash, frec, obf, pin, marks, used>>
  BY DEF SaveState, Goto, project, server
<1>2. cmd.at \in Releasing
  BY <1>1 DEF Releasing
<1>3. /\ cmd \in Command /\ id \in Ids /\ id.flavor = cmd.flavor /\ cmd.toolchain \in Toolchains
      /\ a # Nil /\ a \in Artifact /\ Alone(id) /\ cmd.flavor \in Flavors
      /\ cmd.builds => a.toolchain = cmd.toolchain /\ a.names = cmd.map
  BY <1>2, Has
<1>4. Known(id) /\ hosted[id] = a /\ frec[id] # Nil
  BY <1>1 DEF AndroidInv, InHand
<1>5. /\ last' \in Lasts /\ last'.id = id /\ last'.path = id /\ last'.flavor = cmd.flavor
  BY <1>1, <1>3 DEF Lasts
<1>6. LastOk'
  BY <1>1, <1>3, <1>4, <1>5 DEF LastOk, Known
<1>7. OutOk' /\ HostedOk' /\ StashOk' /\ FrecOk' /\ PinOk'
  BY <1>1 DEF AndroidInv, Records, OutOk, HostedOk, StashOk, FrecOk, PinOk, Known
<1>8. NamesOk' /\ Apart'
  BY <1>1 DEF AndroidInv, NamesOk, OfNames, Unlost, Apart, OnRecord
<1>9. cmd' \in Command /\ InHand' /\ OnBase'
  <2>1. CASE cmd' = Idle
    BY <2>1, IdleFits
  <2>2. CASE cmd.builds /\ cmd' = [cmd EXCEPT !.at = "pin"]
    <3>1. /\ cmd' \in Command /\ cmd'.at = "pin" /\ cmd'.id = id /\ cmd'.flavor = cmd.flavor /\ cmd'.map = cmd.map
          /\ cmd'.toolchain = cmd.toolchain /\ cmd'.builds /\ cmd'.obfuscate = cmd.obfuscate
      BY <1>3, <2>2, GoesOn DEF Steps, Releasing
    <3>2. Alone(cmd.id)' /\ Known(cmd.id)' /\ out'[cmd'.flavor] = a
      BY <1>1, <1>3, <1>4, <3>1 DEF Alone, OnRecord, Known
    <3>3. InHand'
      BY <1>1, <1>3, <1>4, <2>2, <3>1, <3>2 DEF InHand, Releasing
    <3>4. OnBase'
      BY <3>1, NotPatching DEF Releasing
    <3> QED
      BY <3>1, <3>3, <3>4
  <2> QED
    BY <1>1, <2>1, <2>2
<1>10. Typed'
  BY <1>1, <1>5, <1>9 DEF AndroidInv, Typed
<1>11. \A p \in patches' : Made(p)'
  BY <1>1 DEF AndroidInv, Made
<1> QED
  BY <1>6, <1>7, <1>8, <1>9, <1>10, <1>11 DEF AndroidInv, Records

LEMMA PinKeeps ==
    ASSUME AndroidInv, cmd.at \in {"pin", "pinFlavor"}, NEW key \in LockKeys, NEW step \in {"idle", "pinFlavor"},
           Pin(key, step)
    PROVE  AndroidInv'
<1> DEFINE id == cmd.id
           a == out[cmd.flavor]
<1>1. /\ pin' = [pin EXCEPT ![key] = [id |-> id, toolchain |-> cmd.toolchain, flavor |-> cmd.flavor]]
      /\ (step = "idle" /\ cmd' = Idle) \/ (step = "pinFlavor" /\ cmd' = [cmd EXCEPT !.at = step])
      /\ UNCHANGED <<tree, active, out, registered, hosted, patches, last, stash, frec, obf, marks, used>>
  BY DEF Pin, Goto, project, server
<1>2. cmd.at \in Releasing /\ cmd.builds
  BY DEF Releasing, AndroidInv, InHand
<1>3. /\ cmd \in Command /\ id \in Ids /\ id.flavor = cmd.flavor /\ cmd.toolchain \in Toolchains
      /\ a # Nil /\ a \in Artifact /\ Alone(id) /\ cmd.flavor \in Flavors
      /\ a.toolchain = cmd.toolchain /\ a.names = cmd.map
  BY <1>2, Has
<1>4. Known(id) /\ hosted[id] = a /\ frec[id] # Nil /\ pin \in [LockKeys -> Pins \cup {Nil}]
  BY DEF AndroidInv, InHand, Typed
<1> DEFINE new == [id |-> id, toolchain |-> cmd.toolchain, flavor |-> cmd.flavor]
<1>5. new \in Pins /\ new.id = id /\ new.toolchain = cmd.toolchain /\ new.flavor = cmd.flavor
  BY <1>3 DEF Pins
<1>6. pin' = [pin EXCEPT ![key] = new]
  BY <1>1
<1> HIDE DEF new
<1>7. pin' \in [LockKeys -> Pins \cup {Nil}] /\ \A k \in LockKeys : pin'[k] = IF k = key THEN new ELSE pin[k]
  BY <1>4, <1>5, <1>6
<1>8. PinOk'
  <2> SUFFICES ASSUME NEW k \in LockKeys, pin'[k] # Nil
               PROVE  /\ Known(pin'[k].id) /\ hosted[pin'[k].id] # Nil
                      /\ hosted[pin'[k].id].toolchain = pin'[k].toolchain
                      /\ pin'[k].flavor = pin'[k].id.flavor
    BY <1>1 DEF PinOk, Known
  <2>1. CASE k = key
    BY <1>3, <1>4, <1>5, <1>7, <2>1
  <2>2. CASE k # key
    BY <1>7, <2>2 DEF AndroidInv, Records, PinOk
  <2> QED
    BY <2>1, <2>2
<1>9. OutOk' /\ HostedOk' /\ StashOk' /\ FrecOk' /\ LastOk'
  BY <1>1 DEF AndroidInv, Records, OutOk, HostedOk, StashOk, FrecOk, LastOk, Known
<1>10. NamesOk'
  BY <1>1 DEF AndroidInv, NamesOk, OfNames, Unlost
<1>11. \A r : OnRecord(r)' => OnRecord(r)
  BY <1>1, <1>4, <1>5, <1>7 DEF OnRecord
<1>12. Apart' /\ Alone(id)
  BY <1>1, <1>3, <1>11 DEF AndroidInv, Apart
<1>13. cmd' \in Command /\ InHand' /\ OnBase'
  <2>1. CASE cmd' = Idle
    BY <2>1, IdleFits
  <2>2. CASE step = "pinFlavor" /\ cmd' = [cmd EXCEPT !.at = step]
    <3>1. /\ cmd' \in Command /\ cmd'.at = "pinFlavor" /\ cmd'.id = id /\ cmd'.flavor = cmd.flavor /\ cmd'.map = cmd.map
          /\ cmd'.toolchain = cmd.toolchain /\ cmd'.builds = cmd.builds /\ cmd'.obfuscate = cmd.obfuscate
      BY <1>3, <2>2, GoesOn DEF Steps, Releasing
    <3>2. Alone(cmd.id)' /\ Known(cmd.id)' /\ out'[cmd'.flavor] = a
      BY <1>1, <1>3, <1>4, <1>11, <3>1 DEF Alone, Known
    <3>3. InHand'
      BY <1>1, <1>2, <1>3, <1>4, <2>2, <3>1, <3>2 DEF InHand, Releasing
    <3>4. OnBase'
      BY <3>1, NotPatching DEF Releasing
    <3> QED
      BY <3>1, <3>3, <3>4
  <2> QED
    BY <1>1, <2>1, <2>2
<1>14. Typed'
  BY <1>1, <1>7, <1>13 DEF AndroidInv, Typed
<1>15. \A p \in patches' : Made(p)'
  BY <1>1 DEF AndroidInv, Made
<1> QED
  BY <1>8, <1>9, <1>10, <1>12, <1>13, <1>14, <1>15 DEF AndroidInv, Records

LEMMA PinsKeep == ASSUME AndroidInv, PinLatest \/ PinFlavor PROVE AndroidInv'
<1>1. CASE PinLatest
  BY <1>1, PinKeeps, NilIsNone DEF PinLatest
<1>2. CASE PinFlavor
  <2>1. FlavorKey(cmd.flavor) \in LockKeys
    BY DEF AndroidInv, Typed, Command, FlavorKey, LockKeys
  <2> QED
    BY <1>2, <2>1, PinKeeps DEF PinFlavor
<1> QED
  BY <1>1, <1>2

LEMMA FreshCloneKeeps == ASSUME AndroidInv, FreshClone PROVE AndroidInv'
<1>1. /\ cmd.at = "idle" /\ last' = Nil /\ out' = [f \in Flavors |-> Nil]
      /\ stash' = [i \in Ids |-> Nil] /\ frec' = [i \in Ids |-> Nil] /\ obf' = [i \in Ids |-> NoNames]
      /\ marks' = marks \cup {"cloned"}
      /\ UNCHANGED <<tree, active, registered, hosted, patches, pin, cmd>> /\ used' \in Counts
  BY UsedTyped DEF FreshClone, project, server, AndroidInv
<1>2. NoNames \in [map : Names, record : Names]
  BY NilIsNone DEF NoNames
<1>3. Typed'
  BY <1>1, <1>2 DEF AndroidInv, Typed
<1>4. Records'
  BY <1>1 DEF AndroidInv, Records, OutOk, HostedOk, StashOk, FrecOk, LastOk, PinOk, Known
<1>5. NamesOk'
  BY <1>1 DEF NamesOk, OfNames, Unlost
<1>6. \A r \in Range(registered) : OnRecord(r)' => OnRecord(r)
  BY <1>1, RangeTyped DEF AndroidInv, OnRecord
<1>7. Apart'
  BY <1>1, <1>6 DEF AndroidInv, Apart
<1>8. InHand' /\ OnBase'
  BY <1>1 DEF InHand, OnBase, Releasing, Patching
<1>9. \A p \in patches' : Made(p)'
  BY <1>1 DEF AndroidInv, Made
<1> QED
  BY <1>3, <1>4, <1>5, <1>7, <1>8, <1>9 DEF AndroidInv

-----------------------------------------------------------------------------
(* The patch command. *)

LEMMA NotReleasing == ASSUME cmd'.at \in {"earlyBuild", "base"} \cup Patching PROVE InHand'
BY DEF InHand, Releasing, Patching

LEMMA TargetIs ==
    ASSUME AndroidInv, NEW aim \in Aims, NEW r \in Range(registered), ~(aim = "last" /\ last = Nil)
    PROVE  Target(aim, r) \in Ids
<1>1. r \in Ids
  BY RangeTyped DEF AndroidInv
<1>2. CASE aim = "last"
  BY <1>2 DEF Target, AndroidInv, Typed, Lasts
<1>3. CASE aim = "id"
  BY <1>1, <1>3 DEF Target
<1>4. CASE aim = "version"
  <2>1. Newest(r.version) \in Ids
    BY NewestIs DEF AndroidInv
  <2> QED
    BY <1>4, <2>1 DEF Target
<1> QED
  BY <1>2, <1>3, <1>4 DEF Aims

LEMMA StartPatchKeeps == ASSUME AndroidInv, StartPatch PROVE AndroidInv'
<1>1. used' \in Counts /\ UNCHANGED <<tree, active, out, registered, hosted, last, stash, frec, obf, pin, patches, marks>>
  BY UsedTyped DEF StartPatch, AndroidInv, project, server, local
<1>2. PICK f \in Flavors, o \in BOOLEAN, aim \in Aims, r \in Range(registered), t \in Toolchains \cup {Nil} :
          LET early == aim = "last" /\ last = Nil
              id == Target(aim, r)
          IN  cmd' = IF early /\ o THEN Idle
                     ELSE [Idle EXCEPT !.flavor = f, !.obfuscate = o, !.toolchain = t,
                              !.early = early, !.id = id,
                              !.at = IF early THEN "earlyBuild" ELSE "base"]
  BY DEF StartPatch
<1>3. CASE cmd' = Idle
  BY <1>1, <1>3, IdleStep
<1>4. CASE aim = "last" /\ last = Nil /\ ~o
  <2>1. cmd' = [Idle EXCEPT !.flavor = f, !.obfuscate = FALSE, !.toolchain = t, !.early = TRUE, !.id = Nil, !.at = "earlyBuild"]
    BY <1>2, <1>4 DEF Target
  <2>2. cmd' \in Command /\ cmd'.at = "earlyBuild" /\ ~cmd'.obfuscate /\ cmd'.early /\ ~cmd'.fresh
    BY <1>2, <2>1, NilIsNone, ZenonT(30) DEF Idle, Command, Steps
  <2>3. InHand'
    BY <2>2, NotReleasing
  <2>4. OnBase'
    BY <2>2 DEF OnBase, Patching
  <2>5. out' \in [Flavors -> Artifact \cup {Nil}] /\ OutOk'
    BY <1>1 DEF AndroidInv, Typed, Records, OutOk
  <2> QED
    BY <1>1, <2>2, <2>3, <2>4, <2>5, OwnStep
<1>5. CASE ~(aim = "last" /\ last = Nil)
  <2>1. PICK i \in Ids : i = Target(aim, r)
    BY <1>2, <1>5, TargetIs
  <2>2. cmd' = [Idle EXCEPT !.flavor = f, !.obfuscate = o, !.toolchain = t, !.early = FALSE, !.id = i, !.at = "base"]
    BY <1>2, <1>5, <2>1
  <2>3. cmd' \in Command /\ cmd'.at = "base" /\ cmd'.id = i /\ ~cmd'.early /\ ~cmd'.fresh
    BY <1>2, <2>1, <2>2, NilIsNone, ZenonT(30) DEF Idle, Command, Steps
  <2>4. InHand'
    BY <2>3, NotReleasing
  <2>5. OnBase'
    BY <2>1, <2>3 DEF OnBase, Patching
  <2>6. out' \in [Flavors -> Artifact \cup {Nil}] /\ OutOk'
    BY <1>1 DEF AndroidInv, Typed, Records, OutOk
  <2> QED
    BY <1>1, <2>3, <2>4, <2>5, <2>6, OwnStep
<1> QED
  BY <1>2, <1>3, <1>4, <1>5

LEMMA ToolchainIs ==
    ASSUME AndroidInv, NEW p \in Pins \cup {Nil}, NEW flag \in Toolchains \cup {Nil}
    PROVE  Toolchain(p, flag) \in Toolchains /\ (p # Nil => Toolchain(p, flag) = p.toolchain)
BY DEF AndroidInv, Typed, Toolchain, Pins

LEMMA EarlyBuildKeeps == ASSUME AndroidInv, EarlyBuild PROVE AndroidInv'
<1> DEFINE f == cmd.flavor
           p == EarlyPin(f)
           t == Toolchain(p, cmd.toolchain)
           id == Newest(tree.version)
<1>1. /\ used' \in Counts /\ cmd.at = "earlyBuild"
      /\ UNCHANGED <<tree, active, registered, hosted, last, stash, frec, obf, pin, patches, marks>>
  BY UsedTyped DEF EarlyBuild, AndroidInv, project, server, local
<1>2. \/ out' = out /\ cmd' = Idle
      \/ /\ out' = [out EXCEPT ![f] = Built(f, t, 0)]
         /\ cmd' = IF id = Nil THEN Idle
                   ELSE [cmd EXCEPT !.at = "base", !.id = id, !.pinned = (p # Nil /\ p.id = id)]
  BY DEF EarlyBuild, Fail
<1>3. cmd \in Command /\ OnBase /\ f \in Flavors /\ cmd.toolchain \in Toolchains \cup {Nil} /\ Typed
  BY DEF AndroidInv, Typed, Command
<1>4. p # Nil => \E k \in LockKeys : pin[k] = p
  BY EarlyPinIs
<1>5. p \in Pins \cup {Nil} /\ (p # Nil => hosted[p.id] # Nil /\ hosted[p.id].toolchain = p.toolchain)
  BY <1>4 DEF AndroidInv, Typed, Records, PinOk
<1>6. t \in Toolchains /\ (p # Nil => t = p.toolchain)
  BY <1>3, <1>5, ToolchainIs
<1>7. id \in Ids \cup {Nil}
  BY <1>3, NewestIs
<1>8. CASE out' = out /\ cmd' = Idle
  BY <1>1, <1>8, IdleStep
<1>9. CASE /\ out' = [out EXCEPT ![f] = Built(f, t, 0)]
           /\ cmd' = IF id = Nil THEN Idle
                     ELSE [cmd EXCEPT !.at = "base", !.id = id, !.pinned = (p # Nil /\ p.id = id)]
  <2> DEFINE a == Built(f, t, 0)
  <2>1. a \in Artifact /\ a.flavor = f /\ a.toolchain = t /\ a.names = 0
    BY <1>3, <1>6, BuiltIs, NilIsNone
  <2>2. out' = [out EXCEPT ![f] = a]
    BY <1>9
  <2> HIDE DEF a
  <2>3. out' \in [Flavors -> Artifact \cup {Nil}] /\ OutOk' /\ out'[f] = a
    BY <1>3, <2>1, <2>2, OutTyped
  <2>4. cmd' \in Command /\ InHand' /\ OnBase'
    <3>1. CASE id = Nil
      BY <1>9, <3>1, IdleFits
    <3>2. CASE id # Nil
      <4>1. PICK pinned \in BOOLEAN : pinned <=> (p # Nil /\ p.id = id)
        OBVIOUS
      <4>2. PICK i \in Ids : i = id
        BY <1>7, <3>2
      <4>3. cmd' = [cmd EXCEPT !.at = "base", !.id = i, !.pinned = pinned]
        <5>1. CASE pinned
          BY <1>9, <3>2, <4>1, <4>2, <5>1
        <5>2. CASE ~pinned
          BY <1>9, <3>2, <4>1, <4>2, <5>2
        <5> QED
          BY <5>1, <5>2
      <4>4. pinned => p # Nil /\ p.id = i
        BY <4>1, <4>2
      <4> HIDE DEF id, p, t
      <4>5. /\ cmd' \in Command /\ cmd'.at = "base" /\ cmd'.id = i /\ cmd'.pinned = pinned /\ cmd'.flavor = f
            /\ cmd'.early = cmd.early /\ cmd'.obfuscate = cmd.obfuscate /\ cmd'.fresh = cmd.fresh
        BY <1>3, <4>1, <4>2, <4>3, ZenonT(60) DEF Command, Steps
      <4>6. ~cmd.obfuscate /\ cmd.early /\ ~cmd.fresh
        BY <1>1, <1>3 DEF OnBase
      <4>7. InHand'
        BY <4>5, NotReleasing
      <4>8. out'[cmd'.flavor] = a /\ a # Nil
        BY <2>1, <2>3, <4>5, NilIsNone
      <4>9. pinned => hosted[i] # Nil /\ a.toolchain = hosted[i].toolchain
        BY <1>5, <1>6, <2>1, <4>4
      <4>10. OnBase'
        BY <1>1, <2>1, <4>2, <4>5, <4>6, <4>8, <4>9 DEF OnBase, Patching
      <4> QED
        BY <4>5, <4>7, <4>10
    <3> QED
      BY <3>1, <3>2
  <2> QED
    BY <1>1, <2>3, <2>4, OwnStep
<1> QED
  BY <1>2, <1>8, <1>9

(* The guard passes a flavor only to its own releases, and an unflavored   *)
(* patch to those whose flavor no one recorded.                            *)
LEMMA GuardIs ==
    ASSUME AndroidInv, NEW id \in Ids, FlavorGuard(id, cmd.flavor), cmd.flavor # id.flavor
    PROVE  cmd.flavor = None /\ KnownFlavor(id) = Nil
<1>1. KnownFlavor(id) \in {id.flavor, Nil}
  BY KnownIs DEF AndroidInv
<1>2. cmd.flavor # Nil
  BY NilIsNone DEF AndroidInv, Typed, Command
<1> QED
  BY <1>1, <1>2 DEF FlavorGuard

LEMMA BaseKeeps == ASSUME AndroidInv, Base PROVE AndroidInv'
<1> DEFINE id == cmd.id
           path == RememberedPath(id)
           f == cmd.flavor
<1>1. /\ cmd.at = "base"
      /\ UNCHANGED <<tree, active, out, registered, hosted, frec, obf, pin, patches, used>>
  BY DEF Base, project, server
<1>2. /\ cmd \in Command /\ id \in Ids /\ f \in Flavors /\ ~cmd.fresh /\ used \in Counts
      /\ cmd.early => ~cmd.obfuscate /\ out[f] # Nil /\ out[f].names = 0
      /\ cmd.early /\ cmd.pinned => hosted[id] # Nil /\ out[f].toolchain = hosted[id].toolchain
      /\ stash \in [Ids -> Artifact \cup {Nil}] /\ hosted \in [Ids -> Artifact \cup {Nil}] /\ last \in Lasts \cup {Nil}
  BY <1>1 DEF AndroidInv, Typed, OnBase, Command
<1>3. /\ out' \in [Flavors -> Artifact \cup {Nil}] /\ OutOk' /\ used' \in Counts
  BY <1>1 DEF AndroidInv, Typed, Records, OutOk
<1>4. PICK known \in BOOLEAN : known <=> KnownFlavor(id) # Nil
  OBVIOUS
<1>5. ASSUME NEW p \in Ids, FlavorGuard(id, f),
             cmd' = [cmd EXCEPT !.at = "stashBase", !.path = p, !.known = (KnownFlavor(id) # Nil)],
             stash'[p] # Nil, "mixed" \notin marks' => stash'[p] = hosted[id]
      PROVE  cmd' \in Command /\ InHand' /\ OnBase'
  <2>1. cmd' = [cmd EXCEPT !.at = "stashBase", !.path = p, !.known = known]
    <3>1. CASE known
      BY <1>4, <1>5, <3>1
    <3>2. CASE ~known
      BY <1>4, <1>5, <3>2
    <3> QED
      BY <3>1, <3>2
  <2>2. /\ cmd' \in Command /\ cmd'.at = "stashBase" /\ cmd'.path = p /\ cmd'.known = known /\ cmd'.id = id
        /\ cmd'.flavor = f /\ cmd'.early = cmd.early /\ cmd'.obfuscate = cmd.obfuscate
        /\ cmd'.pinned = cmd.pinned /\ cmd'.fresh = cmd.fresh
    BY <1>2, <1>4, <1>5, <2>1 DEF Command, Steps, Patching
  <2>3. cmd'.at \in Patching
    BY <2>2 DEF Patching
  <2>4. InHand'
    BY <2>3, NotReleasing
  <2>5. f # id.flavor => f = None /\ ~known
    BY <1>2, <1>4, <1>5, GuardIs
  <2>6. OnBase'
    BY <1>1, <1>2, <1>5, <2>2, <2>3, <2>5 DEF OnBase
  <2> QED
    BY <2>2, <2>4, <2>6
<1>6. CASE FlavorGuard(id, f) /\ path # Nil /\ UNCHANGED <<last, stash, marks>>
           /\ cmd' = [cmd EXCEPT !.at = "stashBase", !.path = path, !.known = (KnownFlavor(id) # Nil)]
  <2>1. last # Nil /\ last.id = id /\ stash[last.path] # Nil /\ path = last.path
    BY <1>6 DEF RememberedPath
  <2>2. path \in Ids
    BY <1>2, <2>1 DEF Lasts
  <2>3. "mixed" \notin marks => stash[path] = hosted[id]
    BY <1>2, <2>1 DEF AndroidInv, Records, LastOk, StashOk
  <2>4. cmd' \in Command /\ InHand' /\ OnBase'
    BY <1>5, <1>6, <2>1, <2>2, <2>3
  <2> QED
    BY <1>1, <1>3, <1>6, <2>4, OwnStep
<1>7. CASE FlavorGuard(id, f) /\ hosted[id] # Nil
           /\ stash' = [stash EXCEPT ![id] = hosted[id]]
           /\ last' = (IF last = Nil THEN Nil ELSE [last EXCEPT !.path = id])
           /\ marks' = (IF last # Nil /\ last.id # id THEN marks \cup {"mixed"} ELSE marks)
           /\ cmd' = [cmd EXCEPT !.at = "stashBase", !.path = id, !.known = (KnownFlavor(id) # Nil)]
  <2>1. stash' \in [Ids -> Artifact \cup {Nil}] /\ \A i \in Ids : stash'[i] = IF i = id THEN hosted[id] ELSE stash[i]
    BY <1>2, <1>7
  <2>2. stash'[id] = hosted[id]
    BY <1>2, <2>1
  <2>3. cmd' \in Command /\ InHand' /\ OnBase'
    BY <1>2, <1>5, <1>7, <2>2
  <2>4. marks \subseteq marks' /\ marks' \subseteq marks \cup {"mixed"}
    BY <1>7
  <2>5. /\ last' \in Lasts \cup {Nil}
        /\ last' # Nil => last # Nil /\ last'.id = last.id /\ last'.flavor = last.flavor /\ last'.path = id
    BY <1>2, <1>7 DEF Lasts
  <2>6. Typed'
    BY <1>1, <1>3, <2>1, <2>3, <2>5 DEF AndroidInv, Typed
  <2>7. StashOk'
    BY <1>1, <1>2, <2>1, <2>4 DEF AndroidInv, Records, StashOk
  <2>8. LastOk'
    <3>1. last' # Nil /\ "mixed" \notin marks' => last.id = id
      BY <1>7, <2>5
    <3> QED
      BY <1>1, <2>5, <3>1 DEF AndroidInv, Records, LastOk, Known
  <2>9. OutOk' /\ HostedOk' /\ FrecOk' /\ PinOk'
    BY <1>1 DEF AndroidInv, Records, OutOk, HostedOk, FrecOk, PinOk, Known
  <2>10. NamesOk'
    BY <1>1, <2>4 DEF AndroidInv, NamesOk, OfNames, Unlost
  <2>11. Apart'
    BY <1>1 DEF AndroidInv, Apart, OnRecord
  <2>12. \A p \in patches' : Made(p)'
    BY <1>1 DEF AndroidInv, Made
  <2> QED
    BY <2>3, <2>6, <2>7, <2>8, <2>9, <2>10, <2>11, <2>12 DEF AndroidInv, Records
<1>8. CASE cmd' = Idle /\ UNCHANGED <<last, stash, marks>>
  BY <1>1, <1>3, <1>8, IdleStep
<1> QED
  BY <1>6, <1>7, <1>8 DEF Base, Fail

(* What the patch command has in hand once its base is chosen.             *)
LEMMA HasBase ==
    ASSUME AndroidInv, cmd.at \in Patching
    PROVE  /\ cmd \in Command /\ cmd.id \in Ids /\ cmd.path \in Ids /\ cmd.flavor \in Flavors /\ cmd.map \in Names
           /\ stash[cmd.path] # Nil /\ stash[cmd.path] \in Artifact
           /\ "mixed" \notin marks => stash[cmd.path] = hosted[cmd.id]
           /\ cmd.flavor # cmd.id.flavor => cmd.flavor = None /\ ~cmd.known
           /\ used \in Counts /\ cmd.toolchain \in Toolchains \cup {Nil}
           /\ out \in [Flavors -> Artifact \cup {Nil}] /\ OutOk
<1>1. cmd \in Command /\ cmd.flavor \in Flavors /\ cmd.map \in Names /\ cmd.toolchain \in Toolchains \cup {Nil}
  BY DEF AndroidInv, Typed, Command
<1>2. used \in Counts /\ out \in [Flavors -> Artifact \cup {Nil}] /\ OutOk /\ stash \in [Ids -> Artifact \cup {Nil}]
  BY DEF AndroidInv, Typed, Records
<1>3. /\ cmd.id \in Ids /\ cmd.path \in Ids /\ stash[cmd.path] # Nil
      /\ "mixed" \notin marks => stash[cmd.path] = hosted[cmd.id]
      /\ cmd.flavor # cmd.id.flavor => cmd.flavor = None /\ ~cmd.known
  BY DEF AndroidInv, OnBase
<1> QED
  BY <1>1, <1>2, <1>3

LEMMA StashBaseKeeps == ASSUME AndroidInv, StashBase PROVE AndroidInv'
<1> DEFINE id == cmd.id
           f == cmd.flavor
<1>1. /\ cmd.at = "stashBase" /\ cmd.at \in Patching
      /\ UNCHANGED <<tree, active, out, registered, hosted, frec, obf, pin, patches, marks, used>>
  BY DEF StashBase, project, server, Patching
<1>2. /\ cmd \in Command /\ id \in Ids /\ cmd.path \in Ids /\ f \in Flavors
      /\ stash[cmd.path] # Nil /\ stash[cmd.path] \in Artifact
      /\ "mixed" \notin marks => stash[cmd.path] = hosted[id]
      /\ f # id.flavor => f = None /\ ~cmd.known
      /\ used \in Counts /\ out \in [Flavors -> Artifact \cup {Nil}] /\ OutOk
  BY <1>1, HasBase
<1>3. /\ ~cmd.fresh
      /\ cmd.early => ~cmd.obfuscate /\ out[f] # Nil /\ out[f].names = 0
      /\ cmd.early /\ cmd.pinned => hosted[id] # Nil /\ out[f].toolchain = hosted[id].toolchain
      /\ stash \in [Ids -> Artifact \cup {Nil}] /\ last \in Lasts \cup {Nil}
  BY <1>1 DEF AndroidInv, Typed, OnBase
<1>4. CASE cmd.early /\ UNCHANGED <<last, stash>> /\ cmd' = [cmd EXCEPT !.at = "plan"]
  <2>1. /\ cmd' \in Command /\ cmd'.at = "plan" /\ cmd'.id = id /\ cmd'.flavor = f /\ cmd'.obfuscate = cmd.obfuscate
        /\ cmd'.path = cmd.path /\ cmd'.early = cmd.early /\ cmd'.known = cmd.known /\ cmd'.pinned = cmd.pinned
        /\ cmd'.fresh = cmd.fresh
    BY <1>2, <1>4, GoesOn DEF Steps, Patching
  <2>2. cmd'.at \in Patching
    BY <2>1 DEF Patching
  <2>3. InHand'
    BY <2>2, NotReleasing
  <2>4. OnBase'
    BY <1>1, <1>2, <1>3, <1>4, <2>1, <2>2 DEF OnBase
  <2>5. out' \in [Flavors -> Artifact \cup {Nil}] /\ OutOk' /\ used' \in Counts
    BY <1>1, <1>2 DEF OutOk
  <2> QED
    BY <1>1, <1>4, <2>1, <2>3, <2>4, <2>5, OwnStep
<1>5. CASE /\ ~cmd.early /\ stash' = [stash EXCEPT ![id] = stash[cmd.path]]
           /\ last' = IF last # Nil /\ last.id = id THEN [last EXCEPT !.path = id] ELSE last
           /\ cmd' = [cmd EXCEPT !.at = "plan", !.path = id]
  <2>1. stash' \in [Ids -> Artifact \cup {Nil}] /\ \A i \in Ids : stash'[i] = IF i = id THEN stash[cmd.path] ELSE stash[i]
    BY <1>2, <1>3, <1>5
  <2>2. /\ cmd' \in Command /\ cmd'.at = "plan" /\ cmd'.id = id /\ cmd'.flavor = f /\ cmd'.path = id
        /\ cmd'.early = cmd.early /\ cmd'.known = cmd.known /\ cmd'.fresh = cmd.fresh
    BY <1>2, <1>5 DEF Command, Steps, Patching
  <2>3. cmd'.at \in Patching
    BY <2>2 DEF Patching
  <2>4. InHand'
    BY <2>3, NotReleasing
  <2>5. stash'[id] # Nil /\ ("mixed" \notin marks => stash'[id] = hosted[id])
    BY <1>2, <2>1
  <2>6. OnBase'
    BY <1>1, <1>2, <1>3, <1>5, <2>2, <2>3, <2>5 DEF OnBase
  <2>7. /\ last' \in Lasts \cup {Nil}
        /\ last' # Nil => last # Nil /\ last'.id = last.id /\ last'.flavor = last.flavor /\ last'.path \in {last.path, last.id}
    BY <1>2, <1>3, <1>5 DEF Lasts
  <2>8. Typed'
    BY <1>1, <2>1, <2>2, <2>7 DEF AndroidInv, Typed
  <2>9. StashOk'
    BY <1>1, <1>2, <2>1 DEF AndroidInv, Records, StashOk
  <2>10. LastOk'
    BY <1>1, <2>7 DEF AndroidInv, Records, LastOk, Known
  <2>11. OutOk' /\ HostedOk' /\ FrecOk' /\ PinOk'
    BY <1>1 DEF AndroidInv, Records, OutOk, HostedOk, FrecOk, PinOk, Known
  <2>12. NamesOk'
    BY <1>1 DEF AndroidInv, NamesOk, OfNames, Unlost
  <2>13. Apart'
    BY <1>1 DEF AndroidInv, Apart, OnRecord
  <2>14. \A p \in patches' : Made(p)'
    BY <1>1 DEF AndroidInv, Made
  <2> QED
    BY <2>4, <2>6, <2>8, <2>9, <2>10, <2>11, <2>12, <2>13, <2>14 DEF AndroidInv, Records
<1> QED
  BY <1>4, <1>5 DEF StashBase, Goto

(* A pin is of the toolchain that built the release.                       *)
LEMMA PinIs ==
    ASSUME AndroidInv, NEW id
    PROVE  /\ PinOf(id) \in Pins \cup {Nil}
           /\ PinOf(id) # Nil => hosted[id] # Nil /\ hosted[id].toolchain = PinOf(id).toolchain
BY PinOfIs DEF AndroidInv, Typed, Records, PinOk

LEMMA PlanKeeps == ASSUME AndroidInv, Plan PROVE AndroidInv'
<1> DEFINE id == cmd.id
           f == cmd.flavor
           p == PinOf(id)
           t == Toolchain(p, cmd.toolchain)
<1>1. /\ cmd.at = "plan" /\ cmd.at \in Patching /\ used' \in Counts
      /\ UNCHANGED <<tree, active, out, registered, hosted, last, stash, frec, obf, pin, patches, marks>>
  BY UsedTyped DEF Plan, AndroidInv, project, server, local, Patching
<1>2. /\ cmd \in Command /\ id \in Ids /\ cmd.path \in Ids /\ f \in Flavors
      /\ stash[cmd.path] # Nil
      /\ "mixed" \notin marks => stash[cmd.path] = hosted[id]
      /\ f # id.flavor => f = None /\ ~cmd.known
      /\ cmd.toolchain \in Toolchains \cup {Nil}
      /\ out \in [Flavors -> Artifact \cup {Nil}] /\ OutOk
  BY <1>1, HasBase
<1>3. /\ ~cmd.fresh
      /\ cmd.early => ~cmd.obfuscate /\ out[f] # Nil /\ out[f].names = 0
      /\ cmd.early /\ cmd.pinned => hosted[id] # Nil /\ out[f].toolchain = hosted[id].toolchain
  BY <1>1 DEF AndroidInv, OnBase
<1>4. out' \in [Flavors -> Artifact \cup {Nil}] /\ OutOk'
  BY <1>1, <1>2 DEF OutOk
<1>5. \/ cmd' = Idle
      \/ /\ ObfuscationPlan(id) /\ cmd.early /\ cmd' = [cmd EXCEPT !.at = "publish", !.fresh = TRUE]
      \/ /\ ObfuscationPlan(id) /\ ~cmd.early
         /\ cmd' = [cmd EXCEPT !.at = "patchBuild", !.pinned = (p # Nil), !.toolchain = t]
  BY DEF Plan, Fail
<1>6. CASE cmd' = Idle
  BY <1>1, <1>6, IdleStep
<1>7. ASSUME ObfuscationPlan(id) PROVE obf[id].map = obf[id].record /\ (cmd.obfuscate <=> obf[id].record # 0)
  <2>1. cmd.obfuscate \in BOOLEAN
    BY <1>2 DEF Command
  <2> QED
    BY <1>7, <2>1 DEF ObfuscationPlan, ObfuscationReadable
<1>8. CASE ObfuscationPlan(id) /\ cmd.early /\ cmd' = [cmd EXCEPT !.at = "publish", !.fresh = TRUE]
  <2>1. /\ cmd' \in Command /\ cmd'.at = "publish" /\ cmd'.id = id /\ cmd'.flavor = f /\ cmd'.obfuscate = cmd.obfuscate
        /\ cmd'.path = cmd.path /\ cmd'.early = cmd.early /\ cmd'.known = cmd.known /\ cmd'.pinned = cmd.pinned
    BY <1>2, <1>8 DEF Command, Steps, Patching
  <2>2. cmd'.at \in Patching
    BY <2>1 DEF Patching
  <2>3. InHand'
    BY <2>2, NotReleasing
  <2>4. OnBase'
    BY <1>1, <1>2, <1>3, <1>7, <1>8, <2>1, <2>2 DEF OnBase
  <2> QED
    BY <1>1, <1>4, <2>1, <2>3, <2>4, OwnStep
<1>9. CASE /\ ObfuscationPlan(id) /\ ~cmd.early
           /\ cmd' = [cmd EXCEPT !.at = "patchBuild", !.pinned = (p # Nil), !.toolchain = t]
  <2>1. p \in Pins \cup {Nil} /\ (p # Nil => hosted[id] # Nil /\ hosted[id].toolchain = p.toolchain)
    BY PinIs
  <2>2. t \in Toolchains /\ (p # Nil => t = p.toolchain)
    BY <1>2, <2>1, ToolchainIs
  <2>3. PICK pinned \in BOOLEAN : pinned <=> p # Nil
    OBVIOUS
  <2>4. cmd' = [cmd EXCEPT !.at = "patchBuild", !.pinned = pinned, !.toolchain = t]
    <3>1. CASE pinned
      BY <1>9, <2>3, <3>1
    <3>2. CASE ~pinned
      BY <1>9, <2>3, <3>2
    <3> QED
      BY <3>1, <3>2
  <2>5. pinned => hosted[id] # Nil /\ hosted[id].toolchain = t
    BY <2>1, <2>2, <2>3
  <2> HIDE DEF p, t
  <2>6. /\ cmd' \in Command /\ cmd'.at = "patchBuild" /\ cmd'.id = id /\ cmd'.flavor = f /\ cmd'.obfuscate = cmd.obfuscate
        /\ cmd'.path = cmd.path /\ cmd'.early = cmd.early /\ cmd'.known = cmd.known /\ cmd'.pinned = pinned
        /\ cmd'.toolchain = t /\ cmd'.fresh = cmd.fresh
    BY <1>2, <2>2, <2>3, <2>4 DEF Command, Steps, Patching
  <2>7. cmd'.at \in Patching
    BY <2>6 DEF Patching
  <2>8. InHand'
    BY <2>7, NotReleasing
  <2>9. OnBase'
    BY <1>1, <1>2, <1>3, <1>7, <1>9, <2>2, <2>5, <2>6, <2>7 DEF OnBase
  <2> QED
    BY <1>1, <1>4, <2>6, <2>8, <2>9, OwnStep
<1> QED
  BY <1>5, <1>6, <1>8, <1>9

LEMMA PatchBuildKeeps == ASSUME AndroidInv, PatchBuild PROVE AndroidInv'
<1> DEFINE id == cmd.id
           f == cmd.flavor
<1>1. /\ cmd.at = "patchBuild" /\ cmd.at \in Patching /\ used' \in Counts
      /\ UNCHANGED <<tree, active, registered, hosted, last, stash, frec, obf, pin, patches, marks>>
  BY UsedTyped DEF PatchBuild, AndroidInv, project, server, local, Patching
<1>2. /\ cmd \in Command /\ id \in Ids /\ cmd.path \in Ids /\ f \in Flavors
      /\ stash[cmd.path] # Nil
      /\ "mixed" \notin marks => stash[cmd.path] = hosted[id]
      /\ f # id.flavor => f = None /\ ~cmd.known
      /\ out \in [Flavors -> Artifact \cup {Nil}] /\ OutOk
  BY <1>1, HasBase
<1>3. /\ ~cmd.fresh /\ ~cmd.early /\ cmd.toolchain \in Toolchains
      /\ cmd.pinned => hosted[id] # Nil /\ hosted[id].toolchain = cmd.toolchain
      /\ obf[id].map = obf[id].record /\ (cmd.obfuscate <=> obf[id].record # 0)
  BY <1>1 DEF AndroidInv, OnBase
<1>4. PICK names \in IF cmd.obfuscate THEN {obf[id].map, tree.source} ELSE {0} :
          \/ /\ out' = [out EXCEPT ![f] = Built(f, cmd.toolchain, names)]
             /\ cmd' = [cmd EXCEPT !.at = "verify", !.map = names, !.fresh = TRUE]
          \/ f # None /\ cmd' = [cmd EXCEPT !.at = "verify", !.map = names] /\ out' = out
  BY DEF PatchBuild
<1>5. names \in Names /\ (~cmd.obfuscate => names = 0)
  <2>1. obf[id].map \in Names /\ tree.source \in Names
    BY <1>2, NilIsNone DEF AndroidInv, Typed, Trees
  <2>2. CASE cmd.obfuscate
    BY <1>4, <2>1, <2>2
  <2>3. CASE ~cmd.obfuscate
    BY <1>4, <2>3, NilIsNone
  <2> QED
    BY <2>2, <2>3
<1>6. CASE /\ out' = [out EXCEPT ![f] = Built(f, cmd.toolchain, names)]
           /\ cmd' = [cmd EXCEPT !.at = "verify", !.map = names, !.fresh = TRUE]
  <2> DEFINE a == Built(f, cmd.toolchain, names)
  <2>1. a \in Artifact /\ a.flavor = f /\ a.toolchain = cmd.toolchain /\ a.names = names
    BY <1>2, <1>3, <1>5, BuiltIs DEF AndroidInv
  <2>2. out' = [out EXCEPT ![f] = a]
    BY <1>6
  <2> HIDE DEF a
  <2>3. out' \in [Flavors -> Artifact \cup {Nil}] /\ OutOk' /\ out'[f] = a
    BY <1>2, <2>1, <2>2, OutTyped
  <2>4. /\ cmd' \in Command /\ cmd'.at = "verify" /\ cmd'.id = id /\ cmd'.flavor = f /\ cmd'.obfuscate = cmd.obfuscate
        /\ cmd'.path = cmd.path /\ cmd'.early = cmd.early /\ cmd'.known = cmd.known /\ cmd'.pinned = cmd.pinned
        /\ cmd'.toolchain = cmd.toolchain /\ cmd'.map = names /\ cmd'.fresh
    BY <1>2, <1>5, <1>6 DEF Command, Steps, Patching
  <2>5. cmd'.at \in Patching
    BY <2>4 DEF Patching
  <2>6. InHand'
    BY <2>5, NotReleasing
  <2>7. a # Nil /\ out'[cmd'.flavor] = a
    BY <2>1, <2>3, <2>4, NilIsNone
  <2>8. OnBase'
    BY <1>1, <1>2, <1>3, <1>5, <2>1, <2>4, <2>5, <2>7 DEF OnBase
  <2> QED
    BY <1>1, <2>3, <2>4, <2>6, <2>8, OwnStep
<1>7. CASE f # None /\ cmd' = [cmd EXCEPT !.at = "verify", !.map = names] /\ out' = out
  <2>1. /\ cmd' \in Command /\ cmd'.at = "verify" /\ cmd'.id = id /\ cmd'.flavor = f /\ cmd'.obfuscate = cmd.obfuscate
        /\ cmd'.path = cmd.path /\ cmd'.early = cmd.early /\ cmd'.known = cmd.known /\ cmd'.pinned = cmd.pinned
        /\ cmd'.toolchain = cmd.toolchain /\ cmd'.map = names /\ cmd'.fresh = cmd.fresh
    BY <1>2, <1>5, <1>7 DEF Command, Steps, Patching
  <2>2. cmd'.at \in Patching
    BY <2>1 DEF Patching
  <2>3. InHand'
    BY <2>2, NotReleasing
  <2>4. OnBase'
    BY <1>1, <1>2, <1>3, <1>5, <1>7, <2>1, <2>2 DEF OnBase
  <2>5. out' \in [Flavors -> Artifact \cup {Nil}] /\ OutOk'
    BY <1>2, <1>7 DEF OutOk
  <2> QED
    BY <1>1, <2>1, <2>3, <2>4, <2>5, OwnStep
<1> QED
  BY <1>4, <1>6, <1>7

LEMMA VerifyKeeps == ASSUME AndroidInv, Verify PROVE AndroidInv'
<1> DEFINE id == cmd.id
           f == cmd.flavor
<1>1. /\ cmd.at = "verify" /\ cmd.at \in Patching
      /\ UNCHANGED <<tree, active, out, registered, hosted, last, stash, frec, obf, pin, patches, marks, used>>
  BY DEF Verify, project, server, local, Patching
<1>2. /\ cmd \in Command /\ id \in Ids /\ cmd.path \in Ids /\ f \in Flavors
      /\ stash[cmd.path] # Nil
      /\ "mixed" \notin marks => stash[cmd.path] = hosted[id]
      /\ f # id.flavor => f = None /\ ~cmd.known
      /\ used \in Counts /\ out \in [Flavors -> Artifact \cup {Nil}] /\ OutOk
  BY <1>1, HasBase
<1>3. /\ ~cmd.early /\ cmd.toolchain \in Toolchains
      /\ cmd.pinned => hosted[id] # Nil /\ hosted[id].toolchain = cmd.toolchain
      /\ obf[id].map = obf[id].record /\ (cmd.obfuscate <=> obf[id].record # 0)
      /\ cmd.fresh => out[f] # Nil /\ out[f].toolchain = cmd.toolchain /\ out[f].names = cmd.map
      /\ f = None => cmd.fresh
      /\ ~cmd.obfuscate => cmd.map = 0
  BY <1>1 DEF AndroidInv, OnBase
<1>4. out' \in [Flavors -> Artifact \cup {Nil}] /\ OutOk' /\ used' \in Counts
  BY <1>1, <1>2 DEF OutOk
<1>5. CASE cmd' = Idle
  BY <1>1, <1>4, <1>5, IdleStep
<1>6. CASE (cmd.obfuscate => cmd.map = obf[id].map) /\ cmd' = [cmd EXCEPT !.at = "publish"]
  <2>1. /\ cmd' \in Command /\ cmd'.at = "publish" /\ cmd'.id = id /\ cmd'.flavor = f /\ cmd'.obfuscate = cmd.obfuscate
        /\ cmd'.path = cmd.path /\ cmd'.early = cmd.early /\ cmd'.known = cmd.known /\ cmd'.pinned = cmd.pinned
        /\ cmd'.toolchain = cmd.toolchain /\ cmd'.map = cmd.map /\ cmd'.fresh = cmd.fresh
    BY <1>2, <1>6, GoesOn DEF Steps, Patching
  <2>2. cmd'.at \in Patching
    BY <2>1 DEF Patching
  <2>3. InHand'
    BY <2>2, NotReleasing
  <2>4. OnBase'
    BY <1>1, <1>2, <1>3, <1>6, <2>1, <2>2 DEF OnBase
  <2> QED
    BY <1>1, <1>4, <2>1, <2>3, <2>4, OwnStep
<1> QED
  BY <1>5, <1>6 DEF Verify, Goto, Fail

LEMMA PublishKeeps == ASSUME AndroidInv, Publish PROVE AndroidInv'
<1> DEFINE id == cmd.id
           f == cmd.flavor
           stashed == stash[cmd.path]
           candidate == out[f]
           new == [id |-> id, base |-> stashed, candidate |-> candidate,
                   known |-> cmd.known, pinned |-> cmd.pinned, marks |-> marks]
<1>1. /\ cmd.at = "publish" /\ cmd.at \in Patching /\ cmd' = Idle
      /\ patches' = IF ~Publishable(id, stashed, candidate) THEN patches ELSE patches \cup {new}
      /\ UNCHANGED <<tree, active, out, registered, hosted, last, stash, frec, obf, pin, marks, used>>
  BY DEF Publish, Fail, project, local, Patching
<1>2. /\ cmd \in Command /\ id \in Ids /\ cmd.path \in Ids /\ f \in Flavors
      /\ stashed # Nil
      /\ "mixed" \notin marks => stashed = hosted[id]
      /\ f # id.flavor => f = None /\ ~cmd.known
      /\ out \in [Flavors -> Artifact \cup {Nil}] /\ OutOk
  BY <1>1, HasBase
<1>3. cmd.early => /\ ~cmd.obfuscate /\ candidate.names = 0
                   /\ cmd.pinned => hosted[id] # Nil /\ candidate.toolchain = hosted[id].toolchain
  BY <1>1 DEF AndroidInv, OnBase
<1>4. obf[id].map = obf[id].record /\ (cmd.obfuscate <=> obf[id].record # 0)
  BY <1>1 DEF AndroidInv, OnBase
<1>5. ~cmd.early => /\ cmd.pinned => hosted[id] # Nil /\ hosted[id].toolchain = cmd.toolchain
                    /\ cmd.fresh => candidate.toolchain = cmd.toolchain /\ candidate.names = cmd.map
                    /\ f = None => cmd.fresh
                    /\ ~cmd.obfuscate => cmd.map = 0
                    /\ cmd.obfuscate => cmd.map = obf[id].map
  BY <1>1 DEF AndroidInv, OnBase
<1>6. ASSUME Publishable(id, stashed, candidate) PROVE Made(new)
  <2>1. candidate # Nil /\ (f # None => cmd.fresh) /\ candidate.flavor = f
    BY <1>2, <1>6 DEF Publishable, OutOk
  <2>2. ~cmd.early => candidate.toolchain = cmd.toolchain /\ candidate.names = cmd.map
    BY <1>5, <2>1
  <2>3. "mixed" \notin marks => stashed = hosted[id] /\ hosted[id] # Nil
    BY <1>2
  <2>4. cmd.pinned => candidate.toolchain = hosted[id].toolchain
    BY <1>3, <1>5, <2>2
  <2>5. marks = {} => candidate.names = hosted[id].names
    <3> SUFFICES ASSUME marks = {} PROVE candidate.names = hosted[id].names
      OBVIOUS
    <3>1. hosted[id] # Nil /\ Unlost
      BY <2>3 DEF Unlost
    <3>2. OfNames(id, hosted[id].names)
      BY <1>2, <3>1 DEF AndroidInv, NamesOk
    <3>3. CASE hosted[id].names = 0
      <4>1. obf[id].record = 0 /\ ~cmd.obfuscate
        BY <1>4, <3>2, <3>3 DEF OfNames
      <4> QED
        BY <1>3, <1>5, <2>2, <3>3, <4>1
    <3>4. CASE hosted[id].names # 0
      <4>1. obf[id].map = hosted[id].names /\ cmd.obfuscate
        BY <1>4, <3>1, <3>2, <3>4 DEF OfNames
      <4> QED
        BY <1>3, <1>5, <2>2, <4>1
    <3> QED
      BY <3>3, <3>4
  <2>6. candidate.flavor # id.flavor => candidate.flavor = None /\ ~cmd.known
    BY <1>2, <2>1
  <2>7. /\ new.id = id /\ new.base = stashed /\ new.candidate = candidate /\ new.marks = marks
        /\ new.known = cmd.known /\ new.pinned = cmd.pinned
    OBVIOUS
  <2> HIDE DEF new
  <2> QED
    BY <1>2, <2>3, <2>4, <2>5, <2>6, <2>7 DEF Made
<1>7. \A p \in patches' : Made(p)'
  <2>1. \A p \in patches : Made(p)
    BY DEF AndroidInv
  <2> HIDE DEF new
  <2>2. \A p \in patches' : Made(p)
    BY <1>1, <1>6, <2>1
  <2> QED
    BY <1>1, <2>2 DEF Made
<1>8. cmd' \in Command /\ InHand' /\ OnBase'
  BY <1>1, IdleFits
<1>9. Typed'
  BY <1>1, <1>8 DEF AndroidInv, Typed
<1>10. Records'
  BY <1>1 DEF AndroidInv, Records, OutOk, HostedOk, StashOk, FrecOk, LastOk, PinOk, Known
<1>11. NamesOk'
  BY <1>1 DEF AndroidInv, NamesOk, OfNames, Unlost
<1>12. Apart'
  BY <1>1 DEF AndroidInv, Apart, OnRecord
<1> QED
  BY <1>7, <1>8, <1>9, <1>10, <1>11, <1>12 DEF AndroidInv

-----------------------------------------------------------------------------
(* The specification. *)

LEMMA AndroidInit == Init => AndroidInv
<1> SUFFICES ASSUME Init PROVE AndroidInv
  OBVIOUS
<1>1. cmd = Idle /\ cmd \in Command /\ cmd.at = "idle"
  BY IdleTyped DEF Init
<1>2. tree \in Trees /\ active \in Toolchains
  BY NilIsNone DEF Init, Trees
<1>3. used \in Counts
  BY AndroidAssumption DEF Init, Counts
<1>4. NoNames \in [map : Names, record : Names]
  BY NilIsNone DEF NoNames
<1>5. Typed
  BY <1>1, <1>2, <1>3, <1>4 DEF Init, Typed
<1>6. Range(registered) = {}
  BY DEF Init, Range
<1>7. Records
  BY DEF Init, Records, OutOk, HostedOk, StashOk, FrecOk, LastOk, PinOk
<1>8. NamesOk
  BY DEF Init, NamesOk
<1>9. Apart
  BY <1>6 DEF Apart
<1>10. InHand /\ OnBase
  BY <1>1 DEF InHand, OnBase, Releasing, Patching
<1>11. \A p \in patches : Made(p)
  BY DEF Init
<1> QED
  BY <1>5, <1>7, <1>8, <1>9, <1>10, <1>11 DEF AndroidInv

LEMMA AndroidStutter == ASSUME AndroidInv, UNCHANGED vars PROVE AndroidInv'
<1>1. /\ UNCHANGED <<tree, active, out, registered, hosted, last, stash, frec, obf, pin, patches, cmd, marks, used>>
  BY DEF vars
<1>2. InHand' /\ OnBase'
  BY <1>1, SameHand DEF AndroidInv
<1>3. /\ out' \in [Flavors -> Artifact \cup {Nil}] /\ OutOk' /\ used' \in Counts /\ cmd' \in Command
  BY <1>1 DEF AndroidInv, Typed, Records, OutOk
<1> QED
  BY <1>1, <1>2, <1>3, OwnStep

(* What is on record of a release is true of it, and what a command has in *)
(* hand is what its checks established, whatever was killed, failed,       *)
(* cloned, repeated or edited in between (release_cmd.go, patch_cmd.go).   *)
THEOREM AndroidInvHolds == Spec => []AndroidInv
<1>1. AndroidInv /\ [Next]_vars => AndroidInv'
  <2> SUFFICES ASSUME AndroidInv, [Next]_vars PROVE AndroidInv'
    OBVIOUS
  <2>1. CASE StartRelease
    BY <2>1, StartReleaseKeeps
  <2>2. CASE Preflight
    BY <2>2, PreflightKeeps
  <2>3. CASE Build
    BY <2>3, BuildKeeps
  <2>4. CASE Inspect
    BY <2>4, InspectKeeps
  <2>5. CASE CommitMap
    BY <2>5, CommitMapKeeps
  <2>6. CASE CommitRecord
    BY <2>6, CommitRecordKeeps
  <2>7. CASE Create
    BY <2>7, CreateKeeps
  <2>8. CASE Upload
    BY <2>8, UploadKeeps
  <2>9. CASE Stash
    BY <2>9, StashKeeps
  <2>10. CASE RecordFlavor
    BY <2>10, RecordFlavorKeeps
  <2>11. CASE SaveState
    BY <2>11, SaveStateKeeps
  <2>12. CASE PinLatest \/ PinFlavor
    BY <2>12, PinsKeep
  <2>13. CASE Edit \/ Checkout \/ Setup
    BY <2>13, EditKeeps
  <2>14. CASE FreshClone
    BY <2>14, FreshCloneKeeps
  <2>15. CASE Kill
    BY <2>15, KillKeeps
  <2>16. CASE StartPatch
    BY <2>16, StartPatchKeeps
  <2>17. CASE EarlyBuild
    BY <2>17, EarlyBuildKeeps
  <2>18. CASE Base
    BY <2>18, BaseKeeps
  <2>19. CASE StashBase
    BY <2>19, StashBaseKeeps
  <2>20. CASE Plan
    BY <2>20, PlanKeeps
  <2>21. CASE PatchBuild
    BY <2>21, PatchBuildKeeps
  <2>22. CASE Verify
    BY <2>22, VerifyKeeps
  <2>23. CASE Publish
    BY <2>23, PublishKeeps
  <2>24. CASE UNCHANGED vars
    BY <2>24, AndroidStutter
  <2> QED
    BY <2>1, <2>2, <2>3, <2>4, <2>5, <2>6, <2>7, <2>8, <2>9, <2>10, <2>11, <2>12, <2>13, <2>14,
       <2>15, <2>16, <2>17, <2>18, <2>19, <2>20, <2>21, <2>22, <2>23, <2>24
       DEF Next, ReleaseNext
<1> QED
  BY <1>1, AndroidInit, PTL DEF Spec

(* The snapshot, the record and the pin of a release are the release's     *)
(* own, and a patch is diffed against what its users run and built by the  *)
(* toolchain its pin names (stashAndroidReleaseArtifact,                   *)
(* recordSoroqLockPin, resolveAndroidPatchToolchain).                      *)
THEOREM BasesAreTrue == Spec => []BaseIsTrue
<1>1. AndroidInv => BaseIsTrue
  <2> SUFFICES ASSUME AndroidInv PROVE BaseIsTrue
    OBVIOUS
  <2>1. TypeOK
    <3>1. tree \in [version : Versions, source : Sources] /\ active \in Toolchains
      BY DEF AndroidInv, Typed, Trees
    <3>2. \A f \in Flavors : out[f] # Nil => out[f] \in Artifact /\ out[f].flavor = f
      BY DEF AndroidInv, Typed, Records, OutOk
    <3>3. \A i \in Ids : /\ hosted[i] # Nil => hosted[i] \in Artifact /\ Known(i)
                         /\ stash[i] # Nil => stash[i] \in Artifact
                         /\ frec[i] \in Flavors \cup {Nil}
      BY DEF AndroidInv, Typed, Records, HostedOk
    <3>4. last # Nil => last \in [id : Ids, path : Ids, flavor : Flavors] /\ Known(last.id)
      BY DEF AndroidInv, Typed, Lasts, Records, LastOk
    <3>5. \A k \in LockKeys : pin[k] # Nil => pin[k].id \in Ids /\ pin[k].toolchain \in Toolchains
      BY DEF AndroidInv, Typed, Pins
    <3>6. used \in [commands : 0..MaxCommands, setups : 0..MaxSetups,
                    clones : 0..MaxClones, faults : 0..MaxFaults]
      BY DEF AndroidInv, Typed, Counts
    <3> QED
      BY <3>1, <3>2, <3>3, <3>4, <3>5, <3>6 DEF TypeOK
  <2>2. StashIsHostedUnlessMixed
    BY DEF StashIsHostedUnlessMixed, StashIsHosted, AndroidInv, Records, StashOk
  <2>3. BaseIsTheReleases
    BY DEF BaseIsTheReleases, AndroidInv, Made
  <2>4. PinIsTrue
    <3>1. \A k \in LockKeys : pin[k] # Nil => pin[k].id \in Ids
      BY DEF AndroidInv, Typed, Pins
    <3> QED
      BY <3>1 DEF PinIsTrue, AndroidInv, Records, PinOk, HostedOk
  <2> QED
    BY <2>1, <2>2, <2>3, <2>4 DEF BaseIsTrue
<1> QED
  BY <1>1, AndroidInvHolds, PTL

(* The names an obfuscated release gave are on disk before it is           *)
(* registered and used by every patch of it, unless a clone, a second      *)
(* release command or a foreign artifact lost them                         *)
(* (commitAndroidReleaseObfuscation, verifyAndroidSeededCandidate).        *)
THEOREM NamesDoSurvive == Spec => []NamesSurvive
<1>1. AndroidInv => NamesSurvive
  <2> SUFFICES ASSUME AndroidInv PROVE NamesSurvive
    OBVIOUS
  <2>1. NamesKept
    BY DEF NamesKept, AndroidInv, Made
  <2>2. MapBeforeRegistration
    <3> SUFFICES ASSUME Unlost, NEW r \in Range(registered), hosted[r] # Nil, hosted[r].names # 0
                 PROVE  obf[r] = [map |-> hosted[r].names, record |-> hosted[r].names]
      BY DEF MapBeforeRegistration, Unlost
    <3>1. r \in Ids /\ obf[r] \in [map : Names, record : Names]
      BY RangeTyped DEF AndroidInv, Typed
    <3>2. obf[r].map = hosted[r].names /\ obf[r].record = hosted[r].names
      BY <3>1 DEF AndroidInv, NamesOk, OfNames
    <3> QED
      BY <3>1, <3>2
  <2> QED
    BY <2>1, <2>2 DEF NamesSurvive
<1> QED
  BY <1>1, AndroidInvHolds, PTL

(* A patch of one flavor never reaches another's release, and two flavors  *)
(* that share a runtime id are registered only while one of them is on no  *)
(* record (guardPatchFlavorMatchesBase, guardAndroidReleaseFlavorCollision).*)
THEOREM FlavorsStayApart == Spec => []FlavorsApart
<1>1. AndroidInv => FlavorsApart
  <2> SUFFICES ASSUME AndroidInv PROVE FlavorsApart
    OBVIOUS
  <2>1. FlavorKept
    BY DEF FlavorKept, AndroidInv, Made
  <2>2. OneFlavorPerRuntime
    <3>1. \A r \in Range(registered) : ~OnRecord(r) => KnownFlavor(r) = Nil
      BY KnownIs, RangeTyped DEF AndroidInv
    <3> QED
      BY <3>1 DEF OneFlavorPerRuntime, AndroidInv, Apart
  <2> QED
    BY <2>1, <2>2 DEF FlavorsApart
<1> QED
  BY <1>1, AndroidInvHolds, PTL

=============================================================================
