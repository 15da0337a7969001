------------------------------ MODULE AndroidDelta ------------------------------
(***************************************************************************)
(* The code delta of an Android patch: soroqctl finds the copies of base   *)
(* bytes in the candidate, rewrites the op list in the passes of the       *)
(* chosen strategy, encodes it, and rebuilds the candidate from the base   *)
(* and the delta before the bundle is written.                             *)
(*                                                                         *)
(* What the code decides by compressed sizes is a free choice here: which  *)
(* inserts become adds and where, which adds become sparse, and which      *)
(* transform the add stream gets.  So is what the suffix array returns of  *)
(* more matches than it is asked for.  Offsets count from 0, as in the     *)
(* code; a uvarint or a fixed-width integer is one item of the control     *)
(* stream, but bytes in a sparse payload, which the add transforms change. *)
(* The default strategy, V15, is bsdiff from a library and is not modelled.*)
(***************************************************************************)
EXTENDS Integers, Sequences, FiniteSets, SequencesExt, FiniteSetsExt

CONSTANTS
  Strategies,      \* versions of buildCodeDelta, in 1..14 without 9
  Bases, Candidates,  \* payloads to compare
  ByteValues,      \* arithmetic on bytes is modulo this number
  ByteXor(_, _),   \* Go's ^ on bytes, of which only matters that it undoes itself
  Uvarint(_),      \* the bytes of binary.PutUvarint: no two numbers begin alike
  SeedBytes, MinCopy, MinCopyLong, MaxOffsets, AnchorStride,
  MinAnchor, MinTailAnchor, Lookahead,
  MinAdd, MinSparse, AddRadius, MinReuse, ContextRadius

Offsets == UNION {0..Len(b) : b \in Bases}

ASSUME DeltaAssumption ==
  /\ Strategies \subseteq (1..14) \ {9}
  /\ ByteValues \in Nat \ {0}
  /\ Bases \cup Candidates \cup {Uvarint(n) : n \in Offsets} \subseteq Seq(0..(ByteValues - 1))
  /\ \A m, n \in Offsets :
       m # n => \E i \in DOMAIN Uvarint(m) \cap DOMAIN Uvarint(n) : Uvarint(m)[i] # Uvarint(n)[i]
  /\ <<>> \notin {Uvarint(n) : n \in Offsets}
  /\ \A a, b \in 0..(ByteValues - 1) :
       ByteXor(a, b) \in 0..(ByteValues - 1) /\ ByteXor(ByteXor(a, b), b) = a
  /\ {SeedBytes, MinCopy, MinCopyLong, MaxOffsets, AnchorStride, MinAnchor, MinTailAnchor,
      MinAdd, MinSparse, MinReuse} \subseteq Nat \ {0}
  /\ {Lookahead, AddRadius, ContextRadius} \subseteq Nat
  /\ SeedBytes <= MinCopy /\ MinCopy <= MinCopyLong /\ SeedBytes <= MinReuse

VARIABLES
  version,   \* the strategy
  base, cand,
  phase,     \* "scan", a pass of Passes(version) or the coalescing between two, "encode", ...
  passes,    \* the passes still to run
  pos,       \* candidateIndex of the scan, candidateOffset of the add pass, the index in an op that is rewritten
  basePos,   \* baseIndex of the V1 scan; previousBaseEnd of the add pass
  pend,      \* pendingInsert or pendingDiff; the sparse payload that is being written
  todo, made, \* the ops a pass reads and writes
  mat,       \* what an output copy may refer to
  delta,     \* the encoded delta
  rest,      \* the readers of the decoder: control, insert and add streams
  built,     \* what the decoder has reconstructed
  summary

subjectVars == <<version, base, cand>>
decodeVars == <<rest, built>>
codeVars == <<delta, rest, built, summary>>
deltaVars == <<subjectVars, phase, passes, pos, basePos, pend, todo, made, mat, codeVars>>

Bytes == 0..(ByteValues - 1)
Slice(s, o, n) == SubSeq(s, o + 1, o + n)
From(s, o) == SubSeq(s, o + 1, Len(s))
Unset == [len |-> 0]

Op(kind, off, len, lit) == [kind |-> kind, off |-> off, len |-> len, lit |-> lit]
Copy(off, len) == Op("copy", off, len, <<>>)
Insert(lit) == Op("insert", 0, Len(lit), lit)
Add(off, lit) == Op("add", off, Len(lit), lit)
OutputCopy(off, len) == Op("output", off, len, <<>>)
Kinds == {"copy", "insert", "add", "sparse", "output"}

Flush(ops, bytes) == IF bytes = <<>> THEN ops ELSE Append(ops, Insert(bytes))

CommonPrefix(s, i, t, j) ==
  Max({n \in 0..Min({Len(s) - i, Len(t) - j}) : Slice(s, i, n) = Slice(t, j, n)})

AddDiff(old, new) == [i \in 1..Len(new) |-> (new[i] - old[i] + ByteValues) % ByteValues]
Undiff(old, diff) == [i \in 1..Len(diff) |-> (old[i] + diff[i]) % ByteValues]

-----------------------------------------------------------------------------
(* What an op yields after the bytes before it; no more than that of an op *)
(* outside the base.                                                       *)

(* A reader of bytes that is past the first p of them reads n.             *)
Reads(bytes, p, n) ==
  /\ p + Len(Uvarint(n)) <= Len(bytes)
  /\ \A i \in 1..Len(Uvarint(n)) : bytes[p + i] = Uvarint(n)[i]
HasNumber(bytes, p) == \E n \in Offsets : Reads(bytes, p, n)
Number(bytes, p) == CHOOSE n \in Offsets : Reads(bytes, p, n)
Past(bytes, p) == p + Len(Uvarint(Number(bytes, p)))

(* A sparse payload is one run after another: which place it is for, how   *)
(* long it is, and its bytes.                                              *)
RunOff(payload, p) == Number(payload, p)
RunLen(payload, p) == Number(payload, Past(payload, p))
RunBody(payload, p) == Past(payload, Past(payload, p))
RunEnd(payload, p) == RunBody(payload, p) + RunLen(payload, p)
HasRun(payload, p) ==
  HasNumber(payload, p) /\ HasNumber(payload, Past(payload, p)) /\ RunEnd(payload, p) <= Len(payload)

(* Where a reader stands when it reads a run: every set that has the       *)
(* beginning and goes on from run to run has these.                        *)
RunStarts(payload) ==
  LET places == 0..(Len(payload) - 1)
      follows(S) == \A q \in S : HasRun(payload, q) /\ RunEnd(payload, q) \in places => RunEnd(payload, q) \in S
  IN {p \in places : \A S \in SUBSET places : 0 \in S /\ follows(S) => p \in S}

SparseFits(payload, n) ==
  \A p \in RunStarts(payload) : HasRun(payload, p) /\ RunOff(payload, p) + RunLen(payload, p) <= n

InRun(payload, p, i) == RunOff(payload, p) < i /\ i <= RunOff(payload, p) + RunLen(payload, p)

ApplySparse(bytes, payload) ==
  [i \in 1..Len(bytes) |->
     IF \E p \in RunStarts(payload) : InRun(payload, p, i)
     THEN LET p == CHOOSE q \in RunStarts(payload) : InRun(payload, q, i) IN
          (bytes[i] + payload[RunBody(payload, p) + i - RunOff(payload, p)]) % ByteValues
     ELSE bytes[i]]

Yield(op, before) ==
  CASE op.kind = "insert" -> op.lit
    [] op.kind = "output" -> Slice(before, op.off, op.len)
    [] op.kind \in {"copy", "add", "sparse"} /\ op.off + op.len > Len(base) -> <<>>
    [] op.kind = "copy" /\ op.off + op.len <= Len(base) -> Slice(base, op.off, op.len)
    [] op.kind = "add" /\ op.off + op.len <= Len(base) -> Undiff(Slice(base, op.off, op.len), op.lit)
    [] op.kind = "sparse" /\ op.off + op.len <= Len(base) -> ApplySparse(Slice(base, op.off, op.len), op.lit)

(* the bytes a list of ops stands for                                      *)
Plain(ops) ==
  LET out[n \in 0..Len(ops)] == IF n = 0 THEN <<>> ELSE out[n - 1] \o Yield(ops[n], out[n - 1])
  IN out[Len(ops)]

-----------------------------------------------------------------------------
(* Passes of each strategy after the scan; a coalescing before each.       *)
Passes(v) ==
  (IF v >= 3 THEN <<"add">> ELSE <<>>) \o
  (IF v \in {4, 12} THEN <<"sparse">> ELSE <<>>) \o
  (IF v >= 10 THEN <<"reuse">> ELSE <<>>) \o <<"encode">>

NoBytes == [copy |-> 0, insert |-> 0, add |-> 0, sparse |-> 0, output |-> 0]

DeltaInit ==
  /\ version \in Strategies
  /\ base \in Bases /\ cand \in Candidates
  /\ phase = "scan" /\ passes = Passes(version)
  /\ pos = 0 /\ basePos = 0 /\ pend = <<>>
  /\ todo = <<>> /\ made = <<>> /\ mat = <<>>
  /\ delta = [magic |-> 0, control |-> <<>>, inserts |-> <<>>, adds |-> <<>>, transform |-> "raw", dictionary |-> <<>>]
  /\ rest = Unset /\ built = <<>> /\ summary = NoBytes

(* --- the scan of V1: run along, then resynchronise ---------------------- *)

Resync ==
  LET baseLeft == Len(base) - basePos
      candLeft == Len(cand) - pos
      window(left) == Min({left, Lookahead})
      wide == Min({MinAnchor, window(baseLeft), window(candLeft)})
      anchor == IF wide < MinTailAnchor THEN Min({MinTailAnchor, baseLeft, candLeft}) ELSE wide
      hits == {p \in (pos..(pos + window(candLeft) - anchor)) \X (basePos..(basePos + window(baseLeft) - anchor)) :
                 Slice(cand, p[1], anchor) = Slice(base, p[2], anchor)}
      first == Min({p[1] : p \in hits})
  IN IF baseLeft = 0 \/ anchor < MinTailAnchor \/ hits = {} THEN Unset
     ELSE [len |-> anchor, at |-> first, from |-> Min({p[2] : p \in {q \in hits : q[1] = first}})]

ScanRun ==
  /\ phase = "scan" /\ version = 1 /\ pos < Len(cand)
  /\ LET n == CommonPrefix(base, basePos, cand, pos) IN
       /\ n > 0
       /\ made' = Append(made, Copy(basePos, n))
       /\ pos' = pos + n /\ basePos' = basePos + n
  /\ UNCHANGED <<subjectVars, phase, passes, pend, todo, mat, codeVars>>

ScanResync ==
  /\ phase = "scan" /\ version = 1 /\ pos < Len(cand)
  /\ CommonPrefix(base, basePos, cand, pos) = 0
  /\ IF Resync = Unset
     THEN /\ made' = Append(made, Insert(From(cand, pos)))
          /\ pos' = Len(cand) /\ UNCHANGED basePos
     ELSE /\ made' = Flush(made, Slice(cand, pos, Resync.at - pos))
          /\ pos' = Resync.at /\ basePos' = Resync.from
  /\ UNCHANGED <<subjectVars, phase, passes, pend, todo, mat, codeVars>>

(* --- the scans of V2 and later: a seed is looked up in the base --------- *)

Hits(text, bytes, i) ==
  IF i + SeedBytes > Len(bytes) THEN {}
  ELSE {o \in 0..(Len(text) - SeedBytes) : Slice(text, o, SeedBytes) = Slice(bytes, i, SeedBytes)}
Lowest(S, n) == {o \in S : Cardinality({p \in S : p < o}) < n}
Highest(S, n) == {o \in S : Cardinality({p \in S : p > o}) < n}

(* the longest match of the offsets S: where it may start, how long it is  *)
Longest(S, text, bytes, i) ==
  LET n == Max({CommonPrefix(text, o, bytes, i) : o \in S})
  IN [len |-> n, at |-> {o \in S : CommonPrefix(text, o, bytes, i) = n}]

Least(v) == IF v >= 8 THEN MinCopyLong ELSE MinCopy

(* V2's index keeps the first offsets at a stride and takes the lowest of  *)
(* the longest; a suffix array returns any MaxOffsets, in any order.       *)
Finds ==
  LET all == Hits(base, cand, pos)
      lookups == IF version <= 4 THEN {Lowest({o \in all : o % AnchorStride = 0}, MaxOffsets)}
                 ELSE {S \in SUBSET all : Cardinality(S) = Min({Cardinality(all), MaxOffsets})}
      best == {Longest(S, base, cand, pos) : S \in lookups \ {{}}}
      starts(b) == IF version <= 4 THEN {Min(b.at)} ELSE b.at
  IN IF best = {} THEN {Unset}
     ELSE UNION {IF b.len < Least(version) THEN {Unset} ELSE {[len |-> b.len, at |-> o] : o \in starts(b)} : b \in best}

Extension(o) ==
  IF version < 6 THEN 0
  ELSE Max({n \in 0..Min({Len(pend), o}) : Slice(base, o - n, n) = From(pend, Len(pend) - n)})

ScanByte ==
  /\ phase = "scan" /\ version > 1 /\ pos < Len(cand)
  /\ Unset \in Finds
  /\ pend' = Append(pend, cand[pos + 1]) /\ pos' = pos + 1
  /\ UNCHANGED <<subjectVars, phase, passes, basePos, todo, made, mat, codeVars>>

ScanCopy ==
  /\ phase = "scan" /\ version > 1 /\ pos < Len(cand)
  /\ \E f \in Finds \ {Unset} :
       LET n == Extension(f.at) IN
         /\ made' = Append(Flush(made, SubSeq(pend, 1, Len(pend) - n)), Copy(f.at - n, f.len + n))
         /\ pos' = pos + f.len
  /\ pend' = <<>>
  /\ UNCHANGED <<subjectVars, phase, passes, basePos, todo, mat, codeVars>>

(* --- the end of a pass, coalesceCodeDeltaOps, and on to the next --------- *)

EndPass ==
  /\ \/ phase = "scan" /\ pos = Len(cand)
     \/ phase \in {"add", "sparse", "reuse"} /\ todo = <<>>
  /\ phase' = "coalesce"
  /\ todo' = Flush(made, pend) /\ made' = <<>> /\ pend' = <<>> /\ pos' = 0
  /\ UNCHANGED <<subjectVars, passes, basePos, mat, codeVars>>

Joins(last, op) ==
  /\ last.kind = op.kind
  /\ \/ op.kind = "insert"
     \/ op.kind \in {"add", "copy"} /\ last.off + last.len = op.off

Joined(last, op) == [last EXCEPT !.lit = @ \o op.lit, !.len = @ + op.len]

CoalesceOp ==
  /\ phase = "coalesce" /\ todo # <<>>
  /\ LET op == Head(todo)  n == Len(made) IN
       made' = IF op.len = 0 THEN made
               ELSE IF n > 0 /\ Joins(made[n], op) THEN [made EXCEPT ![n] = Joined(@, op)]
               ELSE Append(made, op)
  /\ todo' = Tail(todo)
  /\ UNCHANGED <<subjectVars, phase, passes, pos, basePos, pend, mat, codeVars>>

(* the encoders write the number of ops first                              *)
NextPass ==
  /\ phase = "coalesce" /\ todo = <<>>
  /\ phase' = Head(passes) /\ passes' = Tail(passes)
  /\ todo' = made /\ made' = <<>> /\ basePos' = -1
  /\ delta' = IF Head(passes) = "encode" THEN [delta EXCEPT !.control = <<Len(made)>>] ELSE delta
  /\ UNCHANGED <<subjectVars, pos, pend, mat, decodeVars, summary>>

(* --- the add pass: an insert near base bytes becomes their difference ---- *)

NextCopy == IF \E i \in 2..Len(todo) : todo[i].kind = "copy"
            THEN todo[Min({i \in 2..Len(todo) : todo[i].kind = "copy"})].off ELSE -1

AddOffsets(n) ==
  LET anchors == {pos} \cup (IF basePos >= 0 THEN {basePos} ELSE {})
                       \cup (IF NextCopy >= n THEN {NextCopy - n} ELSE {})
      radius == IF version <= 5 THEN 0 ELSE AddRadius
  IN {o \in 0..(Len(base) - n) : \E a \in anchors : a - radius <= o /\ o <= a + radius}

AddOp ==
  /\ phase = "add" /\ todo # <<>>
  /\ LET op == Head(todo) IN
       /\ \/ made' = Append(made, op)
          \/ /\ op.kind = "insert" /\ op.len >= MinAdd
             /\ \E o \in AddOffsets(op.len) :
                  made' = Append(made, Add(o, AddDiff(Slice(base, o, op.len), op.lit)))
       /\ pos' = pos + op.len
       /\ basePos' = IF op.kind = "copy" THEN op.off + op.len ELSE basePos
  /\ todo' = Tail(todo)
  /\ UNCHANGED <<subjectVars, phase, passes, pend, mat, codeVars>>

(* --- the sparse pass: V4 decides for each add, V12 for all at once ------- *)

CanBeSparse(op) == op.kind = "add" /\ op.len >= MinSparse
NonZero(diff, i) == {j \in i..(Len(diff) - 1) : diff[j + 1] # 0}

SparseKeep ==
  /\ phase = "sparse" /\ todo # <<>> /\ pos = 0
  /\ LET op == Head(todo) IN CanBeSparse(op) => version = 4 /\ NonZero(op.lit, 0) # {}
  /\ made' = Append(made, Head(todo)) /\ todo' = Tail(todo)
  /\ UNCHANGED <<subjectVars, phase, passes, pos, basePos, pend, mat, codeVars>>

SparseKeepAll ==
  /\ phase = "sparse" /\ version = 12 /\ made = <<>> /\ pos = 0
  /\ made' = todo /\ todo' = <<>>
  /\ UNCHANGED <<subjectVars, phase, passes, pos, basePos, pend, mat, codeVars>>

SparseRun ==
  /\ phase = "sparse" /\ todo # <<>> /\ CanBeSparse(Head(todo))
  /\ LET diff == Head(todo).lit
         start == Min(NonZero(diff, pos))
         end == Min({j \in start..Len(diff) : j = Len(diff) \/ diff[j + 1] = 0})
     IN /\ NonZero(diff, pos) # {}
        /\ pend' = pend \o Uvarint(start) \o Uvarint(end - start) \o Slice(diff, start, end - start)
        /\ pos' = end
  /\ UNCHANGED <<subjectVars, phase, passes, basePos, todo, made, mat, codeVars>>

SparseEnd ==
  /\ phase = "sparse" /\ todo # <<>> /\ CanBeSparse(Head(todo))
  /\ LET op == Head(todo) IN
       /\ NonZero(op.lit, pos) = {}
       /\ made' = Append(made, IF pend = <<>> THEN Copy(op.off, op.len) ELSE Op("sparse", op.off, op.len, pend))
  /\ todo' = Tail(todo) /\ pend' = <<>> /\ pos' = 0
  /\ UNCHANGED <<subjectVars, phase, passes, basePos, mat, codeVars>>

(* --- the output-copy pass: bytes that were produced before are reused ---- *)

(* V10 takes the first of its first matches, V11 the last of its last.     *)
Reused(data, bytes, i) ==
  LET hits == IF Len(data) < MinReuse \/ Len(bytes) - i < MinReuse THEN {} ELSE Hits(data, bytes, i)
      kept == IF version = 10 THEN Lowest(hits, MaxOffsets) ELSE Highest(hits, MaxOffsets)
      best == Longest(kept, data, bytes, i)
  IN IF kept = {} THEN Unset ELSE IF best.len < MinReuse THEN Unset
     ELSE [len |-> best.len, at |-> IF version = 10 THEN Min(best.at) ELSE Max(best.at)]

(* A literal is an insert's, or from V11 on an add's, whose copies are     *)
(* only in the buffer once all of it is.  Whether an add is cut at all     *)
(* depends on sizes.                                                       *)
Piece(op, from, bytes) == IF op.kind = "insert" THEN Insert(bytes) ELSE Add(op.off + from, bytes)
Cut(ops, op) == IF pend = <<>> THEN ops ELSE Append(ops, Piece(op, pos - Len(pend), pend))
CanBeCut(op) == op.kind = "insert" \/ (op.kind = "add" /\ version > 10)
Wanted(op) == IF op.kind = "insert" THEN op.lit ELSE Yield(op, mat)

ReuseKeep ==
  /\ phase = "reuse" /\ todo # <<>> /\ pos = 0 /\ Head(todo).kind # "insert"
  /\ made' = Append(made, Head(todo)) /\ mat' = mat \o Yield(Head(todo), mat) /\ todo' = Tail(todo)
  /\ UNCHANGED <<subjectVars, phase, passes, pos, basePos, pend, codeVars>>

ReuseByte ==
  /\ phase = "reuse" /\ todo # <<>>
  /\ LET op == Head(todo) IN
       /\ CanBeCut(op) /\ pos < op.len /\ Reused(mat, Wanted(op), pos) = Unset
       /\ pend' = Append(pend, op.lit[pos + 1]) /\ pos' = pos + 1
       /\ mat' = IF op.kind = "insert" THEN Append(mat, op.lit[pos + 1]) ELSE mat
  /\ UNCHANGED <<subjectVars, phase, passes, basePos, todo, made, codeVars>>

ReuseCopy ==
  /\ phase = "reuse" /\ todo # <<>>
  /\ LET op == Head(todo)  f == Reused(mat, Wanted(op), pos) IN
       /\ CanBeCut(op) /\ pos < op.len /\ f # Unset
       /\ made' = Append(Cut(made, op), OutputCopy(f.at, f.len))
       /\ pend' = <<>> /\ pos' = pos + f.len
       /\ mat' = IF op.kind = "insert" THEN mat \o Slice(mat, f.at, f.len) ELSE mat
  /\ UNCHANGED <<subjectVars, phase, passes, basePos, todo, codeVars>>

\* Mutant: the index does not grow by an add that was cut.
ReuseEndUnindexed ==
  /\ phase = "reuse" /\ todo # <<>>
  /\ CanBeCut(Head(todo)) /\ pos = Head(todo).len
  /\ made' = Cut(made, Head(todo))
  /\ todo' = Tail(todo) /\ pend' = <<>> /\ pos' = 0
  /\ UNCHANGED <<subjectVars, phase, passes, basePos, mat, codeVars>>

ReuseEnd ==
  /\ phase = "reuse" /\ todo # <<>>
  /\ LET op == Head(todo) IN
       /\ CanBeCut(op) /\ pos = op.len
       /\ made' = Cut(made, op)
       /\ mat' = IF op.kind = "insert" THEN mat ELSE mat \o Wanted(op)
  /\ todo' = Tail(todo) /\ pend' = <<>> /\ pos' = 0
  /\ UNCHANGED <<subjectVars, phase, passes, basePos, codeVars>>

-----------------------------------------------------------------------------
(* Encoding.  Up to V6 one stream holds everything; later the literals of  *)
(* inserts and adds have streams of their own, compressed one by one.      *)

Header(op) == <<op.kind, op.off, op.len>> \o (IF op.kind = "sparse" THEN <<Len(op.lit)>> ELSE <<>>)

EncodeOp ==
  /\ phase = "encode" /\ todo # <<>>
  /\ LET op == Head(todo) IN
       /\ delta' = IF version <= 6 THEN [delta EXCEPT !.control = @ \o (Header(op) \o op.lit)]
                   ELSE [delta EXCEPT !.control = @ \o Header(op),
                                      !.inserts = @ \o (IF op.kind = "insert" THEN op.lit ELSE <<>>),
                                      !.adds = @ \o (IF op.kind \in {"add", "sparse"} THEN op.lit ELSE <<>>)]
       /\ summary' = [summary EXCEPT ![op.kind] = @ + op.len]
       /\ made' = Append(made, op)
  /\ todo' = Tail(todo)
  /\ UNCHANGED <<subjectVars, phase, passes, pos, basePos, pend, mat, decodeVars>>

(* the ops a control stream holds, without their literals                  *)
ControlOps(control) ==
  LET next(i) == IF control[i] = "sparse" THEN i + 4 ELSE i + 3
      start[n \in 1..control[1]] == IF n = 1 THEN 2 ELSE next(start[n - 1])
  IN [n \in 1..control[1] |-> [kind |-> control[start[n]], off |-> control[start[n] + 1], len |-> control[start[n] + 2]]]

(* The dictionary of the insert stream: the start of the base in V7, later *)
(* the base bytes around the end of the last base-backed op before each    *)
(* insert.                                                                 *)
ContextDictionary(control) ==
  LET ops == ControlOps(control)
      backed(i) == {j \in 1..(i - 1) : ops[j].kind \in {"copy", "add", "sparse"}}
      end(i) == IF backed(i) = {} THEN 0 ELSE ops[Max(backed(i))].off + ops[Max(backed(i))].len
      around(e) == SubSeq(base, Max({0, e - ContextRadius}) + 1, Min({Len(base), e + ContextRadius}))
  IN FlattenSeq([i \in DOMAIN ops |-> IF ops[i].kind = "insert" THEN around(end(i)) ELSE <<>>])
Dictionary(v, control) == IF v = 7 THEN base ELSE ContextDictionary(control)

(* Add transforms.                                                         *)
Before(s, i) == IF i = 1 THEN 0 ELSE s[i - 1]

(* the numbers of S in rising order                                        *)
Rising(S) == [k \in 1..Cardinality(S) |-> CHOOSE i \in S : Cardinality({j \in S : j <= i}) = k]
Indices(s, T) == Rising({i \in 1..Len(s) : s[i] \in T})
Selected(s, T) == [k \in 1..Len(Indices(s, T)) |-> s[Indices(s, T)[k]]]
Others == Bytes \ {0, 1}

Bitplane(s) == [codes |-> [i \in 1..Len(s) |-> IF s[i] \in Others THEN 2 ELSE s[i]], raw |-> Selected(s, Others)]

(* gaps between the ones, gaps between the others, values of the others    *)
Gaps(places) == [k \in 1..Len(places) |-> places[k] - Before(places, k)]
OneOther(s) ==
  [length |-> Len(s), ones |-> Gaps(Indices(s, {1})), others |-> Gaps(Indices(s, Others)), values |-> Selected(s, Others)]

Transforms(v) == CASE v = 12 -> {"raw", "delta", "xor"} [] v = 13 -> {"raw", "delta", "xor", "bitplane"}
                   [] v = 14 -> {"oneother"} [] OTHER -> {"raw"}
Transform(s, t) ==
  CASE t = "raw" -> s
    [] t = "delta" -> [i \in 1..Len(s) |-> (s[i] - Before(s, i) + ByteValues) % ByteValues]
    [] t = "xor" -> [i \in 1..Len(s) |-> ByteXor(s[i], Before(s, i))]
    [] t = "bitplane" -> Bitplane(s)
    [] t = "oneother" -> OneOther(s)

RestoreBitplane(r) ==
  [i \in 1..Len(r.codes) |->
     IF r.codes[i] = 2 THEN r.raw[Cardinality({j \in 1..i : r.codes[j] = 2})] ELSE r.codes[i]]
BitplaneFits(r) ==
  /\ \A i \in 1..Len(r.codes) : r.codes[i] \in {0, 1, 2}
  /\ Cardinality({j \in 1..Len(r.codes) : r.codes[j] = 2}) = Len(r.raw)

Places(gaps) ==
  LET at[k \in 0..Len(gaps)] == IF k = 0 THEN 0 ELSE at[k - 1] + gaps[k] IN [k \in 1..Len(gaps) |-> at[k]]
RestoreOneOther(r) ==
  LET ones == Places(r.ones)  others == Places(r.others) IN
  [i \in 1..r.length |->
     IF i \in Range(others) THEN r.values[CHOOSE k \in DOMAIN others : others[k] = i]
     ELSE IF i \in Range(ones) THEN 1 ELSE 0]

(* every place is in the stream and has one value                          *)
OneOtherFits(r) ==
  LET ones == Places(r.ones)  others == Places(r.others) IN
  /\ Range(ones) \subseteq 1..r.length /\ Range(others) \subseteq 1..r.length
  /\ Range(ones) \cap Range(others) = {}
  /\ \A j, k \in DOMAIN others : others[j] = others[k] => j = k
  /\ Len(r.values) = Len(others)

RestoreDelta(s) ==
  LET byte[i \in 0..Len(s)] == IF i = 0 THEN 0 ELSE (byte[i - 1] + s[i]) % ByteValues IN [i \in 1..Len(s) |-> byte[i]]
RestoreXor(s) ==
  LET byte[i \in 0..Len(s)] == IF i = 0 THEN 0 ELSE ByteXor(s[i], byte[i - 1]) IN [i \in 1..Len(s) |-> byte[i]]
Restore(s, t) ==
  CASE t = "raw" -> s
    [] t = "delta" -> RestoreDelta(s)
    [] t = "xor" -> RestoreXor(s)
    [] t = "bitplane" -> RestoreBitplane(s)
Restorable(s, t) == t = "bitplane" => BitplaneFits(s)

Encode ==
  /\ phase = "encode" /\ todo = <<>>
  /\ \E t \in Transforms(version) :
       delta' = IF version <= 6 THEN [delta EXCEPT !.magic = version]
                ELSE [delta EXCEPT !.magic = version, !.transform = t, !.adds = Transform(@, t),
                                   !.dictionary = Dictionary(version, delta.control)]
  /\ phase' = "open"
  /\ UNCHANGED <<subjectVars, passes, pos, basePos, pend, todo, made, mat, decodeVars, summary>>

-----------------------------------------------------------------------------
(* Decoding: the streams are opened, then one op after the other applied.  *)

Readers(adds) ==
  [ops |-> delta.control[1], control |-> Tail(delta.control), inserts |-> delta.inserts, adds |-> adds]

OpenOneStream ==
  /\ phase = "open" /\ delta.magic <= 6
  /\ rest' = Readers(<<>>)
  /\ phase' = "decode"
  /\ UNCHANGED <<subjectVars, passes, pos, basePos, pend, todo, made, mat, delta, built, summary>>

(* A stream that was compressed with a dictionary opens with the same one; *)
(* an add stream that cannot be restored is refused.                       *)
OpenSplit(adds, restorable) ==
  /\ phase = "open"
  /\ IF Dictionary(delta.magic, delta.control) # delta.dictionary \/ ~restorable
     THEN phase' = "refused" /\ UNCHANGED rest
     ELSE phase' = "decode" /\ rest' = Readers(adds)
  /\ UNCHANGED <<subjectVars, passes, pos, basePos, pend, todo, made, mat, delta, built, summary>>

OpenPlainAdds == phase = "open" /\ delta.magic \in 7..11 /\ OpenSplit(delta.adds, TRUE)
OpenTransformedAdds ==
  phase = "open" /\ delta.magic \in {12, 13}
  /\ OpenSplit(Restore(delta.adds, delta.transform), Restorable(delta.adds, delta.transform))
OpenOneOtherAdds ==
  phase = "open" /\ delta.magic = 14 /\ OpenSplit(RestoreOneOther(delta.adds), OneOtherFits(delta.adds))

(* the stream a literal is read from                                       *)
Reader(kind) == IF delta.magic <= 6 THEN "control" ELSE IF kind = "insert" THEN "inserts" ELSE "adds"

(* what makes a decoder refuse an op: base bytes or output that is not     *)
(* there, a literal longer than its stream, and in a one-stream delta an   *)
(* output copy or a read at the end of the stream                          *)
RefusedByOneStream(kind, off, len, want, left) ==
  \/ kind = "output"
  \/ kind \in {"copy", "add", "sparse"} /\ off + len > Len(base)
  \/ want > Len(left)
  \/ kind \in {"insert", "add", "sparse"} /\ left = <<>>
RefusedBySplit(kind, off, len, want, left) ==
  \/ kind \in {"copy", "add", "sparse"} /\ off + len > Len(base)
  \/ kind = "output" /\ off + len > Len(built)
  \/ want > Len(left)

Decode ==
  /\ phase = "decode" /\ rest.ops > 0
  /\ LET kind == rest.control[1]
         off == rest.control[2]
         len == rest.control[3]
         head == IF kind = "sparse" THEN 4 ELSE 3
         want == CASE kind = "sparse" -> rest.control[4] [] kind \in {"insert", "add"} -> len [] OTHER -> 0
         r == [rest EXCEPT !.control = From(@, head), !.ops = @ - 1]
         from == Reader(kind)
         lit == Slice(r[from], 0, want)
         refused == \/ IF delta.magic <= 6 THEN RefusedByOneStream(kind, off, len, want, r[from])
                       ELSE RefusedBySplit(kind, off, len, want, r[from])
                    \/ kind = "sparse" /\ ~SparseFits(lit, len)
     IN IF refused THEN phase' = "refused" /\ UNCHANGED decodeVars
        ELSE /\ built' = built \o Yield(Op(kind, off, len, lit), built)
             /\ rest' = [r EXCEPT ![from] = From(@, want)]
             /\ UNCHANGED phase
  /\ UNCHANGED <<subjectVars, passes, pos, basePos, pend, todo, made, mat, delta, summary>>

(* bytes left over are refused; so is a reconstruction that differs from   *)
(* the candidate, and no bundle is written then                            *)
Leftover == rest.control # <<>> \/ (delta.magic > 6 /\ (rest.inserts # <<>> \/ rest.adds # <<>>))
VerifyDelta ==
  /\ phase = "decode" /\ rest.ops = 0
  /\ phase' = IF Leftover \/ built # cand THEN "refused" ELSE "written"
  /\ UNCHANGED <<subjectVars, passes, pos, basePos, pend, todo, made, mat, codeVars>>

Done == phase \in {"written", "refused"} /\ UNCHANGED deltaVars

DeltaNext ==
  \/ ScanRun \/ ScanResync \/ ScanByte \/ ScanCopy
  \/ EndPass \/ CoalesceOp \/ NextPass
  \/ AddOp
  \/ SparseKeep \/ SparseKeepAll \/ SparseRun \/ SparseEnd
  \/ ReuseKeep \/ ReuseByte \/ ReuseCopy \/ ReuseEnd
  \/ EncodeOp \/ Encode
  \/ OpenOneStream \/ OpenPlainAdds \/ OpenTransformedAdds \/ OpenOneOtherAdds
  \/ Decode \/ VerifyDelta
  \/ Done

DeltaSpec == DeltaInit /\ [][DeltaNext]_deltaVars

-----------------------------------------------------------------------------
(* Every byte that is computed is a byte: differences and transforms wrap  *)
(* (buildCodeDeltaAddDiff, transformCodeDeltaAddStream).                   *)
DeltaTypeOK ==
  /\ phase \in {"scan", "coalesce", "add", "sparse", "reuse", "encode", "open", "decode", "written", "refused"}
  /\ Range(pend) \subseteq Bytes /\ Range(mat) \subseteq Bytes /\ Range(built) \subseteq Bytes
  /\ \A ops \in {todo, made} : \A op \in Range(ops) :
       /\ op.kind \in Kinds
       /\ op.kind \in {"insert", "add"} => op.len = Len(op.lit)
       /\ Range(op.lit) \subseteq Bytes

(* what an op that is being cut has left, with what waits to be written    *)
Uncut(op) == <<Piece(op, pos - Len(pend), pend \o From(op.lit, pos))>>

(* At every step of every pass the ops written so far, what is pending and *)
(* what is still to be read make up the candidate: no pass loses, repeats  *)
(* or moves a byte.                                                        *)
NothingLost ==
  /\ phase = "scan" => Plain(made) \o pend \o From(cand, pos) = cand
  /\ phase \in {"coalesce", "add", "sparse", "encode"} \/ (phase = "reuse" /\ pos = 0) => Plain(made \o todo) = cand
  /\ phase = "reuse" /\ pos > 0 => Plain(made \o Uncut(Head(todo)) \o Tail(todo)) = cand
  /\ phase \in {"open", "decode"} => Plain(made) = cand

(* The buffer an output copy is looked up in is what a decoder will have   *)
(* produced by then, also after an add was cut into output copies.         *)
IndexInStep ==
  /\ phase = "reuse" /\ pos = 0 => mat = Plain(made)
  /\ phase = "reuse" /\ pos > 0 /\ Head(todo).kind = "insert" => mat = Plain(made) \o pend

(* A delta rebuilds its candidate: the decoder never refuses what the      *)
(* encoder of the same strategy wrote, and the bundle is never withheld.   *)
NeverRefused == phase # "refused"

(* The counts of the report add up to the candidate's size.                *)
SummaryAddsUp ==
  phase \in {"open", "decode", "written"} =>
    summary.copy + summary.insert + summary.add + summary.sparse + summary.output = Len(cand)

(* Every pass keeps the candidate and its books, and what a strategy writes*)
(* its decoder reads back.                                                 *)
Lossless == DeltaTypeOK /\ NothingLost /\ IndexInStep /\ NeverRefused /\ SummaryAddsUp
=============================================================================
