---------------------------- MODULE DeltaProofs -----------------------------
(***************************************************************************)
(* The code delta of an Android patch loses nothing                        *)
(* (android_code_delta.go): for any base, any candidate, any strategy and  *)
(* whatever the compressed sizes decide, the decoder rebuilds the          *)
(* candidate from what the encoder wrote. The invariant, DeltaInv, says    *)
(* for each phase which places of the candidate the ops stand for (Covers, *)
(* Fits), and of the encoded delta that each of its streams is what the    *)
(* ops put into it one after the other (Holds).                            *)
(***************************************************************************)
EXTENDS AndroidDelta, WellFoundedInduction, FiniteSetTheorems, TLAPS

(* A set of numbers has a least one.                                       *)
LEMMA LeastOf ==
    ASSUME NEW T, T \subseteq Nat, T # {}
    PROVE  \E x \in T : \A y \in T : x <= y
<1>1. PICK x \in T : \A y \in T : <<y, x>> \notin OpToRel(<, Nat)
  BY NatLessThanWellFounded, WFMin
<1>2. x \in Nat /\ \A y \in T : y \in Nat /\ ~(y < x)
  BY <1>1 DEF OpToRel
<1>3. \A y \in T : x <= y
  BY <1>2
<1> QED
  BY <1>3

(* A set that has 0 and with a number the next one has them all.           *)
LEMMA Inductive ==
    ASSUME NEW T, 0 \in T, \A n \in Nat : n \in T => n + 1 \in T
    PROVE  Nat \subseteq T
<1> SUFFICES ASSUME Nat \ T # {} PROVE FALSE
  OBVIOUS
<1>1. PICK m \in Nat \ T : \A k \in Nat \ T : m <= k
  BY LeastOf
<1>2. m # 0 /\ m - 1 \in Nat /\ (m - 1) + 1 = m
  BY <1>1
<1>3. m - 1 \in T
  BY <1>1, <1>2
<1> QED
  BY <1>1, <1>2, <1>3

(* A set of numbers with a bound has a greatest one.                       *)
LEMMA GreatestOf ==
    ASSUME NEW T, T \subseteq Nat, T # {}, NEW b \in Nat, \A x \in T : x <= b
    PROVE  \E x \in T : \A y \in T : y <= x
<1> DEFINE U == {u \in Nat : \A x \in T : x <= u}
<1>1. U \subseteq Nat /\ b \in U
  OBVIOUS
<1>2. PICK u \in U : \A v \in U : u <= v
  BY <1>1, LeastOf
<1>3. SUFFICES ASSUME u \notin T PROVE FALSE
  BY <1>2
<1>4. \A x \in T : x \in Nat /\ x <= u - 1
  BY <1>1, <1>2, <1>3
<1>5. u - 1 \in U
  <2>1. PICK z \in T : z \in Nat /\ z <= u - 1
    BY <1>4
  <2> QED
    BY <1>1, <1>4, <2>1
<1> QED
  BY <1>1, <1>2, <1>5

(* The community modules CHOOSE the least and the greatest of a set: they  *)
(* are.                                                                    *)
LEMMA MinIs ==
    ASSUME NEW T, T \subseteq Nat, T # {}
    PROVE  Min(T) \in T /\ \A y \in T : Min(T) <= y
BY LeastOf DEF Min

LEMMA MaxIs ==
    ASSUME NEW T, T \subseteq Nat, T # {}, NEW b \in Nat, \A x \in T : x <= b
    PROVE  Max(T) \in T /\ \A y \in T : y <= Max(T)
<1>1. \E x \in T : \A y \in T : y <= x
  BY GreatestOf
<1>2. PICK x \in T : \A y \in T : y <= x
  BY <1>1
<1>3. \A y \in T : x >= y
  BY <1>2
<1>4. Max(T) \in T /\ \A y \in T : Max(T) >= y
  BY <1>3 DEF Max
<1> QED
  BY <1>4

-----------------------------------------------------------------------------
(* Sequences, item by item.                                                *)

(* Sequences are the same when their items are.                            *)
LEMMA SameSeq ==
    ASSUME NEW S, NEW s \in Seq(S), NEW t \in Seq(S), Len(s) = Len(t), \A i \in 1..Len(s) : s[i] = t[i]
    PROVE  s = t
OBVIOUS

(* What a slice, a prefix and a rest have: as many items as asked for, in  *)
(* order.                                                                  *)
LEMMA SliceIs ==
    ASSUME NEW S, NEW s \in Seq(S), NEW o \in Nat, NEW n \in Nat, o + n <= Len(s)
    PROVE  /\ Slice(s, o, n) \in Seq(S)
           /\ Len(Slice(s, o, n)) = n
           /\ \A i \in 1..n : Slice(s, o, n)[i] = s[o + i]
BY DEF Slice

(* The same of bytes, which is what the provers find at once.             *)
LEMMA ByteSlice ==
    ASSUME NEW s \in Seq(Bytes), NEW o \in Nat, NEW n \in Nat, o + n <= Len(s)
    PROVE  /\ Slice(s, o, n) \in Seq(Bytes)
           /\ Len(Slice(s, o, n)) = n
           /\ \A i \in 1..n : Slice(s, o, n)[i] = s[o + i]
BY DEF Slice

LEMMA PrefixIs ==
    ASSUME NEW S, NEW s \in Seq(S), NEW n \in Nat, n <= Len(s)
    PROVE  /\ Slice(s, 0, n) \in Seq(S)
           /\ Len(Slice(s, 0, n)) = n
           /\ \A i \in 1..n : Slice(s, 0, n)[i] = s[i]
BY DEF Slice

LEMMA FromIs ==
    ASSUME NEW S, NEW s \in Seq(S), NEW o \in Nat, o <= Len(s)
    PROVE  /\ From(s, o) \in Seq(S)
           /\ Len(From(s, o)) = Len(s) - o
           /\ \A i \in 1..(Len(s) - o) : From(s, o)[i] = s[o + i]
BY DEF From

LEMMA CatIs ==
    ASSUME NEW S, NEW s \in Seq(S), NEW t \in Seq(S)
    PROVE  /\ s \o t \in Seq(S)
           /\ Len(s \o t) = Len(s) + Len(t)
           /\ \A i \in 1..Len(s) : (s \o t)[i] = s[i]
           /\ \A i \in 1..Len(t) : (s \o t)[Len(s) + i] = t[i]
OBVIOUS

(* A sequence that has the items of s and then those of t is s \o t.       *)
LEMMA CatEq ==
    ASSUME NEW S, NEW s \in Seq(S), NEW t \in Seq(S), NEW u \in Seq(S), Len(u) = Len(s) + Len(t),
           \A i \in 1..Len(s) : u[i] = s[i], \A i \in 1..Len(t) : u[Len(s) + i] = t[i]
    PROVE  s \o t = u
<1>1. s \o t \in Seq(S) /\ Len(s \o t) = Len(u)
  BY CatIs
<1>2. ASSUME NEW i \in 1..Len(u) PROVE (s \o t)[i] = u[i]
  <2>1. CASE i <= Len(s)
    <3>1. i \in 1..Len(s)
      BY <2>1
    <3> QED
      BY <3>1, CatIs
  <2>2. CASE i > Len(s)
    <3>1. i - Len(s) \in 1..Len(t) /\ Len(s) + (i - Len(s)) = i
      BY <2>2
    <3>2. (s \o t)[Len(s) + (i - Len(s))] = t[i - Len(s)] /\ u[Len(s) + (i - Len(s))] = t[i - Len(s)]
      BY SMTT(30), <3>1, CatIs
    <3> QED
      BY <3>1, <3>2
  <2> QED
    BY <2>1, <2>2
<1> QED
  BY <1>1, <1>2, SameSeq

(* Slices that follow one another are one slice.                           *)
LEMMA SliceOn ==
    ASSUME NEW S, NEW s \in Seq(S), NEW n \in Nat, NEW m \in Nat, n + m <= Len(s)
    PROVE  Slice(s, 0, n) \o Slice(s, n, m) = Slice(s, 0, n + m)
<1>0. n <= Len(s) /\ n + m \in Nat
  OBVIOUS
<1>1. /\ Slice(s, 0, n) \in Seq(S) /\ Len(Slice(s, 0, n)) = n
      /\ \A i \in 1..n : Slice(s, 0, n)[i] = s[i]
  BY <1>0, PrefixIs
<1>2. /\ Slice(s, n, m) \in Seq(S) /\ Len(Slice(s, n, m)) = m
      /\ \A i \in 1..m : Slice(s, n, m)[i] = s[n + i]
  BY SliceIs
<1>3. /\ Slice(s, 0, n + m) \in Seq(S) /\ Len(Slice(s, 0, n + m)) = n + m
      /\ \A i \in 1..(n + m) : Slice(s, 0, n + m)[i] = s[i]
  BY <1>0, PrefixIs
<1>4. \A i \in 1..n : i \in 1..(n + m)
  OBVIOUS
<1>5. \A i \in 1..m : n + i \in 1..(n + m)
  OBVIOUS
<1>6. \A i \in 1..Len(Slice(s, 0, n)) : Slice(s, 0, n + m)[i] = Slice(s, 0, n)[i]
  BY <1>1, <1>3, <1>4
<1>7. \A i \in 1..Len(Slice(s, n, m)) : Slice(s, 0, n + m)[Len(Slice(s, 0, n)) + i] = Slice(s, n, m)[i]
  BY <1>1, <1>2, <1>3, <1>5
<1>8. Len(Slice(s, 0, n + m)) = Len(Slice(s, 0, n)) + Len(Slice(s, n, m))
  BY <1>1, <1>2, <1>3
<1> QED
  BY <1>1, <1>2, <1>3, <1>6, <1>7, <1>8, CatEq, Zenon

LEMMA SliceAll ==
    ASSUME NEW S, NEW s \in Seq(S)
    PROVE  Slice(s, 0, Len(s)) = s
<1>1. /\ Slice(s, 0, Len(s)) \in Seq(S) /\ Len(Slice(s, 0, Len(s))) = Len(s)
      /\ \A i \in 1..Len(s) : Slice(s, 0, Len(s))[i] = s[i]
  BY SliceIs
<1> QED
  BY <1>1, SameSeq

LEMMA SliceNone ==
    ASSUME NEW S, NEW s \in Seq(S), NEW o \in Nat, o <= Len(s)
    PROVE  Slice(s, o, 0) = <<>>
BY SliceIs

LEMMA FromIsSlice ==
    ASSUME NEW S, NEW s \in Seq(S), NEW o \in Nat, o <= Len(s)
    PROVE  From(s, o) = Slice(s, o, Len(s) - o)
BY DEF From, Slice

-----------------------------------------------------------------------------
(* Bytes.                                                                  *)

(* A difference of bytes is a byte, and added again it gives the byte back *)
(* (buildCodeDeltaAddDiff, applyCodeDeltaAdd).                             *)
LEMMA ByteArith ==
    /\ \A x, y \in Bytes : (x + y) % ByteValues \in Bytes
    /\ \A x, y \in Bytes : (x - y + ByteValues) % ByteValues \in Bytes
    /\ \A x, y \in Bytes : (y + ((x - y + ByteValues) % ByteValues)) % ByteValues = x
    /\ \A x \in Bytes : (x + 0) % ByteValues = x
<1>1. ByteValues \in Nat \ {0}
  BY DeltaAssumption
<1>2. \A x, y \in Bytes : (x + y) % ByteValues \in Bytes
  BY <1>1, SMTT(30) DEF Bytes
<1>3. \A x, y \in Bytes : (x - y + ByteValues) % ByteValues \in Bytes
  BY <1>1, SMTT(30) DEF Bytes
<1>4. \A x, y \in Bytes : (y + ((x - y + ByteValues) % ByteValues)) % ByteValues = x
  BY <1>1, SMTT(30) DEF Bytes
<1>5. \A x \in Bytes : (x + 0) % ByteValues = x
  BY <1>1, SMTT(30) DEF Bytes
<1> QED
  BY <1>2, <1>3, <1>4, <1>5

LEMMA Difference ==
    ASSUME NEW x \in Bytes, NEW y \in Bytes
    PROVE  \E z \in Bytes : z = (x - y + ByteValues) % ByteValues /\ (y + z) % ByteValues = x
<1>1. (x - y + ByteValues) % ByteValues \in Bytes
  BY ByteArith, Zenon
<1>2. (y + ((x - y + ByteValues) % ByteValues)) % ByteValues = x
  BY ByteArith, Zenon
<1> WITNESS (x - y + ByteValues) % ByteValues \in Bytes
<1> QED
  BY <1>2, Zenon

-----------------------------------------------------------------------------
(* What an op stands for at a place of the candidate c, and a list of ops  *)
(* between two places.                                                     *)

Ops == [kind : Kinds, off : Nat, len : Nat, lit : Seq(Bytes)]

(* op yields the bytes of the candidate c from place at on, and its decoder*)
(* finds what it refers to: base bytes, or output that is there by then.   *)
Fits(b, c, op, at) ==
  /\ at + op.len <= Len(c)
  /\ op.kind \in {"insert", "add"} => Len(op.lit) = op.len
  /\ op.kind \in {"copy", "output"} => op.lit = <<>>
  /\ op.kind = "insert" => \A i \in 1..op.len : op.lit[i] = c[at + i]
  /\ op.kind = "output" => op.off + op.len <= at /\ \A i \in 1..op.len : c[op.off + i] = c[at + i]
  /\ op.kind \in {"copy", "add", "sparse"} => op.off + op.len <= Len(b)
  /\ op.kind = "copy" => \A i \in 1..op.len : b[op.off + i] = c[at + i]
  /\ op.kind = "add" => \A i \in 1..op.len : (b[op.off + i] + op.lit[i]) % ByteValues = c[at + i]
  /\ op.kind = "sparse" => /\ op.lit # <<>> /\ SparseFits(op.lit, op.len)
                           /\ \A i \in 1..op.len : ApplySparse(Slice(b, op.off, op.len), op.lit)[i] = c[at + i]

(* the ops yield the bytes of c between from and to, each from the place   *)
(* the one before it has come to                                           *)
Covers(b, c, ops, from, to) ==
  \E at \in [0..Len(ops) -> Nat] :
    /\ at[0] = from /\ at[Len(ops)] = to
    /\ \A i \in 1..Len(ops) : at[i] = at[i - 1] + ops[i].len /\ Fits(b, c, ops[i], at[i - 1])

(* No ops stand between a place and itself; one op more covers what it     *)
(* yields; the first may be taken.                                         *)
LEMMA NoOps ==
    ASSUME NEW b, NEW c, NEW k \in Nat
    PROVE  Covers(b, c, <<>>, k, k)
<1> DEFINE at == [i \in 0..0 |-> k]
<1>1. at \in [0..0 -> Nat] /\ at[0] = k /\ Len(<<>>) = 0
  OBVIOUS
<1> HIDE DEF at
<1>2. \A i \in 1..0 : FALSE
  OBVIOUS
<1> QED
  BY <1>1, <1>2 DEF Covers

LEMMA OneMore ==
    ASSUME NEW b, NEW c, NEW ops \in Seq(Ops), NEW from, NEW to, Covers(b, c, ops, from, to),
           NEW op \in Ops, Fits(b, c, op, to)
    PROVE  Covers(b, c, Append(ops, op), from, to + op.len)
<1>1. PICK at \in [0..Len(ops) -> Nat] :
        /\ at[0] = from /\ at[Len(ops)] = to
        /\ \A i \in 1..Len(ops) : at[i] = at[i - 1] + ops[i].len /\ Fits(b, c, ops[i], at[i - 1])
  BY DEF Covers
<1>2. op.len \in Nat /\ Len(ops) \in Nat
  BY DEF Ops
<1> DEFINE new == Append(ops, op)
           go == [i \in 0..Len(new) |-> IF i <= Len(ops) THEN at[i] ELSE to + op.len]
<1>3. Len(new) = Len(ops) + 1 /\ new[Len(ops) + 1] = op /\ \A i \in 1..Len(ops) : new[i] = ops[i]
  OBVIOUS
<1>4. go \in [0..Len(new) -> Nat] /\ go[0] = from /\ go[Len(new)] = to + op.len /\ go[Len(ops)] = to
  BY <1>1, <1>2, <1>3, SMTT(30)
<1>5. ASSUME NEW i \in 1..Len(new) PROVE go[i] = go[i - 1] + new[i].len /\ Fits(b, c, new[i], go[i - 1])
  <2>1. CASE i <= Len(ops)
    <3>1. i \in 1..Len(ops) /\ go[i] = at[i] /\ go[i - 1] = at[i - 1] /\ new[i] = ops[i]
      BY <1>2, <1>3, <2>1
    <3> QED
      BY <1>1, <3>1
  <2>2. CASE i = Len(ops) + 1
    <3>1. go[i] = to + op.len /\ go[i - 1] = to /\ new[i] = op
      BY <1>2, <1>3, <1>4, <2>2
    <3> QED
      BY <3>1
  <2> QED
    BY <1>2, <1>3, <2>1, <2>2
<1> HIDE DEF go, new
<1>6. Covers(b, c, new, from, to + op.len)
  BY <1>4, <1>5 DEF Covers
<1> QED
  BY <1>6 DEF new

LEMMA FirstOf ==
    ASSUME NEW b, NEW c, NEW ops \in Seq(Ops), ops # <<>>, NEW from, NEW to, Covers(b, c, ops, from, to)
    PROVE  /\ Fits(b, c, Head(ops), from) /\ from \in Nat /\ to \in Nat
           /\ Covers(b, c, Tail(ops), from + Head(ops).len, to)
<1>1. PICK at \in [0..Len(ops) -> Nat] :
        /\ at[0] = from /\ at[Len(ops)] = to
        /\ \A i \in 1..Len(ops) : at[i] = at[i - 1] + ops[i].len /\ Fits(b, c, ops[i], at[i - 1])
  BY DEF Covers
<1>2. Len(ops) \in Nat \ {0} /\ Head(ops) = ops[1] /\ 1 \in 1..Len(ops)
  OBVIOUS
<1>3. from \in Nat /\ to \in Nat /\ Fits(b, c, Head(ops), from) /\ at[1] = from + Head(ops).len
  BY <1>1, <1>2
<1> DEFINE new == Tail(ops)
           go == [i \in 0..Len(new) |-> at[i + 1]]
<1>4. Len(new) = Len(ops) - 1 /\ \A i \in 1..Len(new) : new[i] = ops[i + 1]
  BY <1>2
<1>5. go \in [0..Len(new) -> Nat] /\ go[0] = from + Head(ops).len /\ go[Len(new)] = to
  BY <1>1, <1>2, <1>3, <1>4
<1>6. ASSUME NEW i \in 1..Len(new) PROVE go[i] = go[i - 1] + new[i].len /\ Fits(b, c, new[i], go[i - 1])
  <2>1. i + 1 \in 1..Len(ops) /\ go[i] = at[i + 1] /\ go[i - 1] = at[(i + 1) - 1] /\ new[i] = ops[i + 1]
    BY <1>2, <1>4
  <2> QED
    BY <1>1, <2>1
<1> HIDE DEF go, new
<1>7. Covers(b, c, new, from + Head(ops).len, to)
  BY <1>5, <1>6 DEF Covers
<1> QED
  BY <1>3, <1>7 DEF new

LEMMA Bounds ==
    ASSUME NEW b, NEW c, NEW ops, NEW from, NEW to, Len(ops) \in Nat, Covers(b, c, ops, from, to)
    PROVE  from \in Nat /\ to \in Nat
BY DEF Covers

(* the last op of a list may be replaced                                   *)
LEMMA LastOf ==
    ASSUME NEW b, NEW c, NEW ops \in Seq(Ops), ops # <<>>, NEW from, NEW to, Covers(b, c, ops, from, to)
    PROVE  LET final == ops[Len(ops)] IN
           /\ to - final.len \in Nat /\ Fits(b, c, final, to - final.len)
           /\ \A op \in Ops : Fits(b, c, op, to - final.len) =>
                Covers(b, c, [ops EXCEPT ![Len(ops)] = op], from, to - final.len + op.len)
<1> DEFINE n == Len(ops)
<1>1. PICK at \in [0..Len(ops) -> Nat] :
        /\ at[0] = from /\ at[Len(ops)] = to
        /\ \A i \in 1..Len(ops) : at[i] = at[i - 1] + ops[i].len /\ Fits(b, c, ops[i], at[i - 1])
  BY DEF Covers
<1>2. n \in Nat \ {0} /\ n \in 1..n /\ n - 1 \in 0..n /\ ops[n].len \in Nat
  <2>1. n \in Nat \ {0}
    OBVIOUS
  <2>2. n \in 1..n /\ n - 1 \in 0..n
    BY <2>1
  <2>3. ops[n] \in Ops
    BY <2>2
  <2> QED
    BY <2>1, <2>2, <2>3 DEF Ops
<1>3. at[n - 1] = to - ops[n].len /\ at[n - 1] \in Nat /\ Fits(b, c, ops[n], at[n - 1])
  BY <1>1, <1>2, SMTT(30)
<1>4. ASSUME NEW op \in Ops, Fits(b, c, op, to - ops[n].len)
      PROVE  Covers(b, c, [ops EXCEPT ![n] = op], from, to - ops[n].len + op.len)
  <2> DEFINE new == [ops EXCEPT ![n] = op]
             go == [at EXCEPT ![n] = at[n - 1] + op.len]
  <2>1. Len(new) = n /\ new[n] = op /\ \A i \in 1..(n - 1) : new[i] = ops[i]
    BY <1>2
  <2>2. op.len \in Nat
    BY DEF Ops
  <2>3. /\ go \in [0..n -> Nat] /\ go[n] = at[n - 1] + op.len /\ \A i \in 0..(n - 1) : go[i] = at[i]
    BY <1>2, <1>3, <2>2
  <2>4. ASSUME NEW i \in 1..n PROVE go[i] = go[i - 1] + new[i].len /\ Fits(b, c, new[i], go[i - 1])
    <3>1. CASE i < n
      <4>1. i \in 1..(n - 1) /\ i - 1 \in 0..(n - 1) /\ i \in 0..(n - 1)
        BY <1>2, <3>1
      <4>2. go[i] = at[i] /\ go[i - 1] = at[i - 1] /\ new[i] = ops[i]
        BY <4>1, <2>1, <2>3
      <4> QED
        BY <1>1, <4>1, <4>2
    <3>2. CASE i = n
      <4>1. n - 1 \in 0..(n - 1)
        BY <1>2
      <4> QED
        BY <1>3, <1>4, <2>1, <2>3, <3>2, <4>1
    <3> QED
      BY <1>2, <3>1, <3>2
  <2>5. 0 \in 0..(n - 1)
    BY <1>2
  <2>6. go[0] = from /\ go[n] = to - ops[n].len + op.len
    BY <1>1, <1>3, <2>3, <2>5
  <2> HIDE DEF go, new
  <2>7. Covers(b, c, new, from, to - ops[n].len + op.len)
    BY <2>1, <2>3, <2>4, <2>6 DEF Covers
  <2> QED
    BY <2>7 DEF new
<1> QED
  BY <1>2, <1>3, <1>4

(* Two lists that meet are one list.                                       *)
LEMMA Together ==
    ASSUME NEW b, NEW c, NEW first \in Seq(Ops), NEW second \in Seq(Ops), NEW from, NEW mid, NEW to,
           Covers(b, c, first, from, mid), Covers(b, c, second, mid, to)
    PROVE  Covers(b, c, first \o second, from, to)
<1>1. PICK x \in [0..Len(first) -> Nat] :
        /\ x[0] = from /\ x[Len(first)] = mid
        /\ \A i \in 1..Len(first) : x[i] = x[i - 1] + first[i].len /\ Fits(b, c, first[i], x[i - 1])
  BY DEF Covers
<1>2. PICK y \in [0..Len(second) -> Nat] :
        /\ y[0] = mid /\ y[Len(second)] = to
        /\ \A i \in 1..Len(second) : y[i] = y[i - 1] + second[i].len /\ Fits(b, c, second[i], y[i - 1])
  BY DEF Covers
<1> DEFINE n == Len(first)  m == Len(second)  new == first \o second
           go == [i \in 0..(n + m) |-> IF i <= n THEN x[i] ELSE y[i - n]]
<1>3. n \in Nat /\ m \in Nat
  OBVIOUS
<1>4. Len(new) = n + m /\ (\A i \in 1..n : new[i] = first[i]) /\ \A i \in 1..m : new[n + i] = second[i]
  OBVIOUS
<1>5. go \in [0..(n + m) -> Nat] /\ (\A i \in 0..n : go[i] = x[i]) /\ \A i \in 0..m : go[n + i] = y[i]
  <2>1. \A i \in 0..n : go[i] = x[i]
    BY <1>3
  <2>2. ASSUME NEW i \in 0..m PROVE go[n + i] = y[i]
    <3>1. CASE i = 0
      <4>1. n + i = n /\ n \in 0..(n + m) /\ n <= n
        BY <1>3, <3>1
      <4> QED
        BY <1>1, <1>2, <3>1, <4>1
    <3>2. CASE i > 0
      <4>1. n + i \in 0..(n + m) /\ ~(n + i <= n) /\ (n + i) - n = i
        BY <1>3, <3>2
      <4> QED
        BY <4>1
    <3> QED
      BY <3>1, <3>2
  <2>3. ASSUME NEW i \in 0..(n + m) PROVE go[i] \in Nat
    <3>1. CASE i <= n
      <4>1. go[i] = x[i] /\ i \in 0..n
        BY <1>3, <3>1
      <4> QED
        BY <1>1, <4>1
    <3>2. CASE i > n
      <4>1. i - n \in 0..m /\ ~(i <= n)
        BY <1>3, <3>2
      <4> QED
        BY <1>2, <4>1
    <3> QED
      BY <1>3, <3>1, <3>2
  <2> QED
    BY <2>1, <2>2, <2>3
<1>6. ASSUME NEW i \in 1..(n + m) PROVE go[i] = go[i - 1] + new[i].len /\ Fits(b, c, new[i], go[i - 1])
  <2>1. CASE i <= n
    <3>1. i \in 1..n /\ i \in 0..n /\ i - 1 \in 0..n
      BY <1>3, <2>1
    <3>2. go[i] = x[i] /\ go[i - 1] = x[i - 1] /\ new[i] = first[i]
      BY <1>4, <1>5, <3>1
    <3> QED
      BY <1>1, <3>1, <3>2
  <2>2. CASE i > n
    <3> DEFINE j == i - n
    <3>1. j \in 1..m /\ j \in 0..m /\ j - 1 \in 0..m /\ n + j = i /\ n + (j - 1) = i - 1
      BY <1>3, <2>2
    <3> HIDE DEF j
    <3>2. go[n + j] = y[j] /\ go[n + (j - 1)] = y[j - 1] /\ new[n + j] = second[j]
      BY <1>4, <1>5, <3>1
    <3>3. go[i] = y[j] /\ go[i - 1] = y[j - 1] /\ new[i] = second[j]
      BY <3>1, <3>2
    <3> QED
      BY <1>2, <3>1, <3>3
  <2> QED
    BY <1>3, <2>1, <2>2
<1>7. go[0] = from /\ go[n + m] = to
  <2>1. 0 \in 0..n /\ m \in 0..m
    BY <1>3
  <2> QED
    BY <1>1, <1>2, <1>5, <2>1
<1> HIDE DEF go, new
<1>8. Covers(b, c, new, from, to)
  BY <1>4, <1>5, <1>6, <1>7 DEF Covers
<1> QED
  BY <1>8 DEF new

-----------------------------------------------------------------------------
(* What an op yields where it fits, and what a list of ops stands for.     *)

LEMMA BaseSlice ==
    ASSUME NEW s \in Seq(Bytes), NEW op \in Ops, op.off + op.len <= Len(s)
    PROVE  /\ Slice(s, op.off, op.len) \in Seq(Bytes) /\ Len(Slice(s, op.off, op.len)) = op.len
           /\ \A i \in 1..op.len : Slice(s, op.off, op.len)[i] = s[op.off + i]
<1> DEFINE o == op.off
           n == op.len
<1>1. o \in Nat /\ n \in Nat /\ o + n <= Len(s)
  BY DEF Ops
<1> HIDE DEF o, n
<1>2. /\ Slice(s, o, n) \in Seq(Bytes) /\ Len(Slice(s, o, n)) = n
      /\ \A i \in 1..n : Slice(s, o, n)[i] = s[o + i]
  BY <1>1, ByteSlice
<1> QED
  BY <1>2 DEF o, n

LEMMA UndiffIs ==
    ASSUME NEW s \in Seq(Bytes), NEW d \in Seq(Bytes), Len(s) = Len(d)
    PROVE  /\ Undiff(s, d) \in Seq(Bytes) /\ Len(Undiff(s, d)) = Len(d)
           /\ \A i \in 1..Len(d) : Undiff(s, d)[i] = (s[i] + d[i]) % ByteValues
<1>1. ASSUME NEW i \in 1..Len(d) PROVE (s[i] + d[i]) % ByteValues \in Bytes
  <2>1. s[i] \in Bytes /\ d[i] \in Bytes
    OBVIOUS
  <2> QED
    BY <2>1, ByteArith
<1> QED
  BY <1>1 DEF Undiff

LEMMA ApplySparseLen ==
    ASSUME NEW s \in Seq(Bytes), NEW p
    PROVE  Len(ApplySparse(s, p)) = Len(s) /\ DOMAIN ApplySparse(s, p) = 1..Len(s)
BY DEF ApplySparse

(* An op that fits at a place yields the bytes of the candidate there.     *)
LEMMA YieldIs ==
    ASSUME base \in Seq(Bytes), cand \in Seq(Bytes), NEW op \in Ops, NEW at \in Nat, Fits(base, cand, op, at)
    PROVE  Yield(op, Slice(cand, 0, at)) = Slice(cand, at, op.len)
<1> DEFINE y == Yield(op, Slice(cand, 0, at))
           goal == Slice(cand, at, op.len)
<1>0. op.kind \in Kinds /\ op.off \in Nat /\ op.len \in Nat /\ op.lit \in Seq(Bytes) /\ at + op.len <= Len(cand)
  BY DEF Ops, Fits
<1>1. /\ goal \in Seq(Bytes) /\ Len(goal) = op.len
      /\ \A i \in 1..op.len : goal[i] = cand[at + i]
  BY <1>0, ByteSlice, ZenonT(30)
<1>2. SUFFICES /\ Len(y) = op.len /\ DOMAIN y = 1..op.len /\ \A i \in 1..op.len : y[i] = cand[at + i]
               /\ y = [i \in DOMAIN y |-> y[i]]
  <2>1. goal = [i \in 1..op.len |-> goal[i]]
    <3> HIDE DEF goal
    <3>1. DOMAIN goal = 1..op.len /\ goal = [i \in DOMAIN goal |-> goal[i]]
      BY <1>0, <1>1
    <3> QED
      BY <3>1
  <2> HIDE DEF y, goal
  <2>2. y = goal
    BY <1>1, <2>1
  <2> QED
    BY <2>2 DEF y, goal
<1>3. CASE op.kind = "insert"
  <2>1. y = op.lit
    BY <1>3 DEF Yield
  <2> QED
    BY <1>0, <1>3, <2>1 DEF Fits
<1>4. CASE op.kind = "output"
  <2>1. y = Slice(Slice(cand, 0, at), op.off, op.len)
    BY <1>4 DEF Yield
  <2>2. op.off + op.len <= at /\ at <= Len(cand) /\ \A i \in 1..op.len : cand[op.off + i] = cand[at + i]
    <3>1. op.off + op.len <= at /\ \A i \in 1..op.len : cand[op.off + i] = cand[at + i]
      BY <1>4 DEF Fits
    <3>2. at <= Len(cand)
      BY <1>0
    <3> QED
      BY <3>1, <3>2
  <2>3. /\ Slice(cand, 0, at) \in Seq(Bytes) /\ Len(Slice(cand, 0, at)) = at
        /\ \A i \in 1..at : Slice(cand, 0, at)[i] = cand[i]
    BY <2>2, PrefixIs
  <2>4. /\ y \in Seq(Bytes) /\ Len(y) = op.len /\ \A i \in 1..op.len : y[i] = Slice(cand, 0, at)[op.off + i]
    <3>1. op.off + op.len <= Len(Slice(cand, 0, at))
      BY <2>2, <2>3
    <3> QED
      BY <2>1, <2>3, <3>1, BaseSlice
  <2>5. \A i \in 1..op.len : op.off + i \in 1..at
    BY <1>0, <2>2
  <2> HIDE DEF y
  <2> QED
    BY <2>2, <2>3, <2>4, <2>5
<1>5. CASE op.kind \in {"copy", "add", "sparse"}
  <2>1. op.off + op.len <= Len(base)
    BY <1>5 DEF Fits
  <2>2. /\ Slice(base, op.off, op.len) \in Seq(Bytes) /\ Len(Slice(base, op.off, op.len)) = op.len
        /\ \A i \in 1..op.len : Slice(base, op.off, op.len)[i] = base[op.off + i]
    BY <2>1, BaseSlice
  <2>3. ~(op.off + op.len > Len(base))
    BY <1>0, <2>1
  <2>4. CASE op.kind = "copy"
    <3>1. y = Slice(base, op.off, op.len)
      BY <2>1, <2>3, <2>4 DEF Yield
    <3>2. \A i \in 1..op.len : base[op.off + i] = cand[at + i]
      BY <2>4 DEF Fits
    <3> HIDE DEF y
    <3> QED
      BY <2>2, <3>1, <3>2
  <2>5. CASE op.kind = "add"
    <3>1. y = Undiff(Slice(base, op.off, op.len), op.lit)
      BY <2>1, <2>3, <2>5 DEF Yield
    <3>2. Len(op.lit) = op.len /\ \A i \in 1..op.len : (base[op.off + i] + op.lit[i]) % ByteValues = cand[at + i]
      BY <2>5 DEF Fits
    <3>3. /\ y \in Seq(Bytes) /\ Len(y) = op.len
          /\ \A i \in 1..op.len : y[i] = (Slice(base, op.off, op.len)[i] + op.lit[i]) % ByteValues
      BY <1>0, <2>2, <3>1, <3>2, UndiffIs
    <3> HIDE DEF y
    <3> QED
      BY <2>2, <3>2, <3>3
  <2>6. CASE op.kind = "sparse"
    <3>1. y = ApplySparse(Slice(base, op.off, op.len), op.lit)
      BY <2>1, <2>3, <2>6 DEF Yield
    <3>2. \A i \in 1..op.len : y[i] = cand[at + i]
      BY <2>6, <3>1 DEF Fits
    <3>3. Len(y) = op.len /\ DOMAIN y = 1..op.len
      BY <2>2, <3>1, ApplySparseLen
    <3>4. y = [i \in DOMAIN y |-> y[i]]
      BY <3>1 DEF ApplySparse
    <3> QED
      BY <3>2, <3>3, <3>4
  <2> QED
    BY <1>5, <2>4, <2>5, <2>6
<1> QED
  BY <1>0, <1>3, <1>4, <1>5 DEF Kinds

(* A list of ops that covers a stretch of the candidate stands for its     *)
(* bytes.                                                                  *)
LEMMA PlainIs ==
    ASSUME base \in Seq(Bytes), cand \in Seq(Bytes), NEW ops \in Seq(Ops), NEW to, Covers(base, cand, ops, 0, to)
    PROVE  Plain(ops) = Slice(cand, 0, to)
<1>1. PICK at \in [0..Len(ops) -> Nat] :
        /\ at[0] = 0 /\ at[Len(ops)] = to
        /\ \A i \in 1..Len(ops) : at[i] = at[i - 1] + ops[i].len /\ Fits(base, cand, ops[i], at[i - 1])
  BY DEF Covers
<1> DEFINE n == Len(ops)
           E(f) == f = [i \in 0..Len(ops) |-> IF i = 0 THEN <<>> ELSE f[i - 1] \o Yield(ops[i], f[i - 1])]
           w == [i \in 0..Len(ops) |-> Slice(cand, 0, at[i])]
           sofar == CHOOSE f : E(f)
<1>2. n \in Nat
  OBVIOUS
<1>3. ASSUME NEW i \in 1..n PROVE w[i] = w[i - 1] \o Yield(ops[i], w[i - 1])
  <2>1. ops[i] \in Ops /\ ops[i].len \in Nat
    <3>1. ops[i] \in Ops
      OBVIOUS
    <3> QED
      BY <3>1 DEF Ops
  <2>2. at[i - 1] \in Nat /\ at[i] = at[i - 1] + ops[i].len /\ Fits(base, cand, ops[i], at[i - 1])
    <3>1. i \in 1..Len(ops) /\ i - 1 \in 0..Len(ops)
      BY <1>2
    <3> QED
      BY <1>1, <3>1
  <2>3. Yield(ops[i], Slice(cand, 0, at[i - 1])) = Slice(cand, at[i - 1], ops[i].len)
    BY <2>1, <2>2, YieldIs
  <2>4. at[i - 1] + ops[i].len <= Len(cand)
    BY <2>2 DEF Fits
  <2>5. Slice(cand, 0, at[i - 1]) \o Slice(cand, at[i - 1], ops[i].len) = Slice(cand, 0, at[i - 1] + ops[i].len)
    BY <2>1, <2>2, <2>4, SliceOn
  <2>6. w[i] = Slice(cand, 0, at[i]) /\ w[i - 1] = Slice(cand, 0, at[i - 1])
    OBVIOUS
  <2> QED
    BY <2>2, <2>3, <2>5, <2>6
<1>4. w[0] = <<>>
  BY <1>1, <1>2, SliceNone
<1>5. E(w)
  <2>1. w = [i \in 0..Len(ops) |-> w[i]]
    OBVIOUS
  <2>2. \A i \in 0..Len(ops) : w[i] = IF i = 0 THEN <<>> ELSE w[i - 1] \o Yield(ops[i], w[i - 1])
    <3> HIDE DEF w
    <3>1. \A i \in 0..n : i = 0 \/ (i # 0 /\ i \in 1..n)
      BY <1>2
    <3> QED
      BY <1>3, <1>4, <3>1
  <2> HIDE DEF w
  <2> QED
    BY <2>1, <2>2, Zenon
<1>6. E(sofar)
  <2> HIDE DEF E
  <2> QED
    BY <1>5
<1>7. Plain(ops) = sofar[n]
  BY DEF Plain
<1>8. Nat \subseteq {i \in Nat : i <= n => sofar[i] = w[i]}
  <2> DEFINE T == {i \in Nat : i <= n => sofar[i] = w[i]}
  <2>1. \A i \in 0..n : sofar[i] = IF i = 0 THEN <<>> ELSE sofar[i - 1] \o Yield(ops[i], sofar[i - 1])
    <3> HIDE DEF sofar
    <3> QED
      BY <1>6, Zenon
  <2> HIDE DEF sofar, w
  <2>2. 0 \in T
    BY <1>2, <1>4, <2>1
  <2>3. ASSUME NEW i \in Nat, i \in T PROVE i + 1 \in T
    <3>1. SUFFICES ASSUME i + 1 <= n PROVE sofar[i + 1] = w[i + 1]
      OBVIOUS
    <3>2. i + 1 \in 1..n /\ i + 1 \in 0..n /\ (i + 1) - 1 = i /\ i + 1 # 0 /\ i <= n
      BY <1>2, <3>1
    <3>3. sofar[i] = w[i]
      BY <2>3, <3>2
    <3>4. sofar[i + 1] = sofar[i] \o Yield(ops[i + 1], sofar[i])
      BY <2>1, <3>2
    <3>5. w[i + 1] = w[i] \o Yield(ops[i + 1], w[i])
      BY <1>3, <3>2
    <3> QED
      BY <3>3, <3>4, <3>5
  <2> HIDE DEF T
  <2>4. Nat \subseteq T
    BY <2>2, <2>3, Inductive
  <2> QED
    BY <2>4 DEF T
<1>9. sofar[n] = w[n]
  <2> HIDE DEF sofar, w
  <2> QED
    BY <1>2, <1>8
<1>10. w[n] = Slice(cand, 0, to)
  BY <1>1, <1>2
<1> QED
  BY <1>7, <1>9, <1>10

(* The ops the passes make, where the bytes they were made from are the    *)
(* bytes of the candidate.                                                 *)
LEMMA CopyFits ==
    ASSUME NEW b, NEW c, NEW off \in Nat, NEW len \in Nat, NEW at \in Nat,
           off + len <= Len(b), at + len <= Len(c), \A i \in 1..len : b[off + i] = c[at + i]
    PROVE  Copy(off, len) \in Ops /\ Copy(off, len).len = len /\ Fits(b, c, Copy(off, len), at)
BY DEF Copy, Op, Ops, Kinds, Fits

LEMMA InsertFits ==
    ASSUME NEW b, NEW c, NEW lit \in Seq(Bytes), NEW at \in Nat,
           at + Len(lit) <= Len(c), \A i \in 1..Len(lit) : lit[i] = c[at + i]
    PROVE  Insert(lit) \in Ops /\ Insert(lit).len = Len(lit) /\ Fits(b, c, Insert(lit), at)
BY DEF Insert, Op, Ops, Kinds, Fits

LEMMA OutputFits ==
    ASSUME NEW b, NEW c, NEW off \in Nat, NEW len \in Nat, NEW at \in Nat,
           off + len <= at, at + len <= Len(c), \A i \in 1..len : c[off + i] = c[at + i]
    PROVE  OutputCopy(off, len) \in Ops /\ OutputCopy(off, len).len = len /\ Fits(b, c, OutputCopy(off, len), at)
BY DEF OutputCopy, Op, Ops, Kinds, Fits

LEMMA AddFits ==
    ASSUME NEW b, NEW c, NEW off \in Nat, NEW lit \in Seq(Bytes), NEW at \in Nat,
           off + Len(lit) <= Len(b), at + Len(lit) <= Len(c),
           \A i \in 1..Len(lit) : (b[off + i] + lit[i]) % ByteValues = c[at + i]
    PROVE  Add(off, lit) \in Ops /\ Add(off, lit).len = Len(lit) /\ Fits(b, c, Add(off, lit), at)
BY DEF Add, Op, Ops, Kinds, Fits

(* a piece of a literal is an op of its own                                *)
LEMMA PieceFits ==
    ASSUME NEW b, NEW c, NEW op \in Ops, NEW at \in Nat, Fits(b, c, op, at), op.kind \in {"insert", "add"},
           NEW from \in Nat, NEW bytes \in Seq(Bytes), from + Len(bytes) <= op.len,
           \A i \in 1..Len(bytes) : bytes[i] = op.lit[from + i]
    PROVE  LET piece == Piece(op, from, bytes) IN
           piece \in Ops /\ piece.len = Len(bytes) /\ Fits(b, c, piece, at + from)
<1>1. /\ op.off \in Nat /\ op.len \in Nat /\ op.lit \in Seq(Bytes) /\ Len(op.lit) = op.len
      /\ at + op.len <= Len(c)
  BY DEF Ops, Fits
<1>2. Len(bytes) \in Nat /\ at + from \in Nat
  OBVIOUS
<1>3. (at + from) + Len(bytes) <= at + op.len
  BY <1>1, <1>2
<1>4. \A i \in 1..Len(bytes) : from + i \in 1..op.len /\ at + (from + i) = (at + from) + i
  BY <1>1, <1>2
<1>5. CASE op.kind = "insert"
  <2>1. \A i \in 1..op.len : op.lit[i] = c[at + i]
    BY <1>5 DEF Fits
  <2>2. \A i \in 1..Len(bytes) : bytes[i] = c[(at + from) + i]
    BY <1>4, <2>1
  <2>3. (at + from) + Len(bytes) <= Len(c)
    BY <1>1, <1>2, <1>3, <2>1
  <2>4. Piece(op, from, bytes) = Insert(bytes)
    BY <1>5 DEF Piece
  <2> QED
    BY <1>2, <2>2, <2>3, <2>4, InsertFits
<1>6. CASE op.kind = "add"
  <2>1. op.off + op.len <= Len(b) /\ \A i \in 1..op.len : (b[op.off + i] + op.lit[i]) % ByteValues = c[at + i]
    BY <1>6 DEF Fits
  <2>2. ASSUME NEW i \in 1..Len(bytes) PROVE (b[(op.off + from) + i] + bytes[i]) % ByteValues = c[(at + from) + i]
    <3>1. op.off + (from + i) = (op.off + from) + i
      BY <1>1
    <3> QED
      BY <1>4, <2>1, <3>1
  <2>3. (at + from) + Len(bytes) <= Len(c) /\ (op.off + from) + Len(bytes) <= Len(b) /\ op.off + from \in Nat
    <3>1. (at + from) + Len(bytes) <= Len(c)
      BY <1>1, <1>2, <1>3
    <3>2. (op.off + from) + Len(bytes) <= op.off + op.len /\ op.off + from \in Nat
      BY <1>1, SMTT(30)
    <3>3. (op.off + from) + Len(bytes) <= Len(b)
      BY <1>1, <2>1, <3>2, SMTT(30)
    <3> QED
      BY <3>1, <3>2, <3>3
  <2>4. Piece(op, from, bytes) = Add(op.off + from, bytes)
    BY <1>6 DEF Piece
  <2>5. PICK o, p : o = op.off + from /\ p = at + from
    OBVIOUS
  <2>6. o \in Nat /\ p \in Nat /\ p + Len(bytes) <= Len(c) /\ o + Len(bytes) <= Len(b)
    BY <1>2, <2>3, <2>5
  <2>7. \A i \in 1..Len(bytes) : (b[o + i] + bytes[i]) % ByteValues = c[p + i]
    BY <2>2, <2>5, Zenon
  <2>8. Add(o, bytes) \in Ops /\ Add(o, bytes).len = Len(bytes) /\ Fits(b, c, Add(o, bytes), p)
    BY <2>6, <2>7, AddFits
  <2> QED
    BY <2>4, <2>5, <2>8, Zenon
<1> QED
  BY <1>5, <1>6

LEMMA SeqIs ==
    ASSUME NEW S, NEW n \in Nat, NEW f, f = [i \in 1..n |-> f[i]], \A i \in 1..n : f[i] \in S
    PROVE  f \in Seq(S) /\ Len(f) = n
OBVIOUS

(* what the add pass makes of an insert                                    *)
LEMMA DiffIs ==
    ASSUME NEW old \in Seq(Bytes), NEW new \in Seq(Bytes), Len(old) = Len(new)
    PROVE  /\ AddDiff(old, new) \in Seq(Bytes) /\ Len(AddDiff(old, new)) = Len(new)
           /\ \A i \in 1..Len(new) : (old[i] + AddDiff(old, new)[i]) % ByteValues = new[i]
<1> DEFINE diff == AddDiff(old, new)
<1>1. ASSUME NEW i \in 1..Len(new)
      PROVE  diff[i] \in Bytes /\ (old[i] + diff[i]) % ByteValues = new[i]
  <2>1. new[i] \in Bytes /\ old[i] \in Bytes
    OBVIOUS
  <2>2. PICK z \in Bytes : z = (new[i] - old[i] + ByteValues) % ByteValues /\ (old[i] + z) % ByteValues = new[i]
    BY <2>1, Difference
  <2>3. diff[i] = z
    BY <2>2 DEF AddDiff
  <2>4. z \in Bytes /\ (old[i] + z) % ByteValues = new[i]
    BY <2>2
  <2> HIDE DEF diff
  <2> QED
    BY <2>3, <2>4, Zenon
<1>2. diff = [i \in 1..Len(new) |-> diff[i]] /\ Len(new) \in Nat
  BY DEF AddDiff
<1> HIDE DEF diff
<1>3. diff \in Seq(Bytes) /\ Len(diff) = Len(new)
  BY <1>1, <1>2, SeqIs
<1> QED
  BY <1>1, <1>3 DEF diff

(* An insert may become an add against any base bytes of its length.       *)
LEMMA DiffFits ==
    ASSUME NEW b \in Seq(Bytes), NEW c \in Seq(Bytes), NEW op \in Ops, NEW at \in Nat, Fits(b, c, op, at),
           op.kind = "insert", NEW o \in Nat, o + op.len <= Len(b)
    PROVE  LET add == Add(o, AddDiff(Slice(b, o, op.len), op.lit)) IN
           add \in Ops /\ add.len = op.len /\ Fits(b, c, add, at)
<1>1. op.len \in Nat /\ op.lit \in Seq(Bytes)
  BY DEF Ops
<1>2. Len(op.lit) = op.len /\ at + op.len <= Len(c) /\ \A i \in 1..op.len : op.lit[i] = c[at + i]
  BY DEF Fits
<1> DEFINE old == Slice(b, o, op.len)
           diff == AddDiff(old, op.lit)
<1>3. old \in Seq(Bytes) /\ Len(old) = op.len /\ \A i \in 1..op.len : old[i] = b[o + i]
  <2>1. PICK n \in Nat : n = op.len
    BY <1>1
  <2>2. o + n <= Len(b)
    BY <2>1
  <2>3. Slice(b, o, n) \in Seq(Bytes) /\ Len(Slice(b, o, n)) = n /\ \A i \in 1..n : Slice(b, o, n)[i] = b[o + i]
    BY <2>2, ByteSlice
  <2> QED
    BY <2>1, <2>3
<1> HIDE DEF old
<1>4. /\ diff \in Seq(Bytes) /\ Len(diff) = op.len
      /\ \A i \in 1..op.len : (old[i] + diff[i]) % ByteValues = op.lit[i]
  <2>1. op.lit \in Seq(Bytes) /\ Len(old) = Len(op.lit) /\ Len(op.lit) = op.len /\ old \in Seq(Bytes)
    BY <1>1, <1>2, <1>3
  <2> QED
    BY <2>1, DiffIs
<1> HIDE DEF diff
<1>5. \A i \in 1..Len(diff) : (b[o + i] + diff[i]) % ByteValues = c[at + i]
  BY <1>2, <1>3, <1>4, Zenon
<1>6. o + Len(diff) <= Len(b) /\ at + Len(diff) <= Len(c)
  BY <1>2, <1>4
<1>7. Add(o, diff) \in Ops /\ Add(o, diff).len = Len(diff) /\ Fits(b, c, Add(o, diff), at)
  BY <1>4, <1>5, <1>6, AddFits
<1> QED
  BY <1>4, <1>7 DEF diff, old

(* Two ops of a kind that coalesceCodeDeltaOps joins are one op in the     *)
(* place of both.                                                          *)
LEMMA JoinedFits ==
    ASSUME NEW b, NEW c, NEW prior \in Ops, NEW op \in Ops, NEW at \in Nat,
           Fits(b, c, prior, at), Fits(b, c, op, at + prior.len), Joins(prior, op)
    PROVE  /\ Joined(prior, op) \in Ops /\ Joined(prior, op).len = prior.len + op.len
           /\ Fits(b, c, Joined(prior, op), at)
<1> DEFINE all == Joined(prior, op)
<1>1. /\ prior.kind \in Kinds /\ prior.off \in Nat /\ prior.len \in Nat /\ prior.lit \in Seq(Bytes)
      /\ op.kind \in Kinds /\ op.off \in Nat /\ op.len \in Nat /\ op.lit \in Seq(Bytes)
  BY DEF Ops
<1>2. /\ all.kind = prior.kind /\ all.off = prior.off /\ all.len = prior.len + op.len
      /\ all.lit = prior.lit \o op.lit /\ all \in Ops
  <2>1. PICK n, t : n = prior.len + op.len /\ t = prior.lit \o op.lit
    OBVIOUS
  <2>2. all = [[prior EXCEPT !.lit = t] EXCEPT !.len = n]
    BY <2>1 DEF Joined, Ops
  <2>2a. all = [kind |-> prior.kind, off |-> prior.off, len |-> prior.len + op.len, lit |-> prior.lit \o op.lit]
    BY <2>1, <2>2 DEF Ops
  <2>3. prior.len + op.len \in Nat
    BY <1>1
  <2>4. prior.lit \o op.lit \in Seq(Bytes)
    BY <1>1
  <2> HIDE DEF all
  <2>5. all.kind = prior.kind /\ all.off = prior.off /\ all.len = prior.len + op.len /\ all.lit = prior.lit \o op.lit
    BY <2>2a
  <2>6. all \in Ops
    BY <1>1, <2>2a, <2>3, <2>4 DEF Ops
  <2> QED
    BY <2>5, <2>6
<1> HIDE DEF all
<1>3. /\ prior.kind = op.kind /\ prior.kind \in {"insert", "add", "copy"}
      /\ prior.kind # "insert" => prior.off + prior.len = op.off
  BY DEF Joins
<1>4. at + (prior.len + op.len) <= Len(c)
  <2>1. (at + prior.len) + op.len <= Len(c)
    BY DEF Fits
  <2>2. (at + prior.len) + op.len = at + (prior.len + op.len)
    BY <1>1
  <2> QED
    BY <2>1, <2>2
<1>5. \A i \in 1..(prior.len + op.len) :
        i \in 1..prior.len \/ (i - prior.len \in 1..op.len /\ i = prior.len + (i - prior.len))
  BY SMTT(30), <1>1
<1>6. prior.kind # "insert" => \A i \in 1..op.len : op.off + i = prior.off + (prior.len + i)
  BY <1>1, <1>3
<1>7. \A i \in 1..op.len : (at + prior.len) + i = at + (prior.len + i)
  BY <1>1
<1>8. prior.kind # "insert" => prior.off + (prior.len + op.len) <= Len(b)
  <2>1. SUFFICES ASSUME prior.kind # "insert" PROVE prior.off + (prior.len + op.len) <= Len(b)
    OBVIOUS
  <2>2. op.off + op.len <= Len(b)
    BY <1>3, <2>1 DEF Fits
  <2>3. op.off + op.len = prior.off + (prior.len + op.len)
    BY <1>1, <1>3, <2>1
  <2> QED
    BY <2>2, <2>3
<1>9. CASE prior.kind \in {"insert", "add"}
  <2>1. Len(prior.lit) = prior.len /\ Len(op.lit) = op.len
    BY <1>3, <1>9 DEF Fits
  <2>2. /\ Len(all.lit) = prior.len + op.len
        /\ \A i \in 1..prior.len : all.lit[i] = prior.lit[i]
        /\ \A i \in 1..op.len : all.lit[prior.len + i] = op.lit[i]
    <3>1. prior.lit \in Seq(Bytes) /\ op.lit \in Seq(Bytes) /\ all.lit = prior.lit \o op.lit
      BY <1>1, <1>2
    <3>2. PICK s, t, u : s = prior.lit /\ t = op.lit /\ u = all.lit
      OBVIOUS
    <3>3. s \in Seq(Bytes) /\ t \in Seq(Bytes) /\ u = s \o t
      BY <3>1, <3>2
    <3>4. /\ Len(u) = Len(s) + Len(t)
          /\ \A i \in 1..Len(s) : u[i] = s[i]
          /\ \A i \in 1..Len(t) : u[Len(s) + i] = t[i]
      BY <3>3, CatIs
    <3> QED
      BY <2>1, <3>2, <3>4
  <2>3. CASE prior.kind = "insert"
    <3>1. (\A i \in 1..prior.len : prior.lit[i] = c[at + i]) /\ \A i \in 1..op.len : op.lit[i] = c[(at + prior.len) + i]
      BY <1>3, <2>3 DEF Fits
    <3>2. \A i \in 1..op.len : all.lit[prior.len + i] = c[at + (prior.len + i)]
      BY <1>7, <2>2, <3>1
    <3>3. \A i \in 1..(prior.len + op.len) : all.lit[i] = c[at + i]
      BY <1>5, <2>2, <3>1, <3>2
    <3> QED
      BY <1>2, <1>4, <2>2, <2>3, <3>3 DEF Fits, all
  <2>4. CASE prior.kind = "add"
    <3>1. /\ \A i \in 1..prior.len : (b[prior.off + i] + prior.lit[i]) % ByteValues = c[at + i]
          /\ \A i \in 1..op.len : (b[op.off + i] + op.lit[i]) % ByteValues = c[(at + prior.len) + i]
      BY <1>3, <2>4 DEF Fits
    <3>2. prior.kind # "insert"
      BY <2>4
    <3>3. \A i \in 1..op.len : (b[prior.off + (prior.len + i)] + all.lit[prior.len + i]) % ByteValues = c[at + (prior.len + i)]
      BY <1>6, <1>7, <2>2, <3>1, <3>2
    <3>4. ASSUME NEW i \in 1..(prior.len + op.len) PROVE (b[prior.off + i] + all.lit[i]) % ByteValues = c[at + i]
      <4>1. CASE i \in 1..prior.len
        BY <2>2, <3>1, <4>1
      <4>2. CASE i - prior.len \in 1..op.len /\ i = prior.len + (i - prior.len)
        BY <3>3, <4>2, Zenon
      <4> QED
        BY <1>5, <4>1, <4>2
    <3>5. \A i \in 1..all.len : (b[all.off + i] + all.lit[i]) % ByteValues = c[at + i]
      BY <1>2, <3>4
    <3>6. all.kind = "add" /\ at + all.len <= Len(c) /\ Len(all.lit) = all.len /\ all.off + all.len <= Len(b)
      BY <1>2, <1>4, <1>8, <2>2, <2>4
    <3>7. Fits(b, c, all, at)
      BY <3>5, <3>6 DEF Fits
    <3> QED
      BY <1>2, <3>7 DEF all
  <2> QED
    BY <1>9, <2>3, <2>4
<1>10. CASE prior.kind = "copy"
  <2>1. /\ \A i \in 1..prior.len : b[prior.off + i] = c[at + i]
        /\ \A i \in 1..op.len : b[op.off + i] = c[(at + prior.len) + i]
    BY <1>3, <1>10 DEF Fits
  <2>2. prior.kind # "insert"
    BY <1>10
  <2>3. \A i \in 1..op.len : b[prior.off + (prior.len + i)] = c[at + (prior.len + i)]
    BY <1>6, <1>7, <2>1, <2>2
  <2>4. \A i \in 1..(prior.len + op.len) : b[prior.off + i] = c[at + i]
    BY <1>5, <2>1, <2>3
  <2>5. \A i \in 1..all.len : b[all.off + i] = c[at + i]
    BY <1>2, <2>4
  <2>6. all.kind = "copy" /\ at + all.len <= Len(c) /\ all.off + all.len <= Len(b)
    BY <1>2, <1>4, <1>8, <1>10
  <2>7. all.lit = <<>>
    <3>1. prior.lit = <<>> /\ op.lit = <<>>
      BY <1>3, <1>10 DEF Fits
    <3> QED
      BY <1>2, <3>1
  <2>8. Fits(b, c, all, at)
    BY <2>5, <2>6, <2>7 DEF Fits
  <2> QED
    BY <1>2, <2>8 DEF all
<1> QED
  BY <1>3, <1>9, <1>10

(* Pending bytes become an insert, or nothing.                             *)
LEMMA FlushCovers ==
    ASSUME NEW b, NEW c, NEW ops \in Seq(Ops), NEW k, Covers(b, c, ops, 0, k),
           NEW bytes \in Seq(Bytes), k + Len(bytes) <= Len(c), \A i \in 1..Len(bytes) : bytes[i] = c[k + i]
    PROVE  Flush(ops, bytes) \in Seq(Ops) /\ Covers(b, c, Flush(ops, bytes), 0, k + Len(bytes))
<1>0. k \in Nat
  BY Bounds
<1>1. CASE bytes = <<>>
  BY <1>0, <1>1 DEF Flush
<1>2. CASE bytes # <<>>
  <2>1. Insert(bytes) \in Ops /\ Insert(bytes).len = Len(bytes) /\ Fits(b, c, Insert(bytes), k)
    BY <1>0, InsertFits
  <2>2. Flush(ops, bytes) = Append(ops, Insert(bytes))
    BY <1>2 DEF Flush
  <2>3. Covers(b, c, Append(ops, Insert(bytes)), 0, k + Insert(bytes).len)
    BY <2>1, OneMore
  <2> QED
    BY <2>1, <2>2, <2>3
<1> QED
  BY <1>1, <1>2

(* A common prefix is inside both sequences, and the same bytes in both.   *)
LEMMA CommonPrefixIs ==
    ASSUME NEW S, NEW s \in Seq(S), NEW t \in Seq(S), NEW i \in 0..Len(s), NEW j \in 0..Len(t)
    PROVE  LET n == CommonPrefix(s, i, t, j) IN
           /\ n \in Nat /\ i + n <= Len(s) /\ j + n <= Len(t)
           /\ \A x \in 1..n : s[i + x] = t[j + x]
<1> DEFINE least == Min({Len(s) - i, Len(t) - j})
           T == {n \in 0..least : Slice(s, i, n) = Slice(t, j, n)}
<1>1. least \in Nat /\ i + least <= Len(s) /\ j + least <= Len(t)
  <2>1. {Len(s) - i, Len(t) - j} \subseteq Nat
    OBVIOUS
  <2>2. least \in {Len(s) - i, Len(t) - j} /\ \A y \in {Len(s) - i, Len(t) - j} : least <= y
    BY <2>1, MinIs
  <2> HIDE DEF least
  <2> QED
    BY <2>1, <2>2
<1> HIDE DEF least
<1>2. 0 \in T
  <2>1. Slice(s, i, 0) = <<>> /\ Slice(t, j, 0) = <<>>
    BY SliceNone
  <2> QED
    BY <1>1, <2>1
<1>3. T \subseteq Nat /\ \A x \in T : x <= least
  BY <1>1
<1>4. Max(T) \in T
  BY <1>1, <1>2, <1>3, MaxIs
<1>5. CommonPrefix(s, i, t, j) = Max(T)
  BY DEF CommonPrefix, least
<1> DEFINE n == Max(T)
<1>6. n \in Nat /\ n <= least /\ Slice(s, i, n) = Slice(t, j, n)
  BY <1>1, <1>4
<1> HIDE DEF T, n
<1>7. n \in Nat /\ i \in Nat /\ j \in Nat
  BY <1>6
<1>8. i + n <= Len(s)
  BY <1>1, <1>6
<1>9. j + n <= Len(t)
  BY <1>1, <1>6
<1>10. \A x \in 1..n : Slice(s, i, n)[x] = s[i + x]
  <2>1. n \in Nat /\ i \in Nat /\ i + n <= Len(s)
    BY <1>7, <1>8
  <2> QED
    BY <2>1, SliceIs, SMTT(30)
<1>11. \A x \in 1..n : Slice(t, j, n)[x] = t[j + x]
  <2>1. n \in Nat /\ j \in Nat /\ j + n <= Len(t)
    BY <1>7, <1>9
  <2> QED
    BY <2>1, SliceIs, SMTT(30)
<1>12. \A x \in 1..n : s[i + x] = t[j + x]
  BY <1>6, <1>10, <1>11
<1> QED
  BY <1>5, <1>7, <1>8, <1>9, <1>12 DEF n

-----------------------------------------------------------------------------
(* A sparse payload p of the first x bytes of a difference: its runs start *)
(* at R, and hold what is not zero.                                        *)

(* R has the places in p where runs start: the first, and from each the    *)
(* next up to the end of p. No run leaves the first x bytes, each holds    *)
(* bytes of the difference, and a byte outside of them is zero.            *)
RunsAt(R, diff, p, x) ==
  /\ R \subseteq 0..(Len(p) - 1)
  /\ p # <<>> => 0 \in R /\ \E r \in R : RunEnd(p, r) = Len(p)
  /\ \A q \in R : HasRun(p, q) /\ RunOff(p, q) + RunLen(p, q) <= x
  /\ \A q \in R : RunEnd(p, q) < Len(p) => RunEnd(p, q) \in R
  /\ \A q \in R : q = 0 \/ \E r \in R : r < q /\ q = RunEnd(p, r)
  /\ \A q \in R : \A i \in 1..x : InRun(p, q, i) => p[RunBody(p, q) + i - RunOff(p, q)] = diff[i]
  /\ \A i \in 1..x : diff[i] # 0 => \E q \in R : InRun(p, q, i)

Payload(diff, p, x) == x \in 0..Len(diff) /\ p \in Seq(Bytes) /\ \E R : RunsAt(R, diff, p, x)

LEMMA PayloadNone ==
    ASSUME NEW diff \in Seq(Bytes)
    PROVE  Payload(diff, <<>>, 0)
<1>1. RunsAt({}, diff, <<>>, 0)
  BY DEF RunsAt
<1>2. <<>> \in Seq(Bytes) /\ 0 \in 0..Len(diff)
  OBVIOUS
<1> QED
  BY <1>1, <1>2 DEF Payload

LEMMA BytesNat == Bytes \subseteq Nat /\ 0 \in Bytes /\ \A n \in Nat : n < ByteValues => n \in Bytes
BY SMTT(30), DeltaAssumption DEF Bytes

LEMMA OffsetsNat == Offsets \subseteq Nat
<1>1. \A b \in Bases : b \in Seq(Bytes)
  BY DeltaAssumption DEF Bytes
<1>2. \A b \in Bases : 0..Len(b) \subseteq Nat
  BY <1>1
<1> QED
  BY <1>2 DEF Offsets

(* A uvarint has a byte at least.                                          *)
LEMMA UvarintIs ==
    ASSUME NEW n \in Offsets
    PROVE  Uvarint(n) \in Seq(Bytes) /\ Len(Uvarint(n)) \in Nat /\ Len(Uvarint(n)) > 0
<1>1. Uvarint(n) \in Seq(Bytes) /\ Uvarint(n) # <<>>
  BY DeltaAssumption DEF Bytes
<1> QED
  BY <1>1

(* The number that was written is the one that is read.                    *)
LEMMA NumberIs ==
    ASSUME NEW s, NEW p, NEW n \in Offsets, Reads(s, p, n)
    PROVE  HasNumber(s, p) /\ Number(s, p) = n /\ Past(s, p) = p + Len(Uvarint(n))
<1>1. HasNumber(s, p)
  BY DEF HasNumber
<1>2. PICK m : m = Number(s, p)
  OBVIOUS
<1>3. m \in Offsets /\ Reads(s, p, m)
  BY <1>1, <1>2 DEF HasNumber, Number
<1>4. m = n
  <2> SUFFICES ASSUME m # n PROVE FALSE
    OBVIOUS
  <2>1. PICK i \in DOMAIN Uvarint(m) \cap DOMAIN Uvarint(n) : Uvarint(m)[i] # Uvarint(n)[i]
    BY <1>3, DeltaAssumption
  <2>2. Uvarint(m) \in Seq(Bytes) /\ Uvarint(n) \in Seq(Bytes)
    BY <1>3, UvarintIs
  <2>3. i \in 1..Len(Uvarint(m)) /\ i \in 1..Len(Uvarint(n))
    BY <2>1, <2>2
  <2>4. s[p + i] = Uvarint(m)[i] /\ s[p + i] = Uvarint(n)[i]
    BY <1>3, <2>3 DEF Reads
  <2> QED
    BY <2>1, <2>4
<1> QED
  BY <1>1, <1>2, <1>4 DEF Past

(* A number that is read was written as one, and takes the reader on.      *)
LEMMA NumberType ==
    ASSUME NEW s, NEW p \in Nat, HasNumber(s, p)
    PROVE  /\ Number(s, p) \in Offsets /\ Number(s, p) \in Nat /\ Reads(s, p, Number(s, p))
           /\ Past(s, p) \in Nat /\ p < Past(s, p)
<1>1. PICK n \in Offsets : Reads(s, p, n)
  BY DEF HasNumber
<1>2. Number(s, p) = n /\ Past(s, p) = p + Len(Uvarint(n))
  BY <1>1, NumberIs
<1>3. n \in Nat
  BY OffsetsNat
<1>4. Len(Uvarint(n)) \in Nat /\ Len(Uvarint(n)) > 0
  BY UvarintIs
<1> QED
  BY <1>1, <1>2, <1>3, <1>4

(* A run that is read lies in its payload.                                 *)
LEMMA RunType ==
    ASSUME NEW s \in Seq(Bytes), NEW p \in Nat, HasRun(s, p)
    PROVE  /\ RunOff(s, p) \in Nat /\ RunLen(s, p) \in Nat /\ RunBody(s, p) \in Nat /\ RunEnd(s, p) \in Nat
           /\ p < RunBody(s, p) /\ p < RunEnd(s, p) /\ RunEnd(s, p) <= Len(s) /\ p < Len(s)
           /\ RunEnd(s, p) = RunBody(s, p) + RunLen(s, p)
<1>1. HasNumber(s, p) /\ HasNumber(s, Past(s, p)) /\ RunEnd(s, p) <= Len(s)
  BY DEF HasRun
<1>2. Number(s, p) \in Nat /\ Past(s, p) \in Nat /\ p < Past(s, p)
  BY <1>1, NumberType
<1>3. /\ Number(s, Past(s, p)) \in Nat /\ Past(s, Past(s, p)) \in Nat
      /\ Past(s, p) < Past(s, Past(s, p))
  BY <1>1, <1>2, NumberType
<1>4. RunOff(s, p) \in Nat /\ RunLen(s, p) \in Nat /\ RunBody(s, p) \in Nat /\ p < RunBody(s, p)
  BY <1>2, <1>3 DEF RunOff, RunLen, RunBody
<1>5. RunEnd(s, p) = RunBody(s, p) + RunLen(s, p)
  BY DEF RunEnd
<1> QED
  BY <1>1, <1>4, <1>5

(* What is read is also read when more follows.                            *)
LEMMA ReadsOn ==
    ASSUME NEW s \in Seq(Bytes), NEW t \in Seq(Bytes), Len(s) <= Len(t), \A i \in 1..Len(s) : t[i] = s[i],
           NEW p \in Nat, NEW n \in Offsets, Reads(s, p, n)
    PROVE  Reads(t, p, n)
<1>1. PICK u : u = Uvarint(n)
  OBVIOUS
<1>2. u \in Seq(Bytes) /\ Len(u) \in Nat
  BY <1>1, UvarintIs
<1>3. p + Len(u) <= Len(s) /\ \A i \in 1..Len(u) : s[p + i] = u[i]
  BY <1>1 DEF Reads
<1>4. Len(s) \in Nat /\ Len(t) \in Nat
  OBVIOUS
<1>5. \A i \in 1..Len(u) : p + i \in 1..Len(s)
  BY <1>2, <1>3, <1>4
<1>6. \A i \in 1..Len(u) : t[p + i] = u[i]
  BY <1>3, <1>5
<1>7. p + Len(u) <= Len(t)
  BY <1>2, <1>3, <1>4
<1> QED
  BY <1>1, <1>6, <1>7 DEF Reads

(* A run stays what it is when others are written after it.                *)
LEMMA RunOn ==
    ASSUME NEW s \in Seq(Bytes), NEW t \in Seq(Bytes), Len(s) <= Len(t), \A i \in 1..Len(s) : t[i] = s[i],
           NEW p \in Nat, HasRun(s, p)
    PROVE  /\ HasRun(t, p) /\ RunOff(t, p) = RunOff(s, p) /\ RunLen(t, p) = RunLen(s, p)
           /\ RunBody(t, p) = RunBody(s, p) /\ RunEnd(t, p) = RunEnd(s, p)
<1>1. HasNumber(s, p) /\ HasNumber(s, Past(s, p)) /\ RunEnd(s, p) <= Len(s)
  BY DEF HasRun
<1>2. ASSUME NEW q \in Nat, HasNumber(s, q) PROVE HasNumber(t, q) /\ Number(t, q) = Number(s, q) /\ Past(t, q) = Past(s, q)
  <2>1. PICK n \in Offsets : Reads(s, q, n)
    BY <1>2 DEF HasNumber
  <2>2. Reads(t, q, n)
    BY <2>1, ReadsOn
  <2>3. Number(s, q) = n /\ Past(s, q) = q + Len(Uvarint(n))
    BY <2>1, NumberIs
  <2>4. HasNumber(t, q) /\ Number(t, q) = n /\ Past(t, q) = q + Len(Uvarint(n))
    BY <2>2, NumberIs
  <2> QED
    BY <2>3, <2>4
<1>3. Past(s, p) \in Nat
  BY <1>1, NumberType
<1>4. /\ HasNumber(t, p) /\ Number(t, p) = Number(s, p) /\ Past(t, p) = Past(s, p)
      /\ HasNumber(t, Past(s, p)) /\ Number(t, Past(s, p)) = Number(s, Past(s, p))
      /\ Past(t, Past(s, p)) = Past(s, Past(s, p))
  BY <1>1, <1>2, <1>3
<1>5. RunOff(t, p) = RunOff(s, p) /\ RunLen(t, p) = RunLen(s, p) /\ RunBody(t, p) = RunBody(s, p)
  BY <1>4 DEF RunOff, RunLen, RunBody
<1>6. RunEnd(t, p) = RunEnd(s, p)
  BY <1>5 DEF RunEnd
<1>7. RunEnd(s, p) \in Nat /\ Len(s) \in Nat /\ Len(t) \in Nat
  BY RunType
<1>8. HasRun(t, p)
  BY <1>1, <1>4, <1>6, <1>7 DEF HasRun
<1> QED
  BY <1>5, <1>6, <1>8

(* The run that is written at the end of a payload is read from there.     *)
(* The payload new is p and one more run.                                  *)
Adds(new, p, start, n, run) ==
  /\ new \in Seq(Bytes) /\ Len(p) < Len(new) /\ \A i \in 1..Len(p) : new[i] = p[i]
  /\ HasRun(new, Len(p)) /\ RunOff(new, Len(p)) = start /\ RunLen(new, Len(p)) = n /\ RunEnd(new, Len(p)) = Len(new)
  /\ \A i \in 1..n : new[RunBody(new, Len(p)) + i] = run[i]

LEMMA RunMade ==
    ASSUME NEW p \in Seq(Bytes), NEW start \in Offsets, NEW n \in Offsets, NEW run \in Seq(Bytes), Len(run) = n
    PROVE  Adds(p \o Uvarint(start) \o Uvarint(n) \o run, p, start, n, run)
<1>1. PICK u, v : u = Uvarint(start) /\ v = Uvarint(n)
  OBVIOUS
<1>2. u \in Seq(Bytes) /\ v \in Seq(Bytes) /\ Len(u) > 0 /\ Len(v) > 0 /\ Len(u) \in Nat /\ Len(v) \in Nat
  BY <1>1, UvarintIs
<1>3. PICK a : a = p \o u
  OBVIOUS
<1>4. PICK b : b = a \o v
  OBVIOUS
<1>5. PICK new : new = b \o run
  OBVIOUS
<1>6. /\ a \in Seq(Bytes) /\ Len(a) = Len(p) + Len(u)
      /\ (\A i \in 1..Len(p) : a[i] = p[i]) /\ \A i \in 1..Len(u) : a[Len(p) + i] = u[i]
  BY <1>2, <1>3, CatIs
<1>7. /\ b \in Seq(Bytes) /\ Len(b) = Len(a) + Len(v)
      /\ (\A i \in 1..Len(a) : b[i] = a[i]) /\ \A i \in 1..Len(v) : b[Len(a) + i] = v[i]
  <2>1. a \in Seq(Bytes) /\ v \in Seq(Bytes)
    BY <1>2, <1>6
  <2> QED
    BY <1>4, <2>1, CatIs
<1>8. /\ new \in Seq(Bytes) /\ Len(new) = Len(b) + Len(run)
      /\ (\A i \in 1..Len(b) : new[i] = b[i]) /\ \A i \in 1..Len(run) : new[Len(b) + i] = run[i]
  <2>1. b \in Seq(Bytes) /\ run \in Seq(Bytes)
    BY <1>7
  <2>2. /\ b \o run \in Seq(Bytes) /\ Len(b \o run) = Len(b) + Len(run)
        /\ (\A i \in 1..Len(b) : (b \o run)[i] = b[i]) /\ \A i \in 1..Len(run) : (b \o run)[Len(b) + i] = run[i]
    BY <2>1, CatIs
  <2> QED
    BY <1>5, <2>2
<1>9. Len(p) \in Nat /\ Len(a) \in Nat /\ Len(b) \in Nat /\ Len(new) \in Nat /\ n \in Nat
  <2>1. n \in Nat
    BY OffsetsNat
  <2> QED
    BY <1>6, <1>7, <1>8, <2>1
<1>10. Reads(a, Len(p), start)
  BY <1>1, <1>6, <1>9 DEF Reads
<1>11. Reads(b, Len(a), n)
  BY <1>1, <1>7, <1>9 DEF Reads
<1>12. Len(a) <= Len(new) /\ \A i \in 1..Len(a) : new[i] = a[i]
  <2>1. Len(a) <= Len(b) /\ Len(b) <= Len(new)
    BY <1>2, <1>7, <1>8, <1>9
  <2>2. \A i \in 1..Len(a) : i \in 1..Len(b)
    BY <1>9, <2>1
  <2>3. \A i \in 1..Len(a) : new[i] = a[i]
    BY <1>7, <1>8, <2>2
  <2>4. Len(a) <= Len(new)
    BY <1>9, <2>1
  <2> QED
    BY <2>3, <2>4
<1>13. Reads(new, Len(p), start)
  BY <1>6, <1>8, <1>9, <1>10, <1>12, ReadsOn
<1>14. Reads(new, Len(a), n)
  <2>1. Len(b) <= Len(new)
    BY <1>8, <1>9
  <2> QED
    BY <1>7, <1>8, <1>9, <1>11, <2>1, ReadsOn
<1>15. HasNumber(new, Len(p)) /\ Number(new, Len(p)) = start /\ Past(new, Len(p)) = Len(a)
  BY <1>1, <1>6, <1>13, NumberIs
<1>16. HasNumber(new, Len(a)) /\ Number(new, Len(a)) = n /\ Past(new, Len(a)) = Len(b)
  BY <1>1, <1>7, <1>14, NumberIs
<1>17. RunOff(new, Len(p)) = start /\ RunLen(new, Len(p)) = n /\ RunBody(new, Len(p)) = Len(b)
  BY <1>15, <1>16 DEF RunOff, RunLen, RunBody
<1>18. RunEnd(new, Len(p)) = Len(new)
  BY <1>8, <1>17 DEF RunEnd
<1>19. HasRun(new, Len(p))
  BY <1>9, <1>15, <1>16, <1>18 DEF HasRun
<1>20. Len(p) < Len(new) /\ \A i \in 1..Len(p) : new[i] = p[i]
  <2>1. Len(p) < Len(new) /\ Len(p) <= Len(a)
    BY <1>2, <1>6, <1>9, <1>12
  <2>2. \A i \in 1..Len(p) : i \in 1..Len(a)
    BY <1>9, <2>1
  <2> QED
    BY <1>6, <1>12, <2>1, <2>2
<1>21. \A i \in 1..n : new[RunBody(new, Len(p)) + i] = run[i]
  BY <1>8, <1>17
<1>22. Adds(new, p, start, n, run)
  BY <1>8, <1>17, <1>18, <1>19, <1>20, <1>21 DEF Adds
<1> QED
  BY <1>1, <1>3, <1>4, <1>5, <1>22

(* The places a reader of a payload reads offsets at are those the writer  *)
(* wrote them at.                                                          *)
LEMMA RunStartsAre ==
    ASSUME NEW R, NEW diff, NEW p \in Seq(Bytes), NEW x \in Nat, RunsAt(R, diff, p, x), p # <<>>
    PROVE  RunStarts(p) = R
<1> DEFINE places == 0..(Len(p) - 1)
           follows(S) == \A q \in S : HasRun(p, q) /\ RunEnd(p, q) \in places => RunEnd(p, q) \in S
<1>1. Len(p) \in Nat
  OBVIOUS
<1>2. RunStarts(p) = {q \in places : \A S \in SUBSET places : 0 \in S /\ follows(S) => q \in S}
  BY DEF RunStarts
<1>3. R \in SUBSET places /\ 0 \in R /\ follows(R)
  <2>1. \A q \in R : RunEnd(p, q) \in places => RunEnd(p, q) < Len(p)
    BY <1>1
  <2> QED
    BY <2>1 DEF RunsAt
<1>4. ASSUME NEW S \in SUBSET places, 0 \in S, follows(S) PROVE R \subseteq S
  <2>1. SUFFICES ASSUME R \ S # {} PROVE FALSE
    OBVIOUS
  <2>2. R \ S \subseteq Nat
    BY <1>1, <1>3
  <2>3. PICK q \in R \ S : \A r \in R \ S : q <= r
    BY <2>1, <2>2, LeastOf
  <2>4. PICK r \in R : r < q /\ q = RunEnd(p, r)
    BY <1>4, <2>3 DEF RunsAt
  <2>5. r \in S
    BY <1>1, <1>3, <2>3, <2>4
  <2>6. HasRun(p, r) /\ RunEnd(p, r) = q /\ q \in places
    BY <1>3, <2>3, <2>4 DEF RunsAt
  <2> QED
    BY <1>4, <2>3, <2>5, <2>6
<1> HIDE DEF follows, places
<1>5. R \subseteq RunStarts(p)
  BY <1>2, <1>3, <1>4
<1>6. RunStarts(p) \subseteq R
  BY <1>2, <1>3
<1> QED
  BY <1>5, <1>6

(* a payload that was written to the end of its difference is applied      *)
LEMMA PayloadEnd ==
    ASSUME NEW diff \in Seq(Bytes), NEW p, NEW x, Payload(diff, p, x), NonZero(diff, x) = {},
           NEW s \in Seq(Bytes), Len(s) = Len(diff)
    PROVE  /\ p # <<>> => /\ SparseFits(p, Len(diff))
                          /\ \A i \in 1..Len(diff) : ApplySparse(s, p)[i] = (s[i] + diff[i]) % ByteValues
           /\ p = <<>> => \A i \in 1..Len(diff) : s[i] = (s[i] + diff[i]) % ByteValues
<1>1. PICK R : RunsAt(R, diff, p, x)
  BY DEF Payload
<1>2. x \in Nat /\ x <= Len(diff) /\ p \in Seq(Bytes) /\ Len(diff) \in Nat
  BY DEF Payload
<1>3. ASSUME NEW i \in 1..Len(diff), i > x PROVE diff[i] = 0
  <2>1. i - 1 \in x..(Len(diff) - 1) /\ (i - 1) + 1 = i
    BY <1>2, <1>3
  <2> QED
    BY <2>1 DEF NonZero
<1>4. ASSUME NEW i \in 1..Len(diff), diff[i] = 0 PROVE s[i] = (s[i] + diff[i]) % ByteValues
  <2>1. s[i] \in Bytes
    OBVIOUS
  <2> QED
    BY <1>4, <2>1, ByteArith
<1>5. CASE p = <<>>
  <2>1. R = {}
    BY <1>1, <1>5 DEF RunsAt
  <2>2. \A i \in 1..x : diff[i] = 0
    BY <1>1, <2>1 DEF RunsAt
  <2>3. \A i \in 1..Len(diff) : i \in 1..x \/ i > x
    BY <1>2
  <2> QED
    BY <1>3, <1>4, <1>5, <2>2, <2>3
<1>6. CASE p # <<>>
  <2>1. RunStarts(p) = R
    BY <1>1, <1>2, <1>6, RunStartsAre
  <2>2. ASSUME NEW q \in R
        PROVE  /\ q \in Nat /\ HasRun(p, q) /\ RunOff(p, q) \in Nat /\ RunLen(p, q) \in Nat
               /\ RunOff(p, q) + RunLen(p, q) <= x
    <3>1. q \in 0..(Len(p) - 1) /\ HasRun(p, q) /\ RunOff(p, q) + RunLen(p, q) <= x
      BY <1>1 DEF RunsAt
    <3>2. q \in Nat
      BY <3>1
    <3>3. RunOff(p, q) \in Nat /\ RunLen(p, q) \in Nat
      BY <1>2, <3>1, <3>2, RunType
    <3> QED
      BY <3>1, <3>2, <3>3
  <2>3. SparseFits(p, Len(diff))
    <3>1. ASSUME NEW q \in R PROVE RunOff(p, q) + RunLen(p, q) <= Len(diff)
      <4>1. PICK n \in Nat : n = RunOff(p, q) + RunLen(p, q)
        BY <2>2
      <4> QED
        BY <1>2, <2>2, <4>1
    <3> QED
      BY <2>1, <2>2, <3>1 DEF SparseFits
  <2>4. ASSUME NEW i \in 1..Len(diff) PROVE ApplySparse(s, p)[i] = (s[i] + diff[i]) % ByteValues
    <3>1. i \in 1..Len(s)
      OBVIOUS
    <3>2. CASE \E q \in R : InRun(p, q, i)
      <4> DEFINE q == CHOOSE r \in R : InRun(p, r, i)
      <4>1. q \in R /\ InRun(p, q, i)
        BY <3>2
      <4>2. ApplySparse(s, p)[i] = (s[i] + p[RunBody(p, q) + i - RunOff(p, q)]) % ByteValues
        BY <2>1, <3>1, <3>2 DEF ApplySparse
      <4> HIDE DEF q
      <4>3. i \in 1..x
        BY <1>2, <2>2, <4>1 DEF InRun
      <4>4. p[RunBody(p, q) + i - RunOff(p, q)] = diff[i]
        BY <1>1, <4>1, <4>3 DEF RunsAt
      <4> QED
        BY <4>2, <4>4
    <3>3. CASE ~\E q \in R : InRun(p, q, i)
      <4>1. ApplySparse(s, p)[i] = s[i]
        BY <2>1, <3>1, <3>3 DEF ApplySparse
      <4>2. diff[i] = 0
        <5>1. CASE i \in 1..x
          BY <1>1, <3>3, <5>1 DEF RunsAt
        <5>2. CASE i > x
          BY <1>3, <5>2
        <5> QED
          BY <1>2, <5>1, <5>2
      <4> QED
        BY <1>4, <4>1, <4>2
    <3> QED
      BY <3>2, <3>3
  <2> QED
    BY <1>6, <2>3, <2>4
<1> QED
  BY <1>5, <1>6

(* The next run of bytes that are not zero.                                *)
LEMMA PayloadRun ==
    ASSUME NEW diff \in Seq(Bytes), 0..Len(diff) \subseteq Offsets, NEW p, NEW x, Payload(diff, p, x),
           NEW start \in x..(Len(diff) - 1), NEW end \in start..Len(diff),
           \A i \in 1..start : i > x => diff[i] = 0
    PROVE  Payload(diff, p \o Uvarint(start) \o Uvarint(end - start) \o Slice(diff, start, end - start), end)
<1> DEFINE n == end - start
           run == Slice(diff, start, n)
           new == p \o Uvarint(start) \o Uvarint(n) \o run
           q0 == Len(p)
<1>1. PICK R : RunsAt(R, diff, p, x)
  BY DEF Payload
<1>2. x \in Nat /\ x <= Len(diff) /\ p \in Seq(Bytes) /\ Len(diff) \in Nat /\ Len(p) \in Nat
  BY DEF Payload
<1>3. start \in Nat /\ n \in Nat /\ start + n = end /\ end \in Nat /\ x <= start /\ end <= Len(diff) /\ start < Len(diff)
  BY <1>2
<1>4. start \in Offsets /\ n \in Offsets
  <2>1. start \in 0..Len(diff) /\ n \in 0..Len(diff)
    BY <1>2, <1>3
  <2> QED
    BY <2>1
<1>5. run \in Seq(Bytes) /\ Len(run) = n /\ \A i \in 1..n : run[i] = diff[start + i]
  <2>1. start \in Nat /\ n \in Nat /\ start + n <= Len(diff)
    BY <1>3
  <2> HIDE DEF n
  <2> QED
    BY <2>1, ByteSlice
<1> HIDE DEF n, run
<1>6. /\ new \in Seq(Bytes) /\ Len(new) \in Nat /\ Len(p) < Len(new) /\ \A i \in 1..Len(p) : new[i] = p[i]
      /\ HasRun(new, q0) /\ RunOff(new, q0) = start /\ RunLen(new, q0) = n /\ RunEnd(new, q0) = Len(new)
      /\ RunBody(new, q0) \in Nat /\ \A i \in 1..n : new[RunBody(new, q0) + i] = diff[start + i]
  <2>1. /\ new \in Seq(Bytes) /\ Len(p) < Len(new) /\ \A i \in 1..Len(p) : new[i] = p[i]
        /\ HasRun(new, q0) /\ RunOff(new, q0) = start /\ RunLen(new, q0) = n /\ RunEnd(new, q0) = Len(new)
        /\ \A i \in 1..n : new[RunBody(new, q0) + i] = run[i]
    <3>1. p \in Seq(Bytes) /\ run \in Seq(Bytes) /\ Len(run) = n
      BY <1>2, <1>5
    <3>2. Adds(new, p, start, n, run)
      BY <1>4, <3>1, RunMade
    <3> HIDE DEF new
    <3> QED
      BY <3>2 DEF Adds
  <2> HIDE DEF new
  <2>2. RunBody(new, q0) \in Nat /\ Len(new) \in Nat
    BY <1>2, <2>1, RunType
  <2>3. \A i \in 1..n : new[RunBody(new, q0) + i] = diff[start + i]
    BY <1>5, <2>1
  <2> QED
    BY <2>1, <2>2, <2>3
<1> HIDE DEF new
<1> DEFINE Q == R \cup {q0}
<1>7. ASSUME NEW q \in R
      PROVE  /\ q \in Nat /\ q < Len(p) /\ HasRun(p, q) /\ HasRun(new, q)
             /\ RunOff(p, q) \in Nat /\ RunLen(p, q) \in Nat /\ RunBody(p, q) \in Nat /\ RunEnd(p, q) \in Nat
             /\ RunOff(new, q) = RunOff(p, q) /\ RunLen(new, q) = RunLen(p, q)
             /\ RunBody(new, q) = RunBody(p, q) /\ RunEnd(new, q) = RunEnd(p, q)
             /\ RunOff(p, q) + RunLen(p, q) <= x /\ RunEnd(p, q) <= Len(p)
             /\ RunEnd(p, q) = RunBody(p, q) + RunLen(p, q)
  <2>1. q \in 0..(Len(p) - 1) /\ HasRun(p, q) /\ RunOff(p, q) + RunLen(p, q) <= x
    BY <1>1 DEF RunsAt
  <2>2. q \in Nat /\ q < Len(p)
    BY <1>2, <2>1
  <2>3. /\ RunOff(p, q) \in Nat /\ RunLen(p, q) \in Nat /\ RunBody(p, q) \in Nat /\ RunEnd(p, q) \in Nat
        /\ RunEnd(p, q) <= Len(p) /\ RunEnd(p, q) = RunBody(p, q) + RunLen(p, q)
    BY <1>2, <2>1, <2>2, RunType
  <2>4. /\ HasRun(new, q) /\ RunOff(new, q) = RunOff(p, q) /\ RunLen(new, q) = RunLen(p, q)
        /\ RunBody(new, q) = RunBody(p, q) /\ RunEnd(new, q) = RunEnd(p, q)
    <3>1. Len(p) <= Len(new)
      BY <1>2, <1>6
    <3> QED
      BY <1>2, <1>6, <2>1, <2>2, <3>1, RunOn, SMTT(30)
  <2> QED
    BY <2>1, <2>2, <2>3, <2>4
<1>8. RunsAt(Q, diff, new, end)
  <2>1. Q \subseteq 0..(Len(new) - 1)
    <3>1. \A q \in R : q \in 0..(Len(new) - 1)
      BY <1>2, <1>6, <1>7
    <3>2. q0 \in 0..(Len(new) - 1)
      BY <1>2, <1>6
    <3> QED
      BY <3>1, <3>2
  <2>2. 0 \in Q /\ \E r \in Q : RunEnd(new, r) = Len(new)
    <3>1. CASE p = <<>>
      BY <1>6, <3>1
    <3>2. CASE p # <<>>
      BY <1>1, <1>6, <3>2 DEF RunsAt
    <3> QED
      BY <3>1, <3>2
  <2>3. ASSUME NEW q \in Q
        PROVE  HasRun(new, q) /\ RunOff(new, q) + RunLen(new, q) <= end
    <3>1. CASE q \in R
      <4>1. PICK m \in Nat : m = RunOff(p, q) + RunLen(p, q)
        BY <1>7, <3>1
      <4>2. m <= end
        BY <1>2, <1>3, <1>7, <3>1, <4>1
      <4> QED
        BY <1>7, <3>1, <4>1, <4>2
    <3>2. CASE q = q0
      BY <1>3, <1>6, <3>2
    <3> QED
      BY <3>1, <3>2
  <2>4. ASSUME NEW q \in Q, RunEnd(new, q) < Len(new) PROVE RunEnd(new, q) \in Q
    <3>1. q \in R
      BY <1>6, <2>4
    <3>2. RunEnd(new, q) = RunEnd(p, q) /\ RunEnd(p, q) <= Len(p) /\ RunEnd(p, q) \in Nat
      BY <1>7, <3>1
    <3>3. CASE RunEnd(p, q) < Len(p)
      BY <1>1, <3>1, <3>2, <3>3 DEF RunsAt
    <3>4. CASE RunEnd(p, q) = q0
      BY <3>2, <3>4
    <3> QED
      BY <1>2, <3>2, <3>3, <3>4
  <2>5. ASSUME NEW q \in Q PROVE q = 0 \/ \E r \in Q : r < q /\ q = RunEnd(new, r)
    <3>1. CASE q \in R
      <4>1. q = 0 \/ \E r \in R : r < q /\ q = RunEnd(p, r)
        BY <1>1, <3>1 DEF RunsAt
      <4> QED
        BY <1>7, <4>1
    <3>2. CASE q = q0 /\ p = <<>>
      BY <3>2
    <3>3. CASE q = q0 /\ p # <<>>
      <4>1. PICK r \in R : RunEnd(p, r) = Len(p)
        BY <1>1, <3>3 DEF RunsAt
      <4>2. r < q
        BY <1>7, <3>3
      <4> QED
        BY <1>7, <3>3, <4>1, <4>2
    <3> QED
      BY <3>1, <3>2, <3>3
  <2>6. ASSUME NEW q \in Q, NEW i \in 1..end, InRun(new, q, i)
        PROVE  new[RunBody(new, q) + i - RunOff(new, q)] = diff[i]
    <3>1. CASE q \in R
      <4>1. PICK y, z, b, e : y = RunOff(p, q) /\ z = RunLen(p, q) /\ b = RunBody(p, q) /\ e = RunEnd(p, q)
        OBVIOUS
      <4>2. /\ y \in Nat /\ z \in Nat /\ b \in Nat /\ e \in Nat /\ y + z <= x /\ e <= Len(p) /\ e = b + z
            /\ y < i /\ i <= y + z
        BY <1>7, <2>6, <3>1, <4>1 DEF InRun
      <4>3. b + i - y \in 1..Len(p) /\ i \in 1..x
        BY <1>2, <4>2
      <4>4. InRun(p, q, i)
        BY <4>1, <4>2 DEF InRun
      <4>5. p[RunBody(p, q) + i - RunOff(p, q)] = diff[i]
        BY <1>1, <3>1, <4>3, <4>4 DEF RunsAt
      <4>6. p[b + i - y] = diff[i] /\ new[b + i - y] = p[b + i - y]
        BY <1>6, <4>1, <4>3, <4>5
      <4>7. RunBody(new, q) = b /\ RunOff(new, q) = y
        BY <1>7, <3>1, <4>1
      <4> QED
        BY <4>6, <4>7
    <3>2. CASE q = q0
      <4>1. PICK b \in Nat : b = RunBody(new, q0)
        BY <1>6
      <4>2. start < i /\ i <= start + n
        BY <1>6, <2>6, <3>2 DEF InRun
      <4>3. i - start \in 1..n /\ start + (i - start) = i /\ b + i - start = b + (i - start)
        BY <1>2, <1>3, <4>2
      <4>4. new[b + (i - start)] = diff[start + (i - start)]
        BY <1>6, <4>1, <4>3
      <4> QED
        BY <1>6, <3>2, <4>1, <4>3, <4>4
    <3> QED
      BY <3>1, <3>2
  <2>7. ASSUME NEW i \in 1..end, diff[i] # 0 PROVE \E q \in Q : InRun(new, q, i)
    <3>1. CASE i <= x
      <4>1. PICK q \in R : InRun(p, q, i)
        BY <1>1, <1>2, <2>7, <3>1 DEF RunsAt
      <4>2. InRun(new, q, i)
        BY <1>7, <4>1 DEF InRun
      <4> QED
        BY <4>2
    <3>2. CASE i > x
      <4>1. start < i
        BY <1>3, <2>7, <3>2
      <4>2. InRun(new, q0, i)
        BY <1>3, <1>6, <4>1 DEF InRun
      <4> QED
        BY <4>2
    <3> QED
      BY <1>2, <3>1, <3>2
  <2> HIDE DEF Q
  <2> QED
    BY <2>1, <2>2, <2>3, <2>4, <2>5, <2>6, <2>7 DEF RunsAt
<1> HIDE DEF Q
<1>9. Payload(diff, new, end)
  BY <1>3, <1>6, <1>8 DEF Payload
<1> QED
  BY <1>9 DEF new, run, n

-----------------------------------------------------------------------------
(* A transform of an add stream is undone by its restoration.              *)

(* the rank of i in S                                                      *)
Place(S, i) == Cardinality({j \in S : j <= i})

(* The ranks of the members of S are the numbers up to its size, one each. *)
LEMMA PlacesOfAll ==
    ASSUME NEW n \in Nat, NEW S, S \subseteq 1..n
    PROVE  /\ IsFiniteSet(S) /\ Cardinality(S) \in Nat
           /\ \A i \in S : Place(S, i) \in 1..Cardinality(S)
           /\ \A i, j \in S : i < j => Place(S, i) < Place(S, j)
           /\ \A i, j \in S : Place(S, i) = Place(S, j) => i = j
           /\ \A k \in 1..Cardinality(S) : \E i \in S : Place(S, i) = k
<1>1. IsFiniteSet(1..n)
  BY FS_Interval
<1>2. IsFiniteSet(S) /\ Cardinality(S) \in Nat
  BY <1>1, FS_Subset, FS_CardinalityType
<1> DEFINE Upto(i) == {j \in S : j <= i}
<1>3. ASSUME NEW i \in S
      PROVE  IsFiniteSet(Upto(i)) /\ Cardinality(Upto(i)) \in Nat /\ Cardinality(Upto(i)) <= Cardinality(S)
  <2>1. Upto(i) \in SUBSET S
    OBVIOUS
  <2> HIDE DEF Upto
  <2> QED
    BY <1>2, <2>1, FS_Subset, FS_CardinalityType
<1>4. ASSUME NEW i \in S PROVE Place(S, i) \in 1..Cardinality(S)
  <2>1. i \in Upto(i)
    OBVIOUS
  <2>2. Cardinality(Upto(i)) # 0
    <3> HIDE DEF Upto
    <3> QED
      BY <1>3, <2>1, FS_EmptySet
  <2>3. Place(S, i) = Cardinality(Upto(i))
    BY DEF Place
  <2> HIDE DEF Upto
  <2> QED
    BY <1>2, <1>3, <2>2, <2>3
<1>5. ASSUME NEW i \in S, NEW j \in S, i < j PROVE Place(S, i) < Place(S, j)
  <2>1. Upto(i) \in SUBSET Upto(j) /\ j \in Upto(j) /\ j \notin Upto(i)
    <3>1. i \in Nat /\ j \in Nat /\ \A k \in S : k \in Nat
      OBVIOUS
    <3>2. \A k \in Upto(i) : k \in Upto(j)
      BY <1>5, <3>1
    <3>3. j \in Upto(j)
      BY <3>1
    <3>4. j \notin Upto(i)
      BY <1>5, <3>1
    <3> QED
      BY <3>2, <3>3, <3>4
  <2>2. Place(S, i) = Cardinality(Upto(i)) /\ Place(S, j) = Cardinality(Upto(j))
    BY DEF Place
  <2> HIDE DEF Upto
  <2>3. Upto(i) # Upto(j)
    BY <2>1
  <2>4. Cardinality(Upto(i)) <= Cardinality(Upto(j)) /\ Cardinality(Upto(i)) # Cardinality(Upto(j))
    BY <1>3, <2>1, <2>3, FS_Subset
  <2> QED
    BY <1>3, <2>2, <2>4
<1>6. ASSUME NEW i \in S, NEW j \in S, Place(S, i) = Place(S, j) PROVE i = j
  <2>1. i \in Nat /\ j \in Nat /\ Place(S, i) \in Nat /\ Place(S, j) \in Nat
    BY <1>2, <1>4
  <2> QED
    BY <1>5, <1>6, <2>1
<1>7. ASSUME NEW k \in 1..Cardinality(S) PROVE \E i \in S : Place(S, i) = k
  <2> DEFINE f == [i \in S |-> Place(S, i)]
             T == 1..Cardinality(S)
  <2>1. f \in [S -> T] /\ \A i \in S : f[i] = Place(S, i)
    BY <1>4
  <2>2. IsFiniteSet(T) /\ Cardinality(T) = Cardinality(S)
    BY <1>2, FS_Interval
  <2> HIDE DEF f, T
  <2>3. f \in Injection(S, T)
    BY <1>6, <2>1 DEF Injection, IsInjective
  <2>4. f \in Surjection(S, T)
    BY <2>2, <2>3, FS_Injection
  <2> QED
    BY <2>1, <2>4 DEF Surjection, T
<1> QED
  BY <1>2, <1>4, <1>5, <1>6, <1>7

(* The rising list of a set has every member at its rank.                  *)
LEMMA RisingIs ==
    ASSUME NEW n \in Nat, NEW S, S \subseteq 1..n
    PROVE  /\ Rising(S) \in Seq(S) /\ Len(Rising(S)) = Cardinality(S) /\ Cardinality(S) \in Nat
           /\ \A k \in 1..Cardinality(S) : Rising(S)[k] \in S /\ Place(S, Rising(S)[k]) = k
           /\ \A i \in S : Place(S, i) \in 1..Cardinality(S) /\ Rising(S)[Place(S, i)] = i
<1>1. Cardinality(S) \in Nat
  BY PlacesOfAll
<1>2. Rising(S) = [k \in 1..Cardinality(S) |-> CHOOSE i \in S : Place(S, i) = k]
  BY DEF Rising, Place
<1>3. ASSUME NEW k \in 1..Cardinality(S) PROVE Rising(S)[k] \in S /\ Place(S, Rising(S)[k]) = k
  <2>1. \E i \in S : Place(S, i) = k
    BY PlacesOfAll
  <2> QED
    BY <1>2, <2>1
<1>4. Rising(S) = [k \in 1..Cardinality(S) |-> Rising(S)[k]]
  BY <1>2
<1>5. Rising(S) \in Seq(S) /\ Len(Rising(S)) = Cardinality(S)
  BY <1>1, <1>3, <1>4, SeqIs
<1>6. ASSUME NEW i \in S PROVE Place(S, i) \in 1..Cardinality(S) /\ Rising(S)[Place(S, i)] = i
  <2>1. Place(S, i) \in 1..Cardinality(S)
    BY PlacesOfAll
  <2>2. Rising(S)[Place(S, i)] \in S /\ Place(S, Rising(S)[Place(S, i)]) = Place(S, i)
    BY <1>3, <2>1
  <2> QED
    BY <2>1, <2>2, PlacesOfAll
<1> QED
  BY <1>1, <1>3, <1>5, <1>6

WhereIn(s, T) == {i \in 1..Len(s) : s[i] \in T}

LEMMA SelectedIs ==
    ASSUME NEW s \in Seq(Bytes), NEW T
    PROVE  LET S == WhereIn(s, T) IN
           /\ Indices(s, T) = Rising(S) /\ S \subseteq 1..Len(s)
           /\ Len(Selected(s, T)) = Cardinality(S) /\ Len(Indices(s, T)) = Cardinality(S) /\ Cardinality(S) \in Nat
           /\ \A k \in 1..Cardinality(S) : Selected(s, T)[k] = s[Indices(s, T)[k]]
<1> DEFINE S == WhereIn(s, T)
<1>1. Indices(s, T) = Rising(S)
  BY DEF Indices, WhereIn
<1>2. S \subseteq 1..Len(s) /\ Len(s) \in Nat
  BY DEF WhereIn
<1> HIDE DEF S
<1>3. Len(Rising(S)) = Cardinality(S) /\ Cardinality(S) \in Nat
  BY <1>2, RisingIs
<1>4. Selected(s, T) = [k \in 1..Cardinality(S) |-> s[Indices(s, T)[k]]]
  BY <1>1, <1>3 DEF Selected
<1>5. Len(Selected(s, T)) = Cardinality(S) /\ \A k \in 1..Cardinality(S) : Selected(s, T)[k] = s[Indices(s, T)[k]]
  BY <1>3, <1>4
<1> QED
  BY <1>1, <1>2, <1>3, <1>5 DEF S

(* V13: codes and raw bytes give the stream back.                          *)
LEMMA BitplaneRestored ==
    ASSUME NEW s \in Seq(Bytes)
    PROVE  RestoreBitplane(Bitplane(s)) = s
<1> DEFINE r == Bitplane(s)
           S == WhereIn(s, Others)
           back == RestoreBitplane(r)
<1>1. r.codes = [i \in 1..Len(s) |-> IF s[i] \in Others THEN 2 ELSE s[i]] /\ r.raw = Selected(s, Others)
  BY DEF Bitplane
<1>2. Len(r.codes) = Len(s) /\ Len(s) \in Nat /\ \A i \in 1..Len(s) : r.codes[i] = IF s[i] \in Others THEN 2 ELSE s[i]
  BY <1>1
<1> HIDE DEF r
<1>3. back = [i \in 1..Len(s) |-> IF r.codes[i] = 2 THEN r.raw[Cardinality({j \in 1..i : r.codes[j] = 2})] ELSE r.codes[i]]
  BY <1>2 DEF RestoreBitplane
<1> HIDE DEF back
<1>4. ASSUME NEW i \in 1..Len(s) PROVE r.codes[i] = 2 <=> s[i] \in Others
  <2>1. s[i] \in Bytes
    OBVIOUS
  <2>2. s[i] \notin Others => s[i] # 2
    BY <2>1 DEF Others
  <2> QED
    BY <1>2, <2>2
<1>5. ASSUME NEW i \in 1..Len(s) PROVE back[i] = s[i]
  <2>1. CASE s[i] \in Others
    <3>1. i \in S
      BY <2>1 DEF WhereIn
    <3>2. {j \in 1..i : r.codes[j] = 2} = {j \in S : j <= i}
      <4>1. \A j \in 1..i : j \in 1..Len(s)
        BY <1>2
      <4>2. \A j : (j \in 1..i /\ r.codes[j] = 2) <=> (j \in S /\ j <= i)
        BY <1>2, <1>4, <4>1 DEF WhereIn
      <4> HIDE DEF S
      <4> QED
        BY <4>2
    <3>3. back[i] = r.raw[Place(S, i)]
      BY <1>3, <1>4, <2>1, <3>2 DEF Place
    <3>4. /\ Indices(s, Others) = Rising(S) /\ S \subseteq 1..Len(s)
          /\ \A k \in 1..Cardinality(S) : Selected(s, Others)[k] = s[Indices(s, Others)[k]]
      BY SelectedIs
    <3> HIDE DEF S
    <3>5. Place(S, i) \in 1..Cardinality(S) /\ Rising(S)[Place(S, i)] = i
      <4>1. Len(s) \in Nat /\ S \subseteq 1..Len(s)
        BY <1>2, <3>4
      <4> QED
        BY <3>1, <4>1, RisingIs
    <3> QED
      BY <1>1, <3>3, <3>4, <3>5
  <2>2. CASE s[i] \notin Others
    BY <1>2, <1>3, <1>4, <2>2
  <2> QED
    BY <2>1, <2>2
<1>6. back = [i \in 1..Len(s) |-> back[i]]
  BY <1>3
<1>7. \A i \in 1..Len(s) : back[i] \in Bytes
  BY <1>5
<1>8. back \in Seq(Bytes) /\ Len(back) = Len(s)
  BY <1>2, <1>6, <1>7, SeqIs
<1>9. back = s
  BY <1>5, <1>8, SameSeq
<1> QED
  BY <1>9 DEF back, r

(* ... and are as many as its decoder wants                                *)
(* (restoreCodeDeltaAddStreamBitplaneZeroOne).                             *)
LEMMA BitplaneFitsIt ==
    ASSUME NEW s \in Seq(Bytes)
    PROVE  BitplaneFits(Bitplane(s))
<1> DEFINE r == Bitplane(s)
           S == WhereIn(s, Others)
<1>1. r.codes = [i \in 1..Len(s) |-> IF s[i] \in Others THEN 2 ELSE s[i]] /\ r.raw = Selected(s, Others)
  BY DEF Bitplane
<1>2. Len(r.codes) = Len(s) /\ Len(s) \in Nat /\ \A i \in 1..Len(s) : r.codes[i] = IF s[i] \in Others THEN 2 ELSE s[i]
  BY <1>1
<1> HIDE DEF r
<1>3. ASSUME NEW i \in 1..Len(s) PROVE r.codes[i] \in {0, 1, 2} /\ (r.codes[i] = 2 <=> s[i] \in Others)
  <2>1. s[i] \in Bytes
    OBVIOUS
  <2>2. s[i] \notin Others => s[i] = 0 \/ s[i] = 1
    BY <2>1 DEF Others
  <2> QED
    BY <1>2, <2>2
<1>4. {j \in 1..Len(s) : r.codes[j] = 2} = S
  BY <1>3 DEF WhereIn
<1>5. Len(Selected(s, Others)) = Cardinality(S)
  BY SelectedIs
<1> QED
  BY <1>1, <1>2, <1>3, <1>4, <1>5 DEF BitplaneFits, r

(* Sums of the gaps between places are the places.                         *)
LEMMA PlacesOfGaps ==
    ASSUME NEW p \in Seq(Nat)
    PROVE  Places(Gaps(p)) = p
<1> DEFINE n == Len(p)
           g == Gaps(p)
           E(f) == f = [k \in 0..Len(g) |-> IF k = 0 THEN 0 ELSE f[k - 1] + g[k]]
           w == [k \in 0..n |-> IF k = 0 THEN 0 ELSE p[k]]
           at == CHOOSE f : E(f)
<1>1. n \in Nat /\ Len(g) = n /\ \A k \in 1..n : g[k] = p[k] - Before(p, k)
  BY DEF Gaps
<1>2. ASSUME NEW k \in 1..n PROVE w[k] = p[k] /\ w[k] = w[k - 1] + g[k]
  <2>1. p[k] \in Nat /\ w[k] = p[k] /\ k \in 0..n /\ k - 1 \in 0..n
    OBVIOUS
  <2>2. w[k - 1] = Before(p, k) /\ w[k - 1] \in Nat
    <3>1. CASE k = 1
      BY <3>1 DEF Before
    <3>2. CASE k # 1
      <4>1. k - 1 \in 1..n /\ k - 1 # 0
        BY <1>1, <3>2
      <4> QED
        BY <3>2, <4>1 DEF Before
    <3> QED
      BY <3>1, <3>2
  <2> HIDE DEF w, g
  <2> QED
    BY <1>1, <2>1, <2>2
<1>3. E(w)
  <2>1. w = [k \in 0..Len(g) |-> w[k]]
    BY <1>1
  <2>2. \A k \in 0..Len(g) : w[k] = IF k = 0 THEN 0 ELSE w[k - 1] + g[k]
    <3>1. w[0] = 0
      BY <1>1
    <3>2. \A k \in 0..n : k = 0 \/ (k # 0 /\ k \in 1..n)
      BY <1>1
    <3> HIDE DEF w
    <3> QED
      BY <1>1, <1>2, <3>1, <3>2
  <2> HIDE DEF w
  <2> QED
    BY <2>1, <2>2, Zenon
<1>4. E(at)
  <2> HIDE DEF E
  <2> QED
    BY <1>3
<1>5. Places(g) = [k \in 1..Len(g) |-> at[k]]
  BY DEF Places
<1> DEFINE T == {k \in Nat : k <= n => at[k] = w[k]}
<1>6. Nat \subseteq T
  <2>1. \A k \in 0..n : at[k] = IF k = 0 THEN 0 ELSE at[k - 1] + g[k]
    <3> HIDE DEF at
    <3> QED
      BY <1>1, <1>4, Zenon
  <2>2. w[0] = 0
    BY <1>1
  <2> HIDE DEF at, w
  <2>3. 0 \in T
    BY <1>1, <2>1, <2>2
  <2>4. ASSUME NEW k \in Nat, k \in T PROVE k + 1 \in T
    <3>1. SUFFICES ASSUME k + 1 <= n PROVE at[k + 1] = w[k + 1]
      OBVIOUS
    <3>2. k + 1 \in 1..n /\ k + 1 \in 0..n /\ (k + 1) - 1 = k /\ k + 1 # 0 /\ k <= n
      BY <1>1, <3>1
    <3>3. at[k] = w[k]
      BY <2>4, <3>2
    <3>4. at[k + 1] = at[k] + g[k + 1]
      BY <2>1, <3>2
    <3>5. w[k + 1] = w[k] + g[k + 1]
      BY <1>2, <3>2
    <3> QED
      BY <3>3, <3>4, <3>5
  <2> HIDE DEF T
  <2> QED
    BY <2>3, <2>4, Inductive
<1>7. \A k \in 1..n : at[k] = p[k]
  <2> HIDE DEF at, w
  <2>1. \A k \in 1..n : k \in Nat /\ k <= n
    BY <1>1
  <2> QED
    BY <1>2, <1>6, <2>1
<1>8. Places(g) = [k \in 1..n |-> p[k]]
  <2> HIDE DEF at
  <2> QED
    BY <1>1, <1>5, <1>7
<1>9. p = [k \in 1..n |-> p[k]]
  OBVIOUS
<1> QED
  BY <1>8, <1>9

(* The places of the bytes in T, each once, and their values.              *)
LEMMA IndicesAre ==
    ASSUME NEW s \in Seq(Bytes), NEW T
    PROVE  LET p == Indices(s, T) IN
           /\ p \in Seq(Nat) /\ Range(p) = WhereIn(s, T) /\ Len(Selected(s, T)) = Len(p)
           /\ \A k \in DOMAIN p : p[k] \in 1..Len(s) /\ Selected(s, T)[k] = s[p[k]]
           /\ \A j, k \in DOMAIN p : p[j] = p[k] => j = k
<1> DEFINE S == WhereIn(s, T)
           p == Indices(s, T)
<1>1. /\ p = Rising(S) /\ S \subseteq 1..Len(s) /\ Len(Selected(s, T)) = Cardinality(S) /\ Len(p) = Cardinality(S)
      /\ \A k \in 1..Cardinality(S) : Selected(s, T)[k] = s[p[k]]
  BY SelectedIs
<1>2. Len(s) \in Nat
  OBVIOUS
<1> HIDE DEF S, p
<1>3. /\ Rising(S) \in Seq(S) /\ Len(Rising(S)) = Cardinality(S) /\ Cardinality(S) \in Nat
      /\ \A k \in 1..Cardinality(S) : Rising(S)[k] \in S /\ Place(S, Rising(S)[k]) = k
      /\ \A i \in S : Place(S, i) \in 1..Cardinality(S) /\ Rising(S)[Place(S, i)] = i
  <2>1. Len(s) \in Nat /\ S \subseteq 1..Len(s)
    BY <1>1, <1>2
  <2> QED
    BY <2>1, RisingIs
<1>4. DOMAIN p = 1..Cardinality(S)
  BY <1>1, <1>3
<1>5. p \in Seq(Nat)
  <2>1. \A i \in 1..Len(s) : i \in Nat
    BY <1>2
  <2>2. S \subseteq Nat
    BY <1>1, <2>1
  <2>3. p \in Seq(S)
    BY <1>1, <1>3, Zenon
  <2>4. p = [k \in 1..Len(p) |-> p[k]] /\ Len(p) \in Nat /\ \A k \in 1..Len(p) : p[k] \in S
    BY <2>3
  <2>5. \A k \in 1..Len(p) : p[k] \in Nat
    BY <2>2, <2>4
  <2> QED
    BY <2>4, <2>5, SeqIs
<1>6. Range(p) = S
  <2>1. \A k \in DOMAIN p : p[k] \in S
    BY <1>1, <1>3, <1>4
  <2>2. \A i \in S : \E k \in DOMAIN p : p[k] = i
    BY <1>1, <1>3, <1>4
  <2> QED
    BY <2>1, <2>2 DEF Range
<1>7. \A k \in DOMAIN p : p[k] \in 1..Len(s) /\ Selected(s, T)[k] = s[p[k]]
  BY <1>1, <1>3, <1>4
<1>8. Len(Selected(s, T)) = Len(p)
  BY <1>1
<1>9. \A j, k \in DOMAIN p : p[j] = p[k] => j = k
  BY <1>1, <1>3, <1>4
<1> QED
  BY <1>5, <1>6, <1>7, <1>8, <1>9 DEF S, p

(* V14: a length, the gaps of the ones and of the others, and the values of*)
(* the others give the stream back (decodeCodeDeltaOneOtherAddStream).     *)
LEMMA OneOtherRestored ==
    ASSUME NEW s \in Seq(Bytes)
    PROVE  RestoreOneOther(OneOther(s)) = s
<1> DEFINE r == OneOther(s)
           ones == Indices(s, {1})
           others == Indices(s, Others)
           back == RestoreOneOther(r)
<1>1. r.length = Len(s) /\ r.ones = Gaps(ones) /\ r.others = Gaps(others) /\ r.values = Selected(s, Others)
  BY DEF OneOther
<1>3. ones \in Seq(Nat) /\ Range(ones) = WhereIn(s, {1})
  BY IndicesAre
<1>4. others \in Seq(Nat) /\ Range(others) = WhereIn(s, Others)
  BY IndicesAre
<1>5. \A k \in DOMAIN others : Selected(s, Others)[k] = s[others[k]]
  BY IndicesAre
<1> HIDE DEF r, ones, others
<1>6. Places(r.ones) = ones /\ Places(r.others) = others
  BY <1>1, <1>3, <1>4, PlacesOfGaps
<1>7. back = [i \in 1..Len(s) |->
               IF i \in Range(others) THEN r.values[CHOOSE k \in DOMAIN others : others[k] = i]
               ELSE IF i \in Range(ones) THEN 1 ELSE 0]
  BY <1>1, <1>6 DEF RestoreOneOther
<1> HIDE DEF back
<1>8. ASSUME NEW i \in 1..Len(s) PROVE back[i] = s[i]
  <2>1. (i \in Range(others) <=> s[i] \in Others) /\ (i \in Range(ones) <=> s[i] = 1)
    BY <1>3, <1>4 DEF WhereIn
  <2>2. CASE s[i] \in Others
    <3> DEFINE k == CHOOSE x \in DOMAIN others : others[x] = i
    <3>1. \E x \in DOMAIN others : others[x] = i
      BY <2>1, <2>2 DEF Range
    <3>2. k \in DOMAIN others /\ others[k] = i
      BY <3>1
    <3>3. back[i] = r.values[k]
      BY <1>7, <2>1, <2>2
    <3> HIDE DEF k
    <3> QED
      BY <1>1, <1>5, <3>2, <3>3
  <2>3. CASE s[i] \notin Others
    <3>1. s[i] \in Bytes
      OBVIOUS
    <3>2. s[i] = 1 \/ s[i] = 0
      BY <2>3, <3>1 DEF Others
    <3> QED
      BY <1>7, <2>1, <2>3, <3>2
  <2> QED
    BY <2>2, <2>3
<1>9. back = [i \in 1..Len(s) |-> back[i]] /\ Len(s) \in Nat
  BY <1>7
<1>10. \A i \in 1..Len(s) : back[i] \in Bytes
  BY <1>8
<1>11. back \in Seq(Bytes) /\ Len(back) = Len(s)
  BY <1>9, <1>10, SeqIs
<1>12. back = s
  BY <1>8, <1>11, SameSeq
<1> QED
  BY <1>12 DEF back, r

(* ... and no place is outside of the stream or taken twice.               *)
LEMMA OneOtherFitsIt ==
    ASSUME NEW s \in Seq(Bytes)
    PROVE  OneOtherFits(OneOther(s))
<1> DEFINE r == OneOther(s)
           ones == Indices(s, {1})
           others == Indices(s, Others)
<1>1. r.length = Len(s) /\ r.ones = Gaps(ones) /\ r.others = Gaps(others) /\ r.values = Selected(s, Others)
  BY DEF OneOther
<1>2. ones \in Seq(Nat) /\ Range(ones) = WhereIn(s, {1})
  BY IndicesAre
<1>3. /\ others \in Seq(Nat) /\ Range(others) = WhereIn(s, Others) /\ Len(Selected(s, Others)) = Len(others)
      /\ \A j, k \in DOMAIN others : others[j] = others[k] => j = k
  BY IndicesAre
<1> HIDE DEF r, ones, others
<1>4. Places(r.ones) = ones /\ Places(r.others) = others
  BY <1>1, <1>2, <1>3, PlacesOfGaps
<1>5. /\ WhereIn(s, {1}) \subseteq 1..Len(s) /\ WhereIn(s, Others) \subseteq 1..Len(s)
      /\ WhereIn(s, {1}) \cap WhereIn(s, Others) = {}
  BY DEF WhereIn, Others
<1>6. OneOtherFits(r)
  BY <1>1, <1>2, <1>3, <1>4, <1>5 DEF OneOtherFits
<1> QED
  BY <1>6 DEF r

(* V12: a running sum undoes differences of neighbours.                    *)
LEMMA DeltaRestored ==
    ASSUME NEW s \in Seq(Bytes)
    PROVE  RestoreDelta(Transform(s, "delta")) = s
<1> DEFINE n == Len(s)
           d == Transform(s, "delta")
           E(f) == f = [k \in 0..Len(d) |-> IF k = 0 THEN 0 ELSE (f[k - 1] + d[k]) % ByteValues]
           w == [k \in 0..n |-> IF k = 0 THEN 0 ELSE s[k]]
           byte == CHOOSE f : E(f)
<1>1. n \in Nat /\ Len(d) = n /\ \A k \in 1..n : d[k] = (s[k] - Before(s, k) + ByteValues) % ByteValues
  BY DEF Transform
<1>2. ASSUME NEW k \in 1..n PROVE w[k] = s[k] /\ w[k] = (w[k - 1] + d[k]) % ByteValues
  <2>1. s[k] \in Bytes /\ w[k] = s[k]
    OBVIOUS
  <2>2. w[k - 1] = Before(s, k) /\ w[k - 1] \in Bytes
    <3>1. CASE k = 1
      BY <3>1, BytesNat DEF Before
    <3>2. CASE k # 1
      <4>1. k - 1 \in 1..n /\ k - 1 # 0
        BY <1>1, <3>2
      <4> QED
        BY <3>2, <4>1 DEF Before
    <3> QED
      BY <3>1, <3>2
  <2> HIDE DEF w, d
  <2>3. PICK z \in Bytes : /\ z = (s[k] - Before(s, k) + ByteValues) % ByteValues
                           /\ (Before(s, k) + z) % ByteValues = s[k]
    BY <2>1, <2>2, Difference
  <2>4. d[k] = z
    BY <1>1, <2>3
  <2> QED
    BY <2>1, <2>2, <2>3, <2>4
<1>3. E(w)
  <2>1. w = [k \in 0..Len(d) |-> w[k]]
    BY <1>1
  <2>2. \A k \in 0..Len(d) : w[k] = IF k = 0 THEN 0 ELSE (w[k - 1] + d[k]) % ByteValues
    <3>1. w[0] = 0
      BY <1>1
    <3>2. \A k \in 0..n : k = 0 \/ (k # 0 /\ k \in 1..n)
      BY <1>1
    <3>3. Len(d) = n
      BY <1>1
    <3> HIDE DEF w, d
    <3> QED
      BY <1>2, <3>1, <3>2, <3>3, Zenon
  <2> HIDE DEF w, d
  <2> QED
    BY <2>1, <2>2, Zenon
<1>4. E(byte)
  <2> HIDE DEF E
  <2> QED
    BY <1>3
<1>5. RestoreDelta(d) = [k \in 1..Len(d) |-> byte[k]]
  BY DEF RestoreDelta
<1>a. Len(d) = n
  BY <1>1
<1> HIDE DEF d
<1> DEFINE T == {k \in Nat : k <= n => byte[k] = w[k]}
<1>6. Nat \subseteq T
  <2>1. \A k \in 0..n : byte[k] = IF k = 0 THEN 0 ELSE (byte[k - 1] + d[k]) % ByteValues
    <3> HIDE DEF byte
    <3> QED
      BY <1>a, <1>4, Zenon
  <2>2. w[0] = 0
    BY <1>1
  <2> HIDE DEF byte, w
  <2>3. 0 \in T
    <3>1. 0 \in 0..n
      BY <1>1
    <3> QED
      BY <2>1, <2>2, <3>1
  <2>4. ASSUME NEW k \in Nat, k \in T PROVE k + 1 \in T
    <3>1. SUFFICES ASSUME k + 1 <= n PROVE byte[k + 1] = w[k + 1]
      OBVIOUS
    <3>2. n \in Nat
      BY <1>1
    <3>3. k + 1 \in 1..n /\ k + 1 \in 0..n /\ (k + 1) - 1 = k /\ k + 1 # 0 /\ k <= n
      BY <3>1, <3>2
    <3>4. byte[k] = w[k]
      BY <2>4, <3>3
    <3>5. byte[k + 1] = (byte[(k + 1) - 1] + d[k + 1]) % ByteValues
      BY <2>1, <3>3, Zenon
    <3>6. w[k + 1] = (w[(k + 1) - 1] + d[k + 1]) % ByteValues
      BY <1>2, <3>3, Zenon
    <3> QED
      BY <3>3, <3>4, <3>5, <3>6, Zenon
  <2> HIDE DEF T
  <2> QED
    BY <2>3, <2>4, Inductive
<1>7. \A k \in 1..n : byte[k] = s[k]
  <2> HIDE DEF byte, w
  <2>1. \A k \in 1..n : k \in Nat /\ k <= n
    BY <1>1
  <2>2. \A k \in 1..n : byte[k] = w[k]
    BY <1>6, <2>1
  <2> QED
    BY <1>2, <2>2
<1>8. RestoreDelta(d) = [k \in 1..n |-> s[k]]
  <2> HIDE DEF byte
  <2> QED
    BY <1>a, <1>5, <1>7
<1>9. s = [k \in 1..n |-> s[k]]
  OBVIOUS
<1> QED
  BY <1>8, <1>9 DEF d

LEMMA XorUndone ==
    ASSUME NEW x \in Bytes, NEW y \in Bytes
    PROVE  ByteXor(ByteXor(x, y), y) = x
BY DeltaAssumption DEF Bytes

(* V12: a running exclusive or undoes the exclusive or of neighbours.      *)
LEMMA XorRestored ==
    ASSUME NEW s \in Seq(Bytes)
    PROVE  RestoreXor(Transform(s, "xor")) = s
<1> DEFINE n == Len(s)
           d == Transform(s, "xor")
           E(f) == f = [k \in 0..Len(d) |-> IF k = 0 THEN 0 ELSE ByteXor(d[k], f[k - 1])]
           w == [k \in 0..n |-> IF k = 0 THEN 0 ELSE s[k]]
           byte == CHOOSE f : E(f)
<1>1. n \in Nat /\ Len(d) = n /\ \A k \in 1..n : d[k] = ByteXor(s[k], Before(s, k))
  BY DEF Transform
<1>2. ASSUME NEW k \in 1..n PROVE w[k] = s[k] /\ w[k] = ByteXor(d[k], w[k - 1])
  <2>1. s[k] \in Bytes /\ w[k] = s[k]
    OBVIOUS
  <2>2. w[k - 1] = Before(s, k) /\ w[k - 1] \in Bytes
    <3>1. CASE k = 1
      BY <3>1, BytesNat DEF Before
    <3>2. CASE k # 1
      <4>1. k - 1 \in 1..n /\ k - 1 # 0
        BY <1>1, <3>2
      <4> QED
        BY <3>2, <4>1 DEF Before
    <3> QED
      BY <3>1, <3>2
  <2> HIDE DEF w, d
  <2>3. ByteXor(ByteXor(s[k], Before(s, k)), Before(s, k)) = s[k]
    BY <2>1, <2>2, XorUndone
  <2> QED
    BY <1>1, <2>1, <2>2, <2>3
<1>3. E(w)
  <2>1. w = [k \in 0..Len(d) |-> w[k]]
    BY <1>1
  <2>2. \A k \in 0..Len(d) : w[k] = IF k = 0 THEN 0 ELSE ByteXor(d[k], w[k - 1])
    <3>1. w[0] = 0
      BY <1>1
    <3>2. \A k \in 0..n : k = 0 \/ (k # 0 /\ k \in 1..n)
      BY <1>1
    <3>3. Len(d) = n
      BY <1>1
    <3> HIDE DEF w, d
    <3> QED
      BY <1>2, <3>1, <3>2, <3>3, Zenon
  <2> HIDE DEF w, d
  <2> QED
    BY <2>1, <2>2, Zenon
<1>4. E(byte)
  <2> HIDE DEF E
  <2> QED
    BY <1>3
<1>5. RestoreXor(d) = [k \in 1..Len(d) |-> byte[k]]
  BY DEF RestoreXor
<1>a. Len(d) = n
  BY <1>1
<1> HIDE DEF d
<1> DEFINE T == {k \in Nat : k <= n => byte[k] = w[k]}
<1>6. Nat \subseteq T
  <2>1. \A k \in 0..n : byte[k] = IF k = 0 THEN 0 ELSE ByteXor(d[k], byte[k - 1])
    <3> HIDE DEF byte
    <3> QED
      BY <1>a, <1>4, Zenon
  <2>2. w[0] = 0
    BY <1>1
  <2> HIDE DEF byte, w
  <2>3. 0 \in T
    <3>1. 0 \in 0..n
      BY <1>1
    <3> QED
      BY <2>1, <2>2, <3>1
  <2>4. ASSUME NEW k \in Nat, k \in T PROVE k + 1 \in T
    <3>1. SUFFICES ASSUME k + 1 <= n PROVE byte[k + 1] = w[k + 1]
      OBVIOUS
    <3>2. n \in Nat
      BY <1>1
    <3>3. k + 1 \in 1..n /\ k + 1 \in 0..n /\ (k + 1) - 1 = k /\ k + 1 # 0 /\ k <= n
      BY <3>1, <3>2
    <3>4. byte[k] = w[k]
      BY <2>4, <3>3
    <3>5. byte[k + 1] = ByteXor(d[k + 1], byte[(k + 1) - 1])
      BY <2>1, <3>3, Zenon
    <3>6. w[k + 1] = ByteXor(d[k + 1], w[(k + 1) - 1])
      BY <1>2, <3>3, Zenon
    <3> QED
      BY <3>3, <3>4, <3>5, <3>6, Zenon
  <2> HIDE DEF T
  <2> QED
    BY <2>3, <2>4, Inductive
<1>7. \A k \in 1..n : byte[k] = s[k]
  <2> HIDE DEF byte, w
  <2>1. \A k \in 1..n : k \in Nat /\ k <= n
    BY <1>1
  <2>2. \A k \in 1..n : byte[k] = w[k]
    BY <1>6, <2>1
  <2> QED
    BY <1>2, <2>2
<1>8. RestoreXor(d) = [k \in 1..n |-> s[k]]
  <2> HIDE DEF byte
  <2> QED
    BY <1>a, <1>5, <1>7
<1>9. s = [k \in 1..n |-> s[k]]
  OBVIOUS
<1> QED
  BY <1>8, <1>9 DEF d

(* Every transform of an add stream is undone by its restoration.          *)
LEMMA Restored ==
    ASSUME NEW s \in Seq(Bytes), NEW t \in {"raw", "delta", "xor", "bitplane"}
    PROVE  Restore(Transform(s, t), t) = s
<1>1. CASE t = "raw"
  BY <1>1 DEF Restore, Transform
<1>2. CASE t = "delta"
  BY <1>2, DeltaRestored DEF Restore
<1>3. CASE t = "xor"
  BY <1>3, XorRestored DEF Restore
<1>4. CASE t = "bitplane"
  <2>1. Transform(s, t) = Bitplane(s) /\ Restore(Bitplane(s), t) = RestoreBitplane(Bitplane(s))
    BY <1>4 DEF Transform, Restore
  <2> QED
    BY <2>1, BitplaneRestored
<1> QED
  BY <1>1, <1>2, <1>3, <1>4

-----------------------------------------------------------------------------
(* What an op leaves in a stream, and what a stream holds of a list of ops. *)

Items == Kinds \cup Nat
Streams == {"control", "inserts", "adds"}

Part(v, stream, op) ==
  CASE stream = "control" -> IF v <= 6 THEN Header(op) \o op.lit ELSE Header(op)
    [] stream = "inserts" -> IF v > 6 /\ op.kind = "insert" THEN op.lit ELSE <<>>
    [] stream = "adds" -> IF v > 6 /\ op.kind \in {"add", "sparse"} THEN op.lit ELSE <<>>

(* what is left of the stream after each of the ops                        *)
Holds(v, stream, s, ops) ==
  \E left \in [0..Len(ops) -> Seq(Items)] :
    /\ left[0] = s /\ left[Len(ops)] = <<>>
    /\ \A i \in 1..Len(ops) : left[i - 1] = Part(v, stream, ops[i]) \o left[i]

(* A header has the kind, the offset and the length, and a sparse op the   *)
(* length of its payload.                                                  *)
LEMMA HeaderIs ==
    ASSUME NEW op \in Ops
    PROVE  /\ Header(op) \in Seq(Items)
           /\ Len(Header(op)) = IF op.kind = "sparse" THEN 4 ELSE 3
           /\ Header(op)[1] = op.kind /\ Header(op)[2] = op.off /\ Header(op)[3] = op.len
           /\ op.kind = "sparse" => Header(op)[4] = Len(op.lit)
<1>1. op.kind \in Items /\ op.off \in Items /\ op.len \in Items /\ Len(op.lit) \in Items
  BY DEF Ops, Items
<1>2. CASE op.kind = "sparse"
  <2>1. Header(op) = <<op.kind, op.off, op.len>> \o <<Len(op.lit)>>
    BY <1>2 DEF Header
  <2>2. PICK s, t : s = <<op.kind, op.off, op.len>> /\ t = <<Len(op.lit)>>
    OBVIOUS
  <2>3. /\ s \in Seq(Items) /\ Len(s) = 3 /\ s[1] = op.kind /\ s[2] = op.off /\ s[3] = op.len
        /\ t \in Seq(Items) /\ Len(t) = 1 /\ t[1] = Len(op.lit)
    BY <1>1, <2>2
  <2>4. Header(op) = s \o t
    BY <2>1, <2>2
  <2>5. /\ s \o t \in Seq(Items) /\ Len(s \o t) = 4
        /\ (s \o t)[1] = s[1] /\ (s \o t)[2] = s[2] /\ (s \o t)[3] = s[3] /\ (s \o t)[4] = t[1]
    <3>1. PICK u : u = s \o t
      OBVIOUS
    <3>2. s \in Seq(Items) /\ t \in Seq(Items)
      BY <2>3
    <3>3. /\ u \in Seq(Items) /\ Len(u) = Len(s) + Len(t)
          /\ \A i \in 1..Len(s) : u[i] = s[i]
          /\ \A i \in 1..Len(t) : u[Len(s) + i] = t[i]
      BY <3>1, <3>2, CatIs
    <3>4. 1 \in 1..Len(s) /\ 2 \in 1..Len(s) /\ 3 \in 1..Len(s) /\ 1 \in 1..Len(t) /\ Len(s) + 1 = 4
      BY <2>3
    <3>5. u[1] = s[1] /\ u[2] = s[2] /\ u[3] = s[3] /\ u[4] = t[1]
      BY <3>3, <3>4
    <3>6. Len(u) = 4
      BY <2>3, <3>3
    <3> QED
      BY <3>1, <3>3, <3>5, <3>6
  <2> QED
    BY <1>2, <2>3, <2>4, <2>5
<1>3. CASE op.kind # "sparse"
  <2>1. Header(op) = <<op.kind, op.off, op.len>> \o <<>>
    BY <1>3 DEF Header
  <2>2. Header(op) = <<op.kind, op.off, op.len>>
    BY <1>1, <2>1
  <2> QED
    BY <1>1, <1>3, <2>2
<1> QED
  BY <1>2, <1>3

LEMMA PartIs ==
    ASSUME NEW v \in Nat, NEW stream \in Streams, NEW op \in Ops
    PROVE  /\ Part(v, stream, op) \in Seq(Items) /\ Len(Part(v, stream, op)) \in Nat
           /\ stream # "control" => Part(v, stream, op) \in Seq(Bytes)
<1>1. op.lit \in Seq(Bytes) /\ Header(op) \in Seq(Items) /\ op.lit \in Seq(Items)
  <2>1. op.lit \in Seq(Bytes)
    BY DEF Ops
  <2>2. Bytes \subseteq Items
    BY BytesNat DEF Items
  <2> QED
    BY <2>1, <2>2, HeaderIs
<1>2. <<>> \in Seq(Bytes) /\ <<>> \in Seq(Items) /\ Header(op) \o op.lit \in Seq(Items)
  BY <1>1
<1>3. CASE stream = "control"
  BY <1>1, <1>2, <1>3 DEF Part
<1>4. CASE stream = "inserts"
  BY <1>1, <1>2, <1>4 DEF Part
<1>5. CASE stream = "adds"
  BY <1>1, <1>2, <1>5 DEF Part
<1> QED
  BY <1>3, <1>4, <1>5 DEF Streams

LEMMA CatAssoc ==
    ASSUME NEW S, NEW s \in Seq(S), NEW t \in Seq(S), NEW u \in Seq(S)
    PROVE  (s \o t) \o u = s \o (t \o u)
<1> DEFINE tu == t \o u
           all == s \o tu
<1>1. /\ tu \in Seq(S) /\ Len(tu) = Len(t) + Len(u)
      /\ \A i \in 1..Len(t) : tu[i] = t[i]
      /\ \A i \in 1..Len(u) : tu[Len(t) + i] = u[i]
  BY CatIs
<1> HIDE DEF tu
<1>2. /\ all \in Seq(S) /\ Len(all) = Len(s) + Len(tu)
      /\ \A i \in 1..Len(s) : all[i] = s[i]
      /\ \A i \in 1..Len(tu) : all[Len(s) + i] = tu[i]
  <2>1. tu \in Seq(S)
    BY <1>1
  <2> QED
    BY <2>1, CatIs
<1> HIDE DEF all
<1> DEFINE st == s \o t
<1>3. /\ st \in Seq(S) /\ Len(st) = Len(s) + Len(t)
      /\ \A i \in 1..Len(s) : st[i] = s[i]
      /\ \A i \in 1..Len(t) : st[Len(s) + i] = t[i]
  BY CatIs
<1> HIDE DEF st
<1>4. Len(s) \in Nat /\ Len(t) \in Nat /\ Len(u) \in Nat
  OBVIOUS
<1>5. ASSUME NEW i \in 1..Len(st) PROVE all[i] = st[i]
  <2>1. CASE i <= Len(s)
    <3>1. i \in 1..Len(s)
      BY <1>4, <2>1
    <3> QED
      BY <1>2, <1>3, <3>1
  <2>2. CASE i > Len(s)
    <3>1. PICK j : j = i - Len(s)
      OBVIOUS
    <3>2. j \in 1..Len(t) /\ j \in 1..Len(tu) /\ i = Len(s) + j
      BY <1>1, <1>3, <1>4, <2>2, <3>1
    <3>3. all[Len(s) + j] = tu[j] /\ tu[j] = t[j] /\ st[Len(s) + j] = t[j]
      BY <1>1, <1>2, <1>3, <3>2
    <3> QED
      BY <3>2, <3>3
  <2> QED
    BY <1>3, <1>4, <2>1, <2>2
<1>6. ASSUME NEW i \in 1..Len(u) PROVE all[Len(st) + i] = u[i]
  <2>1. PICK j : j = Len(t) + i
    OBVIOUS
  <2>2. j \in 1..Len(tu) /\ Len(st) + i = Len(s) + j
    BY <1>1, <1>3, <1>4, <2>1
  <2> QED
    BY <1>1, <1>2, <2>1, <2>2
<1>7. Len(all) = Len(st) + Len(u)
  BY <1>1, <1>2, <1>3, <1>4
<1>8. st \o u = all
  BY <1>2, <1>3, <1>5, <1>6, <1>7, CatEq
<1> QED
  BY <1>8 DEF st, all, tu

LEMMA HoldsNone ==
    ASSUME NEW v, NEW stream
    PROVE  Holds(v, stream, <<>>, <<>>)
<1> DEFINE left == [i \in 0..0 |-> <<>>]
<1>1. left \in [0..0 -> Seq(Items)] /\ left[0] = <<>> /\ Len(<<>>) = 0
  OBVIOUS
<1> HIDE DEF left
<1>2. \A i \in 1..0 : FALSE
  OBVIOUS
<1> QED
  BY <1>1, <1>2 DEF Holds

LEMMA HoldsNothing ==
    ASSUME NEW v, NEW stream, NEW s, Holds(v, stream, s, <<>>)
    PROVE  s = <<>>
<1>1. Len(<<>>) = 0
  OBVIOUS
<1> QED
  BY <1>1 DEF Holds

(* A stream that the parts of ops fill holds one op more when its part is  *)
(* appended.                                                               *)
LEMMA HoldsMore ==
    ASSUME NEW v \in Nat, NEW stream \in Streams, NEW s, NEW ops \in Seq(Ops), NEW op \in Ops,
           Holds(v, stream, s, ops)
    PROVE  Holds(v, stream, s \o Part(v, stream, op), Append(ops, op))
<1> DEFINE n == Len(ops)
           part == Part(v, stream, op)
           more == Append(ops, op)
<1>1. PICK left \in [0..n -> Seq(Items)] :
        /\ left[0] = s /\ left[n] = <<>>
        /\ \A i \in 1..n : left[i - 1] = Part(v, stream, ops[i]) \o left[i]
  BY DEF Holds
<1>2. part \in Seq(Items) /\ n \in Nat
  BY PartIs
<1>3. Len(more) = n + 1 /\ more[n + 1] = op /\ \A i \in 1..n : more[i] = ops[i]
  OBVIOUS
<1>4. Part(v, stream, op) = part
  OBVIOUS
<1> HIDE DEF part, more
<1> DEFINE new == [i \in 0..(n + 1) |-> IF i <= n THEN left[i] \o part ELSE <<>>]
<1>5. ASSUME NEW i \in 0..n PROVE new[i] = left[i] \o part /\ new[i] \in Seq(Items)
  <2>1. i \in 0..(n + 1) /\ i <= n /\ left[i] \in Seq(Items)
    BY <1>1, <1>2
  <2>2. left[i] \o part \in Seq(Items)
    BY <1>2, <2>1
  <2> QED
    BY <2>1, <2>2
<1>6. new[n + 1] = <<>> /\ <<>> \in Seq(Items)
  BY <1>2
<1>7. new = [i \in 0..(n + 1) |-> new[i]]
  OBVIOUS
<1> HIDE DEF new
<1>8. new \in [0..(n + 1) -> Seq(Items)]
  <2>1. \A i \in 0..(n + 1) : i \in 0..n \/ i = n + 1
    BY <1>2
  <2>2. \A i \in 0..(n + 1) : new[i] \in Seq(Items)
    BY <1>5, <1>6, <2>1
  <2> QED
    BY <1>7, <2>2
<1>9. new[0] = s \o part /\ new[n] = part
  <2>1. 0 \in 0..n /\ n \in 0..n
    BY <1>2
  <2>2. <<>> \o part = part
    BY <1>2
  <2> QED
    BY <1>1, <1>5, <2>1, <2>2
<1>10. ASSUME NEW i \in 1..(n + 1) PROVE new[i - 1] = Part(v, stream, more[i]) \o new[i]
  <2>1. CASE i \in 1..n
    <3>1. i \in 0..n /\ i - 1 \in 0..n /\ ops[i] \in Ops
      BY <1>2, <2>1
    <3>2. left[i - 1] = Part(v, stream, ops[i]) \o left[i] /\ left[i] \in Seq(Items)
      BY <1>1, <2>1, <3>1
    <3>3. Part(v, stream, ops[i]) \in Seq(Items)
      BY <3>1, PartIs
    <3>4. (Part(v, stream, ops[i]) \o left[i]) \o part = Part(v, stream, ops[i]) \o (left[i] \o part)
      <4>1. PICK x, y, z : x = Part(v, stream, ops[i]) /\ y = left[i] /\ z = part
        OBVIOUS
      <4>2. x \in Seq(Items) /\ y \in Seq(Items) /\ z \in Seq(Items)
        BY <1>2, <3>2, <3>3, <4>1
      <4>3. (x \o y) \o z = x \o (y \o z)
        BY <4>2, CatAssoc, SMTT(30)
      <4> QED
        BY <4>1, <4>3
    <3>5. new[i - 1] = left[i - 1] \o part /\ new[i] = left[i] \o part
      BY <1>5, <3>1
    <3>6. more[i] = ops[i]
      BY <1>3, <2>1
    <3> QED
      BY <3>2, <3>4, <3>5, <3>6, Zenon
  <2>2. CASE i = n + 1
    <3>1. i - 1 = n
      BY <1>2, <2>2
    <3>2. part \o <<>> = part
      BY <1>2
    <3> QED
      BY <1>3, <1>4, <1>6, <1>9, <2>2, <3>1, <3>2
  <2>3. i \in 1..n \/ i = n + 1
    BY <1>2
  <2> QED
    BY <2>1, <2>2, <2>3
<1>11. Holds(v, stream, s \o part, more)
  BY <1>3, <1>6, <1>8, <1>9, <1>10 DEF Holds
<1> QED
  BY <1>11 DEF more, part

LEMMA FromCat ==
    ASSUME NEW S, NEW s \in Seq(S), NEW t \in Seq(S)
    PROVE  From(s \o t, Len(s)) = t
<1>1. PICK u : u = s \o t
  OBVIOUS
<1>2. /\ u \in Seq(S) /\ Len(u) = Len(s) + Len(t)
      /\ \A i \in 1..Len(t) : u[Len(s) + i] = t[i]
  BY <1>1, CatIs
<1>3. Len(s) \in Nat /\ Len(t) \in Nat /\ Len(s) <= Len(u) /\ Len(u) - Len(s) = Len(t)
  BY <1>2
<1>4. /\ From(u, Len(s)) \in Seq(S) /\ Len(From(u, Len(s))) = Len(u) - Len(s)
      /\ \A i \in 1..(Len(u) - Len(s)) : From(u, Len(s))[i] = u[Len(s) + i]
  BY <1>2, <1>3, FromIs
<1>5. \A i \in 1..Len(t) : From(u, Len(s))[i] = t[i]
  BY <1>2, <1>3, <1>4
<1>6. From(u, Len(s)) = t
  BY <1>3, <1>4, <1>5, SameSeq
<1> QED
  BY <1>1, <1>6

(* A stream that holds ops begins with the part of the first; the rest     *)
(* holds the others.                                                       *)
LEMMA HoldsFirst ==
    ASSUME NEW v \in Nat, NEW stream \in Streams, NEW s, NEW ops \in Seq(Ops), ops # <<>>,
           Holds(v, stream, s, ops)
    PROVE  \E t \in Seq(Items) : /\ s = Part(v, stream, Head(ops)) \o t
                                 /\ Holds(v, stream, t, Tail(ops))
<1> DEFINE n == Len(ops)
           less == Tail(ops)
<1>1. PICK left \in [0..n -> Seq(Items)] :
        /\ left[0] = s /\ left[n] = <<>>
        /\ \A i \in 1..n : left[i - 1] = Part(v, stream, ops[i]) \o left[i]
  BY DEF Holds
<1>2. n \in Nat \ {0} /\ Head(ops) = ops[1] /\ 1 \in 1..n /\ 1 \in 0..n
  OBVIOUS
<1>3. Len(less) = n - 1 /\ \A i \in 1..(n - 1) : less[i] = ops[i + 1]
  BY <1>2
<1> HIDE DEF less
<1>4. s = Part(v, stream, Head(ops)) \o left[1] /\ left[1] \in Seq(Items)
  <2>1. left[1 - 1] = Part(v, stream, ops[1]) \o left[1]
    BY <1>1, <1>2
  <2>2. 1 - 1 = 0
    OBVIOUS
  <2> QED
    BY <1>1, <1>2, <2>1, <2>2
<1> DEFINE new == [i \in 0..(n - 1) |-> left[i + 1]]
<1>5. new \in [0..(n - 1) -> Seq(Items)] /\ \A i \in 0..(n - 1) : new[i] = left[i + 1]
  <2>1. \A i \in 0..(n - 1) : i + 1 \in 0..n
    BY <1>2
  <2> QED
    BY <1>1, <2>1
<1> HIDE DEF new
<1>6. new[0] = left[1] /\ new[n - 1] = <<>>
  <2>1. 0 \in 0..(n - 1) /\ n - 1 \in 0..(n - 1) /\ 0 + 1 = 1 /\ (n - 1) + 1 = n
    BY <1>2
  <2>2. new[0] = left[0 + 1] /\ new[n - 1] = left[(n - 1) + 1]
    BY <1>5, <2>1
  <2> QED
    BY <1>1, <2>1, <2>2
<1>7. ASSUME NEW i \in 1..(n - 1) PROVE new[i - 1] = Part(v, stream, less[i]) \o new[i]
  <2>1. i + 1 \in 1..n /\ i \in 0..(n - 1) /\ i - 1 \in 0..(n - 1) /\ (i - 1) + 1 = (i + 1) - 1
    BY <1>2
  <2>2. left[(i + 1) - 1] = Part(v, stream, ops[i + 1]) \o left[i + 1]
    BY <1>1, <2>1
  <2>3. new[i - 1] = left[(i - 1) + 1] /\ new[i] = left[i + 1]
    BY <1>5, <2>1
  <2>4. less[i] = ops[i + 1]
    BY <1>3
  <2> QED
    BY <2>1, <2>2, <2>3, <2>4
<1>8. Holds(v, stream, left[1], less)
  BY <1>3, <1>5, <1>6, <1>7 DEF Holds
<1> QED
  BY <1>4, <1>8 DEF less

-----------------------------------------------------------------------------
(* The invariant. The ops of a strategy; those that are left after a       *)
(* coalescing are not empty.                                               *)
OpsOf(v) ==
  {op \in Ops : /\ op.kind \in {"insert", "add"} => Len(op.lit) = op.len
                /\ op.kind = "output" => v > 6}
Whole(v) == {op \in OpsOf(v) : op.len > 0}

(* bytes are those of the candidate from place at on                       *)
Spells(bytes, at) == at + Len(bytes) <= Len(cand) /\ \A i \in 1..Len(bytes) : bytes[i] = cand[at + i]

Reuses(p) == \E i \in 1..Len(p) : p[i] = "reuse"
(* passes that can be left: an output-copy pass comes last before the      *)
(* encoding                                                                *)
PassList(p, v) ==
  /\ p \in Seq({"add", "sparse", "reuse", "encode"}) /\ p # <<>>
  /\ p[Len(p)] = "encode"
  /\ \A i \in 1..Len(p) : p[i] = "reuse" => i = Len(p) - 1 /\ v >= 10

(* Types. What a sparse payload counts are offsets in a base.              *)
Wellformed ==
  /\ version \in Strategies /\ version \in Nat
  /\ base \in Bases /\ base \in Seq(Bytes) /\ cand \in Seq(Bytes)
  /\ pos \in Nat /\ basePos \in Int
  /\ pend \in Seq(Bytes) /\ mat \in Seq(Bytes) /\ built \in Seq(Bytes)
  /\ todo \in Seq(OpsOf(version)) /\ made \in Seq(OpsOf(version))

NoDelta == [magic |-> 0, control |-> <<>>, inserts |-> <<>>, adds |-> <<>>, transform |-> "raw", dictionary |-> <<>>]

(* Nothing is encoded yet, and nothing indexed for output copies.          *)
Early ==
  /\ PassList(passes, version) /\ (Reuses(passes) => mat = <<>>)
  /\ delta = NoDelta /\ summary = NoBytes /\ built = <<>>

(* The scan has ops for the candidate up to pos, but for the pending bytes.*)
Scanning ==
  /\ phase = "scan" /\ Early
  /\ todo = <<>> /\ pos <= Len(cand) /\ basePos \in 0..Len(base) /\ Len(pend) <= pos
  /\ version = 1 => pend = <<>>
  /\ Covers(base, cand, made, 0, pos - Len(pend)) /\ Spells(pend, pos - Len(pend))

(* What is made and what is still to do meet at k.                         *)
Rewritten(k) == Covers(base, cand, made, 0, k) /\ Covers(base, cand, todo, k, Len(cand))

Coalescing ==
  /\ phase = "coalesce" /\ Early
  /\ pos = 0 /\ pend = <<>> /\ made \in Seq(Whole(version))
  /\ \E k \in Nat : Rewritten(k)

Adding == phase = "add" /\ Early /\ pend = <<>> /\ \E k \in Nat : Rewritten(k)

(* A payload that is being written is one of the add at the head.          *)
Sparsing ==
  /\ phase = "sparse" /\ Early /\ \E k \in Nat : Rewritten(k)
  /\ pos = 0 => pend = <<>>
  /\ pos > 0 => todo # <<>> /\ CanBeSparse(Head(todo)) /\ Payload(Head(todo).lit, pend, pos)

(* The pending bytes are those of the literal before pos.                  *)
Cutting(op) ==
  /\ Len(pend) <= pos /\ pos <= op.len /\ (pos > 0 => CanBeCut(op))
  /\ \A i \in 1..Len(pend) : pend[i] = op.lit[pos - Len(pend) + i]
(* how far in the first op the buffer of output copies reaches             *)
Shift == IF todo # <<>> /\ Head(todo).kind = "insert" THEN pos ELSE 0

(* The buffer is the candidate up to the op at the head, or up to pos in an*)
(* insert; the ops made reach to the pending bytes.                        *)
Reusing ==
  /\ phase = "reuse" /\ Early /\ ~Reuses(passes) /\ version >= 10
  /\ IF todo = <<>> THEN pos = 0 /\ pend = <<>> ELSE Cutting(Head(todo))
  /\ \E k \in Nat : /\ Covers(base, cand, todo, k, Len(cand))
                    /\ Covers(base, cand, made, 0, k + pos - Len(pend))
                    /\ k + Shift <= Len(cand) /\ mat = Slice(cand, 0, k + Shift)

(* The bytes in the summary.                                               *)
Counted == summary.copy + summary.insert + summary.add + summary.sparse + summary.output
Books == summary \in [copy : Nat, insert : Nat, add : Nat, sparse : Nat, output : Nat]

(* Each stream holds the ops that were written, and the counts are as many *)
(* bytes as these cover.                                                   *)
Encoding ==
  /\ phase = "encode"
  /\ todo \in Seq(Whole(version)) /\ made \in Seq(Whole(version))
  /\ delta \in [magic : Nat, control : Seq(Items), inserts : Seq(Items), adds : Seq(Items), transform : {"raw"}, dictionary : {<<>>}]
  /\ delta.control # <<>> /\ Head(delta.control) = Len(made) + Len(todo)
  /\ Holds(version, "control", Tail(delta.control), made)
  /\ Holds(version, "inserts", delta.inserts, made)
  /\ Holds(version, "adds", delta.adds, made) /\ delta.adds \in Seq(Bytes)
  /\ version <= 6 => delta.adds = <<>> /\ delta.inserts = <<>>
  /\ built = <<>> /\ Books /\ \E k \in Nat : Rewritten(k) /\ Counted = k

(* The ops that were encoded cover the candidate.                          *)
Encoded ==
  /\ todo = <<>> /\ made \in Seq(Whole(version)) /\ delta.magic = version
  /\ Covers(base, cand, made, 0, Len(cand)) /\ Counted = Len(cand)

(* The add stream is a transform of one that holds the ops.                *)
Opening ==
  /\ phase = "open" /\ Encoded /\ built = <<>>
  /\ delta.control \in Seq(Items) /\ delta.control # <<>> /\ Head(delta.control) = Len(made)
  /\ delta.inserts \in Seq(Items)
  /\ Holds(version, "control", Tail(delta.control), made)
  /\ Holds(version, "inserts", delta.inserts, made)
  /\ version <= 6 => Holds(version, "adds", <<>>, made)
  /\ version > 6 => /\ delta.dictionary = Dictionary(version, delta.control)
                    /\ delta.transform \in Transforms(version)
                    /\ \E s \in Seq(Bytes) : /\ delta.adds = Transform(s, delta.transform)
                                             /\ Holds(version, "adds", s, made)

(* d are the ops that are still to be read: the readers hold these, and    *)
(* what is built is the candidate before them.                             *)
Reading(d) ==
  /\ rest.ops = Len(d)
  /\ Holds(version, "control", rest.control, d)
  /\ Holds(version, "inserts", rest.inserts, d)
  /\ Holds(version, "adds", rest.adds, d)
  /\ built = Slice(cand, 0, Len(built)) /\ Len(built) <= Len(cand)
  /\ Covers(base, cand, d, Len(built), Len(cand))

Decoding ==
  /\ phase = "decode" /\ Encoded
  /\ rest \in [ops : Nat, control : Seq(Items), inserts : Seq(Items), adds : Seq(Items)]
  /\ \E d \in Seq(Whole(version)) : Reading(d)

Written == phase = "written" /\ Encoded

(* The inductive invariant.                                                *)
DeltaInv ==
  /\ Wellformed
  /\ \/ Scanning \/ Coalescing \/ Adding \/ Sparsing \/ Reusing
     \/ Encoding \/ Opening \/ Decoding \/ Written

-----------------------------------------------------------------------------
(* Ops of the lists, the phase a state is in, and the passes of a strategy.*)
LEMMA OpIs ==
    ASSUME NEW b, NEW c, NEW op \in Ops, NEW at, Fits(b, c, op, at), NEW v, op.kind = "output" => v > 6
    PROVE  op \in OpsOf(v) /\ (op.len > 0 => op \in Whole(v))
  BY DEF Fits, OpsOf, Whole

LEMMA SeqOfOps ==
    ASSUME NEW v
    PROVE  OpsOf(v) \subseteq Ops /\ Whole(v) \subseteq OpsOf(v) /\ Seq(OpsOf(v)) \subseteq Seq(Ops)
           /\ Seq(Whole(v)) \subseteq Seq(OpsOf(v)) /\ Seq(Whole(v)) \subseteq Seq(Ops)
<1>1. OpsOf(v) \subseteq Ops /\ Whole(v) \subseteq OpsOf(v)
  BY DEF OpsOf, Whole
<1>2. \A S, T : S \subseteq T => Seq(S) \subseteq Seq(T)
  OBVIOUS
<1> QED
  BY <1>1, <1>2

LEMMA FitsInside ==
    ASSUME NEW b, NEW c, NEW op \in Ops, NEW at \in Nat, Fits(b, c, op, at)
    PROVE  at + op.len <= Len(c)
  BY DEF Fits

LEMMA WhichPhase ==
    ASSUME DeltaInv
    PROVE  /\ Wellformed
           /\ phase = "scan" => Scanning
           /\ phase = "coalesce" => Coalescing
           /\ phase = "add" => Adding
           /\ phase = "sparse" => Sparsing
           /\ phase = "reuse" => Reusing
           /\ phase = "encode" => Encoding
           /\ phase = "open" => Opening
           /\ phase = "decode" => Decoding
           /\ phase = "written" => Written
           /\ phase \in {"scan", "coalesce", "add", "sparse", "reuse", "encode", "open", "decode", "written"}
  BY DEF DeltaInv, Scanning, Coalescing, Adding, Sparsing, Reusing, Encoding, Opening, Decoding, Written

PassNames == {"add", "sparse", "reuse", "encode"}

LEMMA LastPasses ==
    ASSUME NEW v \in Nat
    PROVE  PassList(<<"encode">>, v) /\ (v >= 10 => PassList(<<"reuse">> \o <<"encode">>, v))
<1>1. PICK p : p = <<"encode">>
  OBVIOUS
<1>2. p \in Seq(PassNames) /\ Len(p) = 1 /\ p[1] = "encode" /\ p # <<>>
  BY <1>1 DEF PassNames
<1>3. PassList(p, v)
  BY <1>2 DEF PassList, PassNames
<1>4. PICK r : r = <<"reuse">>
  OBVIOUS
<1>5. r \in Seq(PassNames) /\ Len(r) = 1 /\ r[1] = "reuse"
  BY <1>4 DEF PassNames
<1>6. PICK q : q = r \o p
  OBVIOUS
<1>7. /\ q \in Seq(PassNames) /\ Len(q) = Len(r) + Len(p)
      /\ \A i \in 1..Len(r) : q[i] = r[i]
      /\ \A i \in 1..Len(p) : q[Len(r) + i] = p[i]
  <2>1. r \in Seq(PassNames) /\ p \in Seq(PassNames)
    BY <1>2, <1>5
  <2> QED
    BY <1>6, <2>1, CatIs
<1>8. q \in Seq(PassNames) /\ Len(q) = 2 /\ q[2] = "encode" /\ q[1] = "reuse" /\ q # <<>>
  BY <1>2, <1>5, <1>7
<1>9. v >= 10 => PassList(q, v)
  <2>1. \A i \in 1..Len(q) : q[i] = "reuse" => i = Len(q) - 1
    BY <1>8
  <2> QED
    BY <1>8, <2>1 DEF PassList, PassNames
<1> QED
  BY <1>1, <1>3, <1>4, <1>6, <1>9

LEMMA OnePassMore ==
    ASSUME NEW v \in Nat, NEW p, PassList(p, v), NEW x \in {"add", "sparse"}
    PROVE  PassList(<<x>> \o p, v)
<1>1. PICK r : r = <<x>>
  OBVIOUS
<1>2. r \in Seq(PassNames) /\ Len(r) = 1 /\ r[1] = x
  BY <1>1 DEF PassNames
<1>3. PICK q : q = r \o p
  OBVIOUS
<1>4. p \in Seq(PassNames) /\ p # <<>> /\ Len(p) \in Nat \ {0}
  BY DEF PassList, PassNames
<1>5. /\ q \in Seq(PassNames) /\ Len(q) = Len(r) + Len(p)
      /\ \A i \in 1..Len(r) : q[i] = r[i]
      /\ \A i \in 1..Len(p) : q[Len(r) + i] = p[i]
  <2>1. r \in Seq(PassNames) /\ p \in Seq(PassNames)
    BY <1>2, <1>4
  <2>2. /\ r \o p \in Seq(PassNames) /\ Len(r \o p) = Len(r) + Len(p)
        /\ \A i \in 1..Len(r) : (r \o p)[i] = r[i]
        /\ \A i \in 1..Len(p) : (r \o p)[Len(r) + i] = p[i]
    BY <2>1, CatIs
  <2> QED
    BY <1>3, <2>2, Zenon
<1>6. q \in Seq(PassNames) /\ Len(q) = 1 + Len(p) /\ q[1] = x /\ q # <<>>
  BY <1>2, <1>4, <1>5
<1>7. ASSUME NEW i \in 2..Len(q) PROVE i - 1 \in 1..Len(p) /\ q[i] = p[i - 1]
  <2>1. PICK j : j = i - 1
    OBVIOUS
  <2>2. j \in 1..Len(p) /\ Len(r) + j = i
    BY <1>2, <1>4, <1>6, <2>1
  <2> QED
    BY <1>5, <2>1, <2>2
<1>8. q[Len(q)] = "encode"
  <2>1. Len(q) \in 2..Len(q) /\ Len(q) - 1 = Len(p)
    BY <1>4, <1>6
  <2>2. p[Len(p)] = "encode"
    BY DEF PassList
  <2> QED
    BY <1>7, <2>1, <2>2
<1>9. ASSUME NEW i \in 1..Len(q), q[i] = "reuse" PROVE i = Len(q) - 1 /\ v >= 10
  <2>1. i \in 2..Len(q)
    BY <1>4, <1>6, <1>9
  <2>2. p[i - 1] = "reuse" /\ i - 1 \in 1..Len(p)
    BY <1>7, <1>9, <2>1
  <2>3. i - 1 = Len(p) - 1 /\ v >= 10
    BY <2>2 DEF PassList
  <2> QED
    BY <1>4, <1>6, <2>1, <2>3
<1>10. PassList(q, v)
  BY <1>6, <1>8, <1>9 DEF PassList, PassNames
<1> QED
  BY <1>1, <1>3, <1>10

(* The passes of every strategy end with the encoding.                     *)
LEMMA PassesOf ==
    ASSUME NEW v \in Nat
    PROVE  PassList(Passes(v), v)
<1>1. PICK x : x = IF v >= 3 THEN <<"add">> ELSE <<>>
  OBVIOUS
<1>2. PICK y : y = IF v \in {4, 12} THEN <<"sparse">> ELSE <<>>
  OBVIOUS
<1>3. PICK z : z = IF v >= 10 THEN <<"reuse">> ELSE <<>>
  OBVIOUS
<1>4. PICK e : e = <<"encode">>
  OBVIOUS
<1>5. x \in Seq(PassNames) /\ y \in Seq(PassNames) /\ z \in Seq(PassNames) /\ e \in Seq(PassNames)
  <2>1. /\ <<"add">> \in Seq(PassNames) /\ <<"sparse">> \in Seq(PassNames) /\ <<"reuse">> \in Seq(PassNames)
        /\ <<"encode">> \in Seq(PassNames) /\ <<>> \in Seq(PassNames)
    BY DEF PassNames
  <2> QED
    BY <1>1, <1>2, <1>3, <1>4, <2>1, Zenon
<1>6. Passes(v) = ((x \o y) \o z) \o e
  BY <1>1, <1>2, <1>3, <1>4 DEF Passes
<1>7. ((x \o y) \o z) \o e = x \o (y \o (z \o e))
  <2>1. PICK w : w = x \o y
    OBVIOUS
  <2>2. PICK u : u = z \o e
    OBVIOUS
  <2>3. w \in Seq(PassNames) /\ u \in Seq(PassNames)
    BY <1>5, <2>1, <2>2
  <2>4. (w \o z) \o e = w \o (z \o e)
    <3>1. w \in Seq(PassNames) /\ z \in Seq(PassNames) /\ e \in Seq(PassNames)
      BY <1>5, <2>3
    <3> QED
      BY <3>1, CatAssoc
  <2>5. (x \o y) \o u = x \o (y \o u)
    <3>1. x \in Seq(PassNames) /\ y \in Seq(PassNames) /\ u \in Seq(PassNames)
      BY <1>5, <2>3
    <3> QED
      BY <3>1, CatAssoc
  <2> QED
    BY <2>1, <2>2, <2>4, <2>5, Zenon
<1>8. PICK u : u = z \o e
  OBVIOUS
<1>9. PassList(u, v)
  <2>1. CASE v >= 10
    BY <1>3, <1>4, <1>8, <2>1, LastPasses
  <2>2. CASE ~(v >= 10)
    <3>1. z = <<>> /\ u = e
      BY <1>3, <1>5, <1>8, <2>2
    <3> QED
      BY <1>4, <3>1, LastPasses
  <2> QED
    BY <2>1, <2>2
<1>10. PICK w : w = y \o u
  OBVIOUS
<1>11. PassList(w, v)
  <2>1. CASE v \in {4, 12}
    <3>1. w = <<"sparse">> \o u
      BY <1>2, <1>10, <2>1
    <3> QED
      BY <1>9, <3>1, OnePassMore
  <2>2. CASE v \notin {4, 12}
    <3>1. y = <<>> /\ u \in Seq(PassNames)
      BY <1>2, <1>9, <2>2 DEF PassList, PassNames
    <3> QED
      BY <1>9, <1>10, <3>1
  <2> QED
    BY <2>1, <2>2
<1>12. PassList(x \o w, v)
  <2>1. CASE v >= 3
    <3>1. x = <<"add">>
      BY <1>1, <2>1
    <3> QED
      BY <1>11, <3>1, OnePassMore
  <2>2. CASE ~(v >= 3)
    <3>1. x = <<>> /\ w \in Seq(PassNames)
      BY <1>1, <1>11, <2>2 DEF PassList, PassNames
    <3> QED
      BY <1>11, <3>1
  <2> QED
    BY <2>1, <2>2
<1> QED
  BY <1>6, <1>7, <1>8, <1>10, <1>12, Zenon

-----------------------------------------------------------------------------
(* The start, and the scans.                                               *)
LEMMA InitHolds ==
    ASSUME DeltaInit
    PROVE  DeltaInv
<1> USE DEF DeltaInit
<1>1. version \in Nat /\ version \in Strategies
  <2>1. version \in Strategies
    OBVIOUS
  <2> HIDE DEF DeltaInit
  <2>2. Strategies \subseteq 1..14
    BY DeltaAssumption
  <2> QED
    BY <2>1, <2>2
<1>2. base \in Bases /\ base \in Seq(Bytes) /\ cand \in Seq(Bytes)
  BY DeltaAssumption DEF Bytes
<1>3. Wellformed
  BY <1>1, <1>2 DEF Wellformed
<1>4. Early
  BY <1>1, PassesOf DEF Early, NoDelta
<1>5. Covers(base, cand, made, 0, pos - Len(pend))
  <2>1. made = <<>> /\ pend = <<>> /\ pos = 0
    OBVIOUS
  <2>2. Len(<<>>) = 0 /\ 0 - 0 = 0
    OBVIOUS
  <2> QED
    BY <2>1, <2>2, NoOps
<1>6. Spells(pend, pos - Len(pend))
  BY <1>2 DEF Spells
<1>7. Scanning
  BY <1>2, <1>4, <1>5, <1>6 DEF Scanning
<1> QED
  BY <1>3, <1>7 DEF DeltaInv

LEMMA SpellsNothing ==
    ASSUME NEW at \in Nat, cand \in Seq(Bytes), at <= Len(cand)
    PROVE  Spells(<<>>, at)
<1>1. Len(<<>>) = 0 /\ 1..0 = {}
  OBVIOUS
<1> QED
  BY <1>1 DEF Spells

(* V1 copies what base and candidate have in common here.                  *)
LEMMA ScanRunKeeps ==
    ASSUME DeltaInv, ScanRun
    PROVE  DeltaInv'
<1>1. Wellformed /\ Scanning
  BY WhichPhase DEF ScanRun
<1>2. /\ version \in Strategies /\ version \in Nat /\ base \in Seq(Bytes)
      /\ cand \in Seq(Bytes) /\ pos \in Nat /\ basePos \in 0..Len(base) /\ made \in Seq(OpsOf(version))
      /\ pos < Len(cand) /\ pend = <<>> /\ version = 1 /\ Len(cand) \in Nat /\ Len(base) \in Nat
  BY <1>1 DEF Wellformed, Scanning, ScanRun
<1>3. PICK n : n = CommonPrefix(base, basePos, cand, pos)
  OBVIOUS
<1>4. /\ made' = Append(made, Copy(basePos, n)) /\ pos' = pos + n /\ basePos' = basePos + n
      /\ version' = version /\ base' = base /\ cand' = cand /\ phase' = phase /\ passes' = passes
      /\ pend' = pend /\ todo' = todo /\ mat' = mat /\ delta' = delta /\ rest' = rest /\ built' = built
      /\ summary' = summary
  BY <1>3 DEF ScanRun, subjectVars, codeVars
<1>5. n \in Nat /\ basePos + n <= Len(base) /\ pos + n <= Len(cand) /\ \A x \in 1..n : base[basePos + x] = cand[pos + x]
  <2>1. basePos \in 0..Len(base) /\ pos \in 0..Len(cand)
    BY <1>2
  <2> QED
    BY <1>2, <1>3, <2>1, CommonPrefixIs
<1>6. PICK op : op = Copy(basePos, n)
  OBVIOUS
<1>7. op \in Ops /\ op.len = n /\ Fits(base, cand, op, pos)
  <2>1. basePos \in Nat /\ pos \in Nat
    BY <1>2
  <2> QED
    BY <1>5, <1>6, <2>1, CopyFits, ZenonT(30)
<1>8. op \in OpsOf(version)
  <2>1. op.kind = "copy"
    BY <1>6 DEF Copy, Op
  <2> QED
    BY <1>7, <2>1, OpIs
<1>9. Covers(base, cand, made, 0, pos)
  <2>1. pos - Len(pend) = pos
    BY <1>2
  <2> QED
    BY <1>1, <2>1 DEF Scanning
<1>10. Covers(base, cand, Append(made, op), 0, pos + n)
  <2>1. made \in Seq(Ops)
    BY <1>2, SeqOfOps
  <2> QED
    BY <1>7, <1>9, <2>1, OneMore
<1>11. pos + n \in Nat /\ basePos + n \in 0..Len(base) /\ Append(made, op) \in Seq(OpsOf(version))
  BY <1>2, <1>5, <1>8
<1>12. Spells(pend, pos + n) /\ (pos + n) - Len(pend) = pos + n /\ Len(pend) <= pos + n
  BY <1>2, <1>5, <1>11, SpellsNothing
<1>13. Wellformed'
  BY <1>1, <1>4, <1>6, <1>11 DEF Wellformed
<1>14. Scanning'
  BY <1>1, <1>2, <1>4, <1>5, <1>6, <1>10, <1>11, <1>12 DEF Scanning, Early, Spells
<1> QED
  BY <1>13, <1>14 DEF DeltaInv

LEMMA FlushKept ==
    ASSUME NEW b, NEW c, NEW v, NEW ops \in Seq(OpsOf(v)), NEW k \in Nat, Covers(b, c, ops, 0, k),
           NEW bytes \in Seq(Bytes), k + Len(bytes) <= Len(c), \A i \in 1..Len(bytes) : bytes[i] = c[k + i]
    PROVE  Flush(ops, bytes) \in Seq(OpsOf(v)) /\ Covers(b, c, Flush(ops, bytes), 0, k + Len(bytes))
<1>1. ops \in Seq(Ops)
  BY SeqOfOps
<1>2. Covers(b, c, Flush(ops, bytes), 0, k + Len(bytes))
  BY <1>1, FlushCovers
<1>3. Insert(bytes) \in Ops /\ Fits(b, c, Insert(bytes), k)
  BY InsertFits
<1>4. Insert(bytes).kind = "insert"
  BY DEF Insert, Op
<1>5. Insert(bytes) \in OpsOf(v)
  BY <1>3, <1>4, OpIs
<1> QED
  BY <1>2, <1>5 DEF Flush

(* Where the V1 scan goes on is inside base and candidate, and not back.   *)
LEMMA ResyncIs ==
    ASSUME Wellformed, basePos \in 0..Len(base), pos < Len(cand), Resync # Unset
    PROVE  /\ Resync.at \in Nat /\ pos <= Resync.at /\ Resync.at <= Len(cand)
           /\ Resync.from \in 0..Len(base)
<1> DEFINE baseLeft == Len(base) - basePos
           candLeft == Len(cand) - pos
           window(left) == Min({left, Lookahead})
           wide == Min({MinAnchor, window(baseLeft), window(candLeft)})
           anchor == IF wide < MinTailAnchor THEN Min({MinTailAnchor, baseLeft, candLeft}) ELSE wide
           hits == {p \in (pos..(pos + window(candLeft) - anchor)) \X (basePos..(basePos + window(baseLeft) - anchor)) :
                      Slice(cand, p[1], anchor) = Slice(base, p[2], anchor)}
           ats == {p[1] : p \in hits}
           first == Min(ats)
           froms == {p[2] : p \in {q \in hits : q[1] = first}}
<1>1. /\ Resync = [len |-> anchor, at |-> first, from |-> Min(froms)] /\ hits # {}
  BY DEF Resync
<1>2. /\ baseLeft \in Nat /\ candLeft \in Nat /\ pos \in Nat /\ basePos \in Nat
      /\ pos + candLeft = Len(cand) /\ basePos + baseLeft = Len(base)
      /\ Len(base) \in Nat /\ Len(cand) \in Nat
  BY DEF Wellformed
<1>3. Lookahead \in Nat /\ MinAnchor \in Nat /\ MinTailAnchor \in Nat
  BY DeltaAssumption
<1>4. Resync.at = first /\ Resync.from = Min(froms)
  BY <1>1
<1> HIDE DEF baseLeft, candLeft
<1>5. ASSUME NEW left \in Nat PROVE window(left) \in Nat /\ window(left) <= left
  <2>1. {left, Lookahead} \subseteq Nat /\ {left, Lookahead} # {} /\ left \in {left, Lookahead}
    BY <1>3
  <2> QED
    BY <2>1, MinIs
<1>6. PICK bw, cw : bw = window(baseLeft) /\ cw = window(candLeft)
  OBVIOUS
<1>7. bw \in Nat /\ cw \in Nat /\ bw <= baseLeft /\ cw <= candLeft
  BY <1>2, <1>5, <1>6
<1> HIDE DEF window
<1>8. wide \in Nat
  <2>1. wide = Min({MinAnchor, bw, cw})
    BY <1>6
  <2>2. {MinAnchor, bw, cw} \subseteq Nat /\ {MinAnchor, bw, cw} # {}
    BY <1>3, <1>7
  <2>3. Min({MinAnchor, bw, cw}) \in {MinAnchor, bw, cw}
    BY <2>2, MinIs
  <2> QED
    BY <1>3, <1>7, <2>1, <2>3
<1> HIDE DEF wide
<1>9. anchor \in Nat
  <2>1. PICK m : m = Min({MinTailAnchor, baseLeft, candLeft})
    OBVIOUS
  <2>2. {MinTailAnchor, baseLeft, candLeft} \subseteq Nat /\ {MinTailAnchor, baseLeft, candLeft} # {}
    BY <1>2, <1>3
  <2>3. m \in {MinTailAnchor, baseLeft, candLeft}
    BY <2>1, <2>2, MinIs
  <2> QED
    BY <1>2, <1>3, <1>8, <2>1, <2>3
<1> HIDE DEF anchor
<1>10. hits \subseteq (pos..(pos + cw - anchor)) \X (basePos..(basePos + bw - anchor))
  BY <1>6
<1> HIDE DEF hits
<1>11. \A p \in hits : p[1] \in pos..Len(cand) /\ p[2] \in basePos..Len(base)
  <2>1. \A x \in pos..(pos + cw - anchor) : x \in pos..Len(cand)
    BY <1>2, <1>7, <1>9
  <2>2. \A y \in basePos..(basePos + bw - anchor) : y \in basePos..Len(base)
    BY <1>2, <1>7, <1>9
  <2> QED
    BY <1>10, <2>1, <2>2
<1>12. ats \subseteq pos..Len(cand) /\ ats # {}
  BY <1>1, <1>11
<1>13. first \in ats
  <2>1. ats \subseteq Nat
    BY <1>2, <1>12
  <2> HIDE DEF ats
  <2> QED
    BY <1>12, <2>1, MinIs
<1>14. froms \subseteq basePos..Len(base) /\ froms # {}
  BY <1>11, <1>13
<1> HIDE DEF froms
<1>15. Min(froms) \in froms
  <2>1. froms \subseteq Nat
    BY <1>2, <1>14
  <2> QED
    BY <1>14, <2>1, MinIs
<1>16. first \in pos..Len(cand) /\ Min(froms) \in basePos..Len(base)
  BY <1>12, <1>13, <1>14, <1>15
<1> HIDE DEF first
<1> QED
  BY <1>2, <1>4, <1>16

(* V1 inserts the bytes up to the next anchor, or to the end.              *)
LEMMA ScanResyncKeeps ==
    ASSUME DeltaInv, ScanResync
    PROVE  DeltaInv'
<1>1. Wellformed /\ Scanning
  BY WhichPhase DEF ScanResync
<1>2. /\ version \in Strategies /\ version \in Nat /\ base \in Seq(Bytes)
      /\ cand \in Seq(Bytes) /\ pos \in Nat /\ basePos \in 0..Len(base) /\ made \in Seq(OpsOf(version))
      /\ pos < Len(cand) /\ pend = <<>> /\ version = 1 /\ Len(cand) \in Nat /\ Len(base) \in Nat
  BY <1>1 DEF Wellformed, Scanning, ScanResync
<1>3. \/ Resync = Unset /\ made' = Append(made, Insert(From(cand, pos))) /\ pos' = Len(cand) /\ basePos' = basePos
      \/ Resync # Unset /\ made' = Flush(made, Slice(cand, pos, Resync.at - pos)) /\ pos' = Resync.at /\ basePos' = Resync.from
  BY DEF ScanResync
<1>4. /\ version' = version /\ base' = base /\ cand' = cand /\ phase' = phase /\ passes' = passes
      /\ pend' = pend /\ todo' = todo /\ mat' = mat /\ delta' = delta /\ rest' = rest /\ built' = built
      /\ summary' = summary
  BY DEF ScanResync, subjectVars, codeVars
<1>5. Covers(base, cand, made, 0, pos) /\ made \in Seq(Ops)
  <2>1. pos - Len(pend) = pos
    BY <1>2
  <2> QED
    BY <1>1, <1>2, <2>1, SeqOfOps DEF Scanning
<1>6. ASSUME NEW p \in Nat, p <= Len(cand), pos' = p, basePos' \in 0..Len(base),
             made' \in Seq(OpsOf(version)), Covers(base, cand, made', 0, p)
      PROVE  DeltaInv'
  <2>1. Spells(pend, p) /\ p - Len(pend) = p /\ Len(pend) <= p
    BY <1>2, <1>6, SpellsNothing
  <2>2. Wellformed'
    BY <1>1, <1>2, <1>4, <1>6 DEF Wellformed
  <2>3. Scanning'
    BY <1>1, <1>2, <1>4, <1>6, <2>1 DEF Scanning, Early, Spells
  <2> QED
    BY <2>2, <2>3, Zenon DEF DeltaInv
<1>7. CASE Resync = Unset
  <2>1. PICK bytes : bytes = From(cand, pos)
    OBVIOUS
  <2>2. bytes \in Seq(Bytes) /\ Len(bytes) = Len(cand) - pos /\ \A i \in 1..(Len(cand) - pos) : bytes[i] = cand[pos + i]
    <3>1. cand \in Seq(Bytes) /\ pos \in Nat /\ pos <= Len(cand)
      BY <1>2
    <3>2. /\ From(cand, pos) \in Seq(Bytes) /\ Len(From(cand, pos)) = Len(cand) - pos
          /\ \A i \in 1..(Len(cand) - pos) : From(cand, pos)[i] = cand[pos + i]
      BY <3>1, FromIs
    <3> QED
      BY <2>1, <3>2
  <2>3. pos + Len(bytes) <= Len(cand) /\ \A i \in 1..Len(bytes) : bytes[i] = cand[pos + i]
    BY <1>2, <2>2
  <2>4. PICK op : op = Insert(bytes)
    OBVIOUS
  <2>5. op \in Ops /\ op.len = Len(bytes) /\ Fits(base, cand, op, pos)
    BY <1>2, <2>2, <2>3, <2>4, InsertFits
  <2>6. op \in OpsOf(version)
    <3>1. op.kind = "insert"
      BY <2>4 DEF Insert, Op
    <3> QED
      BY <2>5, <3>1, OpIs
  <2>7. Covers(base, cand, Append(made, op), 0, pos + Len(bytes)) /\ pos + Len(bytes) = Len(cand)
    <3>1. Covers(base, cand, Append(made, op), 0, pos + op.len)
      BY <1>5, <2>5, OneMore
    <3> QED
      BY <1>2, <2>2, <2>5, <3>1
  <2>8. made' = Append(made, op) /\ Append(made, op) \in Seq(OpsOf(version)) /\ pos' = Len(cand) /\ basePos' = basePos
    BY <1>2, <1>3, <1>7, <2>1, <2>4, <2>6
  <2> QED
    BY <1>2, <1>6, <2>7, <2>8
<1>8. CASE Resync # Unset
  <2>1. PICK at : at = Resync.at
    OBVIOUS
  <2>2. at \in Nat /\ pos <= at /\ at <= Len(cand) /\ Resync.from \in 0..Len(base)
    BY <1>1, <1>2, <1>8, <2>1, ResyncIs
  <2>3. PICK n : n = at - pos
    OBVIOUS
  <2>4. n \in Nat /\ pos + n = at /\ pos + n <= Len(cand)
    BY <1>2, <2>2, <2>3
  <2>5. PICK bytes : bytes = Slice(cand, pos, n)
    OBVIOUS
  <2>6. bytes \in Seq(Bytes) /\ Len(bytes) = n /\ \A i \in 1..n : bytes[i] = cand[pos + i]
    <3>1. cand \in Seq(Bytes) /\ pos \in Nat
      BY <1>2
    <3> QED
      BY <2>4, <2>5, <3>1, ByteSlice
  <2>7. Flush(made, bytes) \in Seq(OpsOf(version)) /\ Covers(base, cand, Flush(made, bytes), 0, at)
    BY <1>2, <1>5, <2>4, <2>6, FlushKept
  <2>8. made' = Flush(made, bytes) /\ pos' = at /\ basePos' = Resync.from
    BY <1>3, <1>8, <2>1, <2>3, <2>5
  <2> QED
    BY <1>6, <2>2, <2>7, <2>8
<1> QED
  BY <1>7, <1>8

LEMMA HitsInside ==
    ASSUME NEW text \in Seq(Bytes), NEW bytes, NEW i
    PROVE  Hits(text, bytes, i) \subseteq 0..Len(text)
<1>1. SeedBytes \in Nat /\ Len(text) \in Nat
  BY DeltaAssumption
<1>2. 0..(Len(text) - SeedBytes) \subseteq 0..Len(text)
  BY <1>1
<1> QED
  BY <1>2 DEF Hits

(* Of the offsets looked up those of the longest match are some.           *)
LEMMA LongestIs ==
    ASSUME NEW text \in Seq(Bytes), NEW bytes \in Seq(Bytes), NEW i \in 0..Len(bytes),
           NEW S, S \subseteq 0..Len(text), S # {}
    PROVE  LET best == Longest(S, text, bytes, i) IN
           /\ best.at \subseteq S /\ best.at # {} /\ best.at \subseteq Nat
           /\ \A o \in best.at : best.len = CommonPrefix(text, o, bytes, i)
<1> DEFINE lens == {CommonPrefix(text, o, bytes, i) : o \in S}
           n == Max(lens)
           at == {o \in S : CommonPrefix(text, o, bytes, i) = n}
<1>1. ASSUME NEW o \in S PROVE CommonPrefix(text, o, bytes, i) \in Nat /\ CommonPrefix(text, o, bytes, i) <= Len(text)
  <2>1. PICK p : p = CommonPrefix(text, o, bytes, i)
    OBVIOUS
  <2>2. o \in 0..Len(text) /\ Len(text) \in Nat
    OBVIOUS
  <2>3. p \in Nat /\ o + p <= Len(text)
    BY <2>1, <2>2, CommonPrefixIs
  <2>4. p <= Len(text)
    BY <2>2, <2>3
  <2> QED
    BY <2>1, <2>3, <2>4
<1>2. n \in lens
  <2>1. lens \subseteq Nat /\ Len(text) \in Nat
    BY <1>1
  <2>2. \A x \in lens : x <= Len(text)
    BY <1>1
  <2>3. lens # {}
    <3>1. PICK o \in S : TRUE
      OBVIOUS
    <3>2. CommonPrefix(text, o, bytes, i) \in lens
      BY <3>1
    <3> QED
      BY <3>2
  <2> HIDE DEF lens
  <2> QED
    BY <2>1, <2>2, <2>3, MaxIs
<1>3. at # {} /\ at \subseteq S /\ at \subseteq Nat /\ \A o \in at : n = CommonPrefix(text, o, bytes, i)
  <2>1. S \subseteq Nat
    OBVIOUS
  <2> HIDE DEF n
  <2> QED
    BY <1>2, <2>1
<1>4. Longest(S, text, bytes, i) = [len |-> n, at |-> at]
  BY DEF Longest
<1> HIDE DEF n, at
<1>5. Longest(S, text, bytes, i).len = n /\ Longest(S, text, bytes, i).at = at
  BY <1>4
<1> QED
  BY <1>3, <1>5

(* What a lookup finds are base bytes that are the next of the candidate.  *)
LEMMA FindsIs ==
    ASSUME Wellformed, pos < Len(cand), NEW f \in Finds, f # Unset
    PROVE  /\ f.at \in Nat /\ f.len \in Nat /\ f.at + f.len <= Len(base) /\ pos + f.len <= Len(cand)
           /\ \A i \in 1..f.len : base[f.at + i] = cand[pos + i]
<1> DEFINE all == Hits(base, cand, pos)
           lookups == IF version <= 4 THEN {Lowest({o \in all : o % AnchorStride = 0}, MaxOffsets)}
                      ELSE {S \in SUBSET all : Cardinality(S) = Min({Cardinality(all), MaxOffsets})}
           best == {Longest(S, base, cand, pos) : S \in lookups \ {{}}}
           starts(b) == IF version <= 4 THEN {Min(b.at)} ELSE b.at
<1>1. base \in Seq(Bytes) /\ cand \in Seq(Bytes) /\ pos \in 0..Len(cand) /\ Len(base) \in Nat
  BY DEF Wellformed
<1>2. all \subseteq 0..Len(base)
  BY <1>1, HitsInside
<1>3. ASSUME NEW S \in lookups PROVE S \subseteq 0..Len(base)
  <2>1. S \subseteq all
    BY DEF Lowest
  <2> QED
    BY <1>2, <2>1
<1>4. Finds = IF best = {} THEN {Unset}
              ELSE UNION {IF b.len < Least(version) THEN {Unset} ELSE {[len |-> b.len, at |-> o] : o \in starts(b)} : b \in best}
  BY DEF Finds
<1> HIDE DEF all, lookups
<1>5. PICK b \in best : \E o \in starts(b) : f = [len |-> b.len, at |-> o]
  <2> HIDE DEF best, starts
  <2> QED
    BY <1>4
<1>6. PICK S \in lookups \ {{}} : b = Longest(S, base, cand, pos)
  BY <1>5
<1>7. b.at # {} /\ b.at \subseteq S /\ b.at \subseteq Nat /\ \A o \in b.at : b.len = CommonPrefix(base, o, cand, pos)
  <2>1. S \subseteq 0..Len(base) /\ S # {}
    BY <1>3, <1>6
  <2> QED
    BY <1>1, <1>6, <2>1, LongestIs
<1>8. starts(b) \subseteq b.at
  <2>1. Min(b.at) \in b.at
    BY <1>7, MinIs
  <2> QED
    BY <2>1
<1>9. PICK o \in starts(b) : f = [len |-> b.len, at |-> o]
  BY <1>5
<1> HIDE DEF starts
<1>10. f.at = o /\ f.len = CommonPrefix(base, o, cand, pos) /\ o \in 0..Len(base)
  BY <1>3, <1>6, <1>7, <1>8, <1>9
<1>11. PICK n : n = CommonPrefix(base, o, cand, pos)
  OBVIOUS
<1>12. n \in Nat /\ o + n <= Len(base) /\ pos + n <= Len(cand) /\ \A x \in 1..n : base[o + x] = cand[pos + x]
  BY <1>1, <1>10, <1>11, CommonPrefixIs
<1> QED
  BY <1>10, <1>11, <1>12

(* A match is extended backwards only over pending bytes that agree.       *)
LEMMA ExtensionIs ==
    ASSUME Wellformed, NEW o \in 0..Len(base)
    PROVE  LET n == Extension(o) IN
           /\ n \in Nat /\ n <= Len(pend) /\ n <= o
           /\ \A i \in 1..n : base[o - n + i] = pend[Len(pend) - n + i]
<1>1. base \in Seq(Bytes) /\ pend \in Seq(Bytes) /\ o \in Nat /\ Len(pend) \in Nat /\ Len(base) \in Nat /\ o <= Len(base)
  BY DEF Wellformed
<1>2. CASE version < 6
  <2>1. Extension(o) = 0 /\ 1..0 = {}
    BY <1>2 DEF Extension
  <2> QED
    BY <1>1, <2>1
<1>3. CASE ~(version < 6)
  <2> DEFINE m == Min({Len(pend), o})
             ns == {n \in 0..m : Slice(base, o - n, n) = From(pend, Len(pend) - n)}
  <2>1. Extension(o) = Max(ns)
    BY <1>3 DEF Extension
  <2>2. m \in Nat /\ m <= Len(pend) /\ m <= o
    <3>1. {Len(pend), o} \subseteq Nat /\ {Len(pend), o} # {} /\ Len(pend) \in {Len(pend), o} /\ o \in {Len(pend), o}
      BY <1>1
    <3> QED
      BY <3>1, MinIs
  <2> HIDE DEF m
  <2>3. 0 \in ns
    <3>1. Slice(base, o, 0) = <<>>
      BY <1>1, SliceNone
    <3>2. From(pend, Len(pend)) \in Seq(Bytes) /\ Len(From(pend, Len(pend))) = 0
      BY <1>1, FromIs
    <3>3. From(pend, Len(pend)) = <<>>
      BY <3>2
    <3>4. o - 0 = o /\ Len(pend) - 0 = Len(pend) /\ 0 \in 0..m
      BY <1>1, <2>2
    <3> QED
      BY <3>1, <3>3, <3>4
  <2>4. Max(ns) \in ns
    <3>1. ns \subseteq 0..m /\ ns # {}
      BY <2>3
    <3> HIDE DEF ns
    <3>2. ns \subseteq Nat /\ \A x \in ns : x <= m
      BY <2>2, <3>1
    <3> QED
      BY <2>2, <3>1, <3>2, MaxIs
  <2>5. PICK n : n = Extension(o)
    OBVIOUS
  <2>6. n \in 0..m /\ Slice(base, o - n, n) = From(pend, Len(pend) - n)
    BY <2>1, <2>4, <2>5
  <2>7. PICK p, q : p = o - n /\ q = Len(pend) - n
    OBVIOUS
  <2>8. n \in Nat /\ p \in Nat /\ q \in Nat /\ p + n <= Len(base) /\ q <= Len(pend) /\ Len(pend) - q = n /\ n <= Len(pend) /\ n <= o
    BY <1>1, <2>2, <2>6, <2>7
  <2>9. \A i \in 1..n : Slice(base, p, n)[i] = base[p + i]
    BY <1>1, <2>8, ByteSlice
  <2>10. \A i \in 1..n : From(pend, q)[i] = pend[q + i]
    <3>1. \A i \in 1..(Len(pend) - q) : From(pend, q)[i] = pend[q + i]
      BY <1>1, <2>8, FromIs
    <3> QED
      BY <2>8, <3>1
  <2>11. \A i \in 1..n : base[p + i] = pend[q + i]
    BY <2>6, <2>7, <2>9, <2>10
  <2> QED
    BY <2>5, <2>7, <2>8, <2>11
<1> QED
  BY <1>2, <1>3

(* A byte that starts no copy is pending.                                  *)
LEMMA ScanByteKeeps ==
    ASSUME DeltaInv, ScanByte
    PROVE  DeltaInv'
<1>1. Wellformed /\ Scanning
  BY WhichPhase DEF ScanByte
<1>2. /\ version \in Nat /\ version # 1 /\ cand \in Seq(Bytes) /\ pend \in Seq(Bytes) /\ pos \in Nat
      /\ pos < Len(cand) /\ Len(cand) \in Nat /\ Len(pend) \in Nat /\ Len(pend) <= pos
  BY <1>1 DEF Wellformed, Scanning, ScanByte
<1>3. /\ pend' = Append(pend, cand[pos + 1]) /\ pos' = pos + 1 /\ basePos' = basePos /\ made' = made
      /\ version' = version /\ base' = base /\ cand' = cand /\ phase' = phase /\ passes' = passes
      /\ todo' = todo /\ mat' = mat /\ delta' = delta /\ rest' = rest /\ built' = built /\ summary' = summary
  BY DEF ScanByte, subjectVars, codeVars
<1>4. PICK k : k = pos - Len(pend)
  OBVIOUS
<1>5. k \in Nat /\ pos = k + Len(pend)
  BY <1>2, <1>4
<1>6. /\ pend' \in Seq(Bytes) /\ Len(pend') = Len(pend) + 1 /\ pend'[Len(pend) + 1] = cand[pos + 1]
      /\ \A i \in 1..Len(pend) : pend'[i] = pend[i]
  <2>1. pos + 1 \in 1..Len(cand)
    BY <1>2
  <2>2. cand[pos + 1] \in Bytes
    BY <1>2, <2>1
  <2> QED
    BY <1>2, <1>3, <2>2
<1>7. pos + 1 \in Nat /\ pos + 1 <= Len(cand) /\ Len(pend') <= pos + 1 /\ (pos + 1) - Len(pend') = k
  BY <1>2, <1>5, <1>6
<1>8. k + Len(pend') <= Len(cand) /\ \A i \in 1..Len(pend') : pend'[i] = cand[k + i]
  <2>1. \A i \in 1..Len(pend) : pend[i] = cand[k + i]
    BY <1>1, <1>4 DEF Scanning, Spells
  <2>2. \A i \in 1..Len(pend') : i \in 1..Len(pend) \/ i = Len(pend) + 1
    BY <1>2, <1>6
  <2>3. k + (Len(pend) + 1) = pos + 1
    BY <1>2, <1>5
  <2> QED
    BY <1>2, <1>5, <1>6, <1>7, <2>1, <2>2, <2>3
<1>9. Wellformed'
  BY <1>1, <1>3, <1>6, <1>7 DEF Wellformed
<1>10. Covers(base, cand, made, 0, k)
  BY <1>1, <1>4 DEF Scanning
<1>11. Spells(pend, pos - Len(pend))' /\ (pos - Len(pend))' = k
  BY <1>3, <1>7, <1>8 DEF Spells
<1>12. Scanning'
  BY <1>1, <1>2, <1>3, <1>7, <1>10, <1>11 DEF Scanning, Early
<1> QED
  BY <1>9, <1>12 DEF DeltaInv

(* A copy takes pending bytes from V6 on, and the rest of these is flushed.*)
LEMMA ScanCopyKeeps ==
    ASSUME DeltaInv, ScanCopy
    PROVE  DeltaInv'
<1>1. Wellformed /\ Scanning
  BY WhichPhase DEF ScanCopy
<1>2. /\ version \in Nat /\ base \in Seq(Bytes) /\ cand \in Seq(Bytes) /\ pend \in Seq(Bytes) /\ pos \in Nat
      /\ pos < Len(cand) /\ Len(cand) \in Nat /\ Len(base) \in Nat /\ Len(pend) \in Nat /\ Len(pend) <= pos
      /\ made \in Seq(OpsOf(version))
  BY <1>1 DEF Wellformed, Scanning, ScanCopy
<1>3. PICK f \in Finds \ {Unset} :
        /\ made' = Append(Flush(made, SubSeq(pend, 1, Len(pend) - Extension(f.at))),
                          Copy(f.at - Extension(f.at), f.len + Extension(f.at)))
        /\ pos' = pos + f.len
  BY DEF ScanCopy
<1>4. /\ pend' = <<>> /\ basePos' = basePos
      /\ version' = version /\ base' = base /\ cand' = cand /\ phase' = phase /\ passes' = passes
      /\ todo' = todo /\ mat' = mat /\ delta' = delta /\ rest' = rest /\ built' = built /\ summary' = summary
  BY DEF ScanCopy, subjectVars, codeVars
<1>5. PICK at, len, n : at = f.at /\ len = f.len /\ n = Extension(at)
  OBVIOUS
<1>6. /\ at \in Nat /\ len \in Nat /\ at + len <= Len(base) /\ pos + len <= Len(cand)
      /\ \A i \in 1..len : base[at + i] = cand[pos + i]
  BY <1>1, <1>2, <1>3, <1>5, FindsIs
<1>7. n \in Nat /\ n <= Len(pend) /\ n <= at /\ \A i \in 1..n : base[at - n + i] = pend[Len(pend) - n + i]
  <2>1. at \in 0..Len(base)
    BY <1>2, <1>6
  <2> QED
    BY <1>1, <1>5, <2>1, ExtensionIs
<1>8. PICK q, k, o, w, m : q = Len(pend) - n /\ k = pos - Len(pend) /\ o = at - n /\ w = len + n /\ m = k + q
  OBVIOUS
<1>9. /\ q \in Nat /\ k \in Nat /\ o \in Nat /\ w \in Nat /\ m \in Nat /\ q <= Len(pend) /\ o + w <= Len(base)
      /\ m + w = pos + len /\ m + w <= Len(cand) /\ m + n = pos /\ o + n = at /\ q + n = Len(pend)
  BY <1>2, <1>6, <1>7, <1>8
<1>10. PICK bytes : bytes = Slice(pend, 0, q)
  OBVIOUS
<1>11. bytes \in Seq(Bytes) /\ Len(bytes) = q /\ \A i \in 1..q : bytes[i] = pend[i]
  BY <1>2, <1>9, <1>10, PrefixIs
<1>12. SubSeq(pend, 1, q) = bytes
  <2>1. 0 + 1 = 1 /\ 0 + q = q
    BY <1>9
  <2> QED
    BY <1>10, <2>1 DEF Slice
<1>13. \A i \in 1..Len(pend) : pend[i] = cand[k + i]
  BY <1>1, <1>8 DEF Scanning, Spells
<1>14. PICK ops : ops = Flush(made, bytes)
  OBVIOUS
<1>15. ops \in Seq(OpsOf(version)) /\ Covers(base, cand, ops, 0, m)
  <2>1. Covers(base, cand, made, 0, k)
    BY <1>1, <1>8 DEF Scanning
  <2>2. k + Len(bytes) <= Len(cand) /\ \A i \in 1..Len(bytes) : bytes[i] = cand[k + i]
    <3>1. k + q <= Len(cand)
      BY <1>2, <1>8, <1>9
    <3>2. \A i \in 1..q : i \in 1..Len(pend)
      BY <1>2, <1>9
    <3> QED
      BY <1>11, <1>13, <3>1, <3>2
  <2>3. m = k + Len(bytes)
    BY <1>8, <1>11
  <2>4. version \in Nat /\ made \in Seq(OpsOf(version)) /\ k \in Nat /\ bytes \in Seq(Bytes)
    BY <1>2, <1>9, <1>11
  <2>5. ops \in Seq(OpsOf(version)) /\ Covers(base, cand, ops, 0, k + Len(bytes))
    BY <1>14, <2>1, <2>2, <2>4, FlushKept
  <2> QED
    BY <2>3, <2>5
<1>16. ASSUME NEW i \in 1..w PROVE base[o + i] = cand[m + i]
  <2>1. CASE i <= n
    <3>1. PICK j : j = q + i
      OBVIOUS
    <3>2. i \in 1..n /\ j \in 1..Len(pend) /\ k + j = m + i
      BY <1>2, <1>7, <1>8, <1>9, <2>1, <3>1, SMTT(30)
    <3>3. base[at - n + i] = pend[Len(pend) - n + i]
      BY <1>7, <3>2
    <3>4. at - n + i = o + i /\ Len(pend) - n + i = j
      BY <1>8, <3>1
    <3>5. pend[j] = cand[k + j]
      BY <1>13, <3>2
    <3> QED
      BY <3>2, <3>3, <3>4, <3>5
  <2>2. CASE ~(i <= n)
    <3>1. PICK j : j = i - n
      OBVIOUS
    <3>2. j \in 1..len /\ at + j = o + i /\ pos + j = m + i
      BY <1>6, <1>7, <1>8, <1>9, <2>2, <3>1, SMTT(30)
    <3> QED
      BY <1>6, <3>2
  <2> QED
    BY <2>1, <2>2
<1>17. PICK op : op = Copy(o, w)
  OBVIOUS
<1>18. op \in Ops /\ op.len = w /\ Fits(base, cand, op, m)
  <2>1. o \in Nat /\ w \in Nat /\ m \in Nat /\ o + w <= Len(base) /\ m + w <= Len(cand)
    BY <1>9
  <2> QED
    BY <1>16, <1>17, <2>1, CopyFits, ZenonT(30)
<1>19. op \in OpsOf(version)
  <2>1. op.kind = "copy"
    BY <1>17 DEF Copy, Op
  <2> QED
    BY <1>18, <2>1, OpIs
<1>20. Covers(base, cand, Append(ops, op), 0, pos + len)
  <2>1. ops \in Seq(Ops)
    BY <1>15, SeqOfOps
  <2>2. Covers(base, cand, Append(ops, op), 0, m + op.len)
    BY <1>15, <1>18, <2>1, OneMore
  <2> QED
    BY <1>9, <1>18, <2>2
<1>21. made' = Append(ops, op) /\ pos' = pos + len /\ Append(ops, op) \in Seq(OpsOf(version))
  <2>1. made' = Append(Flush(made, SubSeq(pend, 1, q)), Copy(o, w)) /\ pos' = pos + len
    BY <1>3, <1>5, <1>8
  <2>2. made' = Append(ops, op)
    BY <1>12, <1>14, <1>17, <2>1
  <2>3. Append(ops, op) \in Seq(OpsOf(version))
    BY <1>15, <1>19
  <2> QED
    BY <2>1, <2>2, <2>3
<1>22. pos + len \in Nat /\ pos + len <= Len(cand) /\ (pos + len) - Len(pend') = pos + len /\ Len(pend') <= pos + len
       /\ pend' \in Seq(Bytes)
  BY <1>2, <1>4, <1>6
<1>23. Spells(<<>>, pos + len)
  BY <1>2, <1>22, SpellsNothing
<1>24. Wellformed'
  BY <1>1, <1>4, <1>21, <1>22 DEF Wellformed
<1>25. Spells(pend, pos - Len(pend))' /\ (pos - Len(pend))' = pos + len
  BY <1>4, <1>21, <1>22, <1>23 DEF Spells
<1>26. Scanning'
  BY <1>1, <1>4, <1>20, <1>21, <1>22, <1>25 DEF Scanning, Early
<1> QED
  BY <1>24, <1>26 DEF DeltaInv

-----------------------------------------------------------------------------
(* Between the passes: the end of one, coalescing, the start of the next.  *)
LEMMA NoOpsLeft ==
    ASSUME NEW b, NEW c, NEW from, NEW to, Covers(b, c, <<>>, from, to)
    PROVE  from = to
<1>1. Len(<<>>) = 0
  OBVIOUS
<1> QED
  BY <1>1 DEF Covers

(* A pass that ends has taken every op, or the whole candidate.            *)
LEMMA EndPassKeeps ==
    ASSUME DeltaInv, EndPass
    PROVE  DeltaInv'
<1>1. Wellformed
  BY WhichPhase
<1>2. /\ phase' = "coalesce" /\ todo' = Flush(made, pend) /\ made' = <<>> /\ pend' = <<>> /\ pos' = 0
      /\ version' = version /\ base' = base /\ cand' = cand /\ passes' = passes /\ basePos' = basePos
      /\ mat' = mat /\ delta' = delta /\ rest' = rest /\ built' = built /\ summary' = summary
  BY DEF EndPass, subjectVars, codeVars
<1>3. /\ version \in Nat /\ cand \in Seq(Bytes) /\ pend \in Seq(Bytes) /\ pos \in Nat /\ Len(cand) \in Nat
      /\ Len(pend) \in Nat /\ made \in Seq(OpsOf(version)) /\ made \in Seq(Ops) /\ todo \in Seq(Ops)
  BY <1>1, SeqOfOps DEF Wellformed
<1>4. Early /\ \E k \in Nat : Covers(base, cand, made, 0, k) /\ Spells(pend, k) /\ k + Len(pend) = Len(cand)
  <2>1. CASE phase = "scan" /\ pos = Len(cand)
    <3>1. Scanning
      BY <2>1, WhichPhase
    <3>2. Len(cand) - Len(pend) \in Nat /\ (Len(cand) - Len(pend)) + Len(pend) = Len(cand)
      BY <1>3, <2>1, <3>1 DEF Scanning
    <3> QED
      BY <2>1, <3>1, <3>2 DEF Scanning
  <2>2. ASSUME NEW k \in Nat, Early, todo = <<>>, pend = <<>>, Covers(base, cand, made, 0, k), Covers(base, cand, todo, k, Len(cand))
        PROVE  Early /\ \E j \in Nat : Covers(base, cand, made, 0, j) /\ Spells(pend, j) /\ j + Len(pend) = Len(cand)
    <3>1. k = Len(cand) /\ k + Len(pend) = Len(cand)
      BY <1>3, <2>2, NoOpsLeft
    <3>2. Spells(pend, k)
      BY <1>3, <2>2, <3>1, SpellsNothing
    <3> QED
      BY <2>2, <3>1, <3>2
  <2>3. CASE phase = "add" /\ todo = <<>>
    <3>1. Adding
      BY <2>3, WhichPhase
    <3> QED
      BY <2>2, <2>3, <3>1 DEF Adding, Rewritten
  <2>4. CASE phase = "sparse" /\ todo = <<>>
    <3>1. Sparsing
      BY <2>4, WhichPhase
    <3>2. pend = <<>>
      BY <1>3, <2>4, <3>1 DEF Sparsing
    <3> QED
      BY <2>2, <2>4, <3>1, <3>2 DEF Sparsing, Rewritten
  <2>5. CASE phase = "reuse" /\ todo = <<>>
    <3>1. Reusing
      BY <2>5, WhichPhase
    <3>2. pend = <<>> /\ pos = 0 /\ Early
      BY <2>5, <3>1 DEF Reusing
    <3>3. PICK k \in Nat : Covers(base, cand, todo, k, Len(cand)) /\ Covers(base, cand, made, 0, k + pos - Len(pend))
      BY <3>1 DEF Reusing
    <3>4. k + pos - Len(pend) = k
      BY <3>2
    <3> QED
      BY <2>2, <2>5, <3>2, <3>3, <3>4
  <2> QED
    BY <2>1, <2>3, <2>4, <2>5 DEF EndPass
<1>5. PICK k \in Nat : Covers(base, cand, made, 0, k) /\ Spells(pend, k) /\ k + Len(pend) = Len(cand)
  BY <1>4
<1>6. Flush(made, pend) \in Seq(OpsOf(version)) /\ Covers(base, cand, Flush(made, pend), 0, k + Len(pend))
  <2>1. k + Len(pend) <= Len(cand) /\ \A i \in 1..Len(pend) : pend[i] = cand[k + i]
    BY <1>5 DEF Spells
  <2> QED
    BY <1>3, <1>5, <2>1, FlushKept
<1>7. Covers(base, cand, Flush(made, pend), 0, Len(cand)) /\ Covers(base, cand, <<>>, 0, 0)
  BY <1>5, <1>6, NoOps
<1>8. <<>> \in Seq(OpsOf(version)) /\ <<>> \in Seq(Whole(version)) /\ <<>> \in Seq(Bytes) /\ 0 \in Nat
  OBVIOUS
<1>9. Wellformed'
  BY <1>1, <1>2, <1>6, <1>8 DEF Wellformed
<1>10. Rewritten(0)'
  BY <1>2, <1>7 DEF Rewritten
<1>11. Early'
  BY <1>2, <1>4 DEF Early
<1>12. Coalescing'
  BY <1>2, <1>8, <1>10, <1>11 DEF Coalescing
<1> QED
  BY <1>9, <1>12 DEF DeltaInv

LEMMA SeqWith ==
    ASSUME NEW S, NEW s \in Seq(S), NEW i, NEW x \in S
    PROVE  [s EXCEPT ![i] = x] \in Seq(S)
<1>1. s \in [1..Len(s) -> S] /\ Len(s) \in Nat
  OBVIOUS
<1>2. PICK n : n = Len(s)
  OBVIOUS
<1>3. PICK t : t = [s EXCEPT ![i] = x]
  OBVIOUS
<1>4. t \in [1..n -> S] /\ n \in Nat
  BY <1>1, <1>2, <1>3, Zenon
<1>5. t \in Seq(S)
  BY <1>4
<1> QED
  BY <1>3, <1>5

(* Empty ops go, neighbours of a kind are joined.                          *)
LEMMA CoalesceOpKeeps ==
    ASSUME DeltaInv, CoalesceOp
    PROVE  DeltaInv'
<1>1. Wellformed /\ Coalescing
  BY WhichPhase DEF CoalesceOp
<1>2. PICK op : op = Head(todo)
  OBVIOUS
<1>3. PICK n : n = Len(made)
  OBVIOUS
<1>4. /\ todo # <<>> /\ todo' = Tail(todo)
      /\ made' = IF op.len = 0 THEN made
                 ELSE IF n > 0 /\ Joins(made[n], op) THEN [made EXCEPT ![n] = Joined(made[n], op)]
                 ELSE Append(made, op)
  BY <1>2, <1>3 DEF CoalesceOp
<1>5. /\ version' = version /\ base' = base /\ cand' = cand /\ phase' = phase /\ passes' = passes /\ pos' = pos
      /\ basePos' = basePos /\ pend' = pend /\ mat' = mat /\ delta' = delta /\ rest' = rest /\ built' = built
      /\ summary' = summary
  BY DEF CoalesceOp, subjectVars, codeVars
<1>6. /\ version \in Nat /\ todo \in Seq(OpsOf(version)) /\ todo \in Seq(Ops)
      /\ made \in Seq(Whole(version)) /\ made \in Seq(Ops) /\ n \in Nat
  BY <1>1, <1>3, SeqOfOps DEF Wellformed, Coalescing
<1>7. op \in OpsOf(version) /\ op \in Ops /\ op.len \in Nat /\ Tail(todo) \in Seq(OpsOf(version))
  <2>1. op \in OpsOf(version) /\ Tail(todo) \in Seq(OpsOf(version))
    BY <1>2, <1>4, <1>6
  <2> QED
    BY <2>1 DEF OpsOf, Ops
<1>8. PICK k \in Nat : Covers(base, cand, made, 0, k) /\ Covers(base, cand, todo, k, Len(cand))
  BY <1>1 DEF Coalescing, Rewritten
<1>9. Fits(base, cand, op, k) /\ Covers(base, cand, Tail(todo), k + op.len, Len(cand))
  BY <1>2, <1>4, <1>6, <1>8, FirstOf
<1>10. made' \in Seq(Whole(version)) /\ Covers(base, cand, made', 0, k + op.len)
  <2>1. CASE op.len = 0
    <3>1. made' = made /\ k + op.len = k
      BY <1>4, <2>1
    <3> QED
      BY <1>6, <1>8, <3>1
  <2>2. CASE op.len # 0 /\ n > 0 /\ Joins(made[n], op)
    <3>1. PICK prior : prior = made[n]
      OBVIOUS
    <3>2. prior \in Whole(version) /\ prior \in Ops /\ prior.len \in Nat /\ made # <<>>
      <4>1. n \in 1..Len(made)
        BY <1>3, <1>6, <2>2
      <4>2. prior \in Whole(version) /\ made # <<>>
        BY <1>6, <3>1, <4>1
      <4> QED
        BY <4>2 DEF Whole, OpsOf, Ops
    <3>3. PICK at : at = k - prior.len
      OBVIOUS
    <3>4. /\ at \in Nat /\ Fits(base, cand, prior, at)
          /\ \A x \in Ops : Fits(base, cand, x, at) => Covers(base, cand, [made EXCEPT ![n] = x], 0, at + x.len)
      BY <1>3, <1>6, <1>8, <3>1, <3>2, <3>3, LastOf
    <3>5. at + prior.len = k
      BY <3>2, <3>3
    <3>6. PICK one : one = Joined(prior, op)
      OBVIOUS
    <3>7. one \in Ops /\ one.len = prior.len + op.len /\ Fits(base, cand, one, at)
      <4>1. Fits(base, cand, op, at + prior.len) /\ Joins(prior, op)
        BY <1>9, <2>2, <3>1, <3>5
      <4> QED
        BY <1>7, <3>2, <3>4, <3>6, <4>1, JoinedFits
    <3>8. one.kind = prior.kind
      BY <3>2, <3>6 DEF Joined, Ops
    <3>9. one \in Whole(version)
      <4>1. one.kind = "output" => version > 6
        BY <3>2, <3>8 DEF Whole, OpsOf
      <4>2. one.len > 0
        BY <1>7, <2>2, <3>2, <3>7
      <4> QED
        BY <3>7, <4>1, <4>2, OpIs
    <3>10. made' = [made EXCEPT ![n] = one]
      BY <1>4, <2>2, <3>1, <3>6
    <3>11. at + one.len = k + op.len
      BY <1>7, <3>2, <3>4, <3>5, <3>7
    <3>12. [made EXCEPT ![n] = one] \in Seq(Whole(version))
      BY <1>6, <3>9, SeqWith
    <3> QED
      BY <3>4, <3>7, <3>10, <3>11, <3>12
  <2>3. CASE op.len # 0 /\ ~(n > 0 /\ Joins(made[n], op))
    <3>1. made' = Append(made, op) /\ op \in Whole(version)
      <4>1. op.len > 0
        BY <1>7, <2>3
      <4> QED
        BY <1>4, <1>7, <2>3, <4>1 DEF Whole
    <3>2. Covers(base, cand, Append(made, op), 0, k + op.len)
      BY <1>6, <1>7, <1>8, <1>9, OneMore
    <3> QED
      BY <1>6, <3>1, <3>2
  <2> QED
    BY <2>1, <2>2, <2>3
<1>11. made' \in Seq(OpsOf(version)) /\ k + op.len \in Nat
  BY <1>7, <1>8, <1>10, SeqOfOps
<1>12. Wellformed'
  BY <1>1, <1>4, <1>5, <1>7, <1>11 DEF Wellformed
<1>13. Rewritten(k + op.len)'
  BY <1>4, <1>5, <1>9, <1>10 DEF Rewritten
<1>14. Early'
  BY <1>1, <1>5 DEF Early, Coalescing
<1>15. \E j \in Nat : Rewritten(j)'
  BY <1>11, <1>13
<1>16. Coalescing'
  BY <1>1, <1>5, <1>10, <1>14, <1>15 DEF Coalescing
<1> QED
  BY <1>12, <1>16 DEF DeltaInv

LEMMA PassesStep ==
    ASSUME NEW v, NEW p, PassList(p, v)
    PROVE  /\ Head(p) \in {"add", "sparse", "reuse", "encode"}
           /\ Head(p) # "encode" => PassList(Tail(p), v)
           /\ Head(p) = "reuse" => v >= 10 /\ Reuses(p) /\ ~Reuses(Tail(p))
           /\ Reuses(Tail(p)) => Reuses(p)
<1>1. /\ p \in Seq(PassNames) /\ p # <<>> /\ p[Len(p)] = "encode"
      /\ \A i \in 1..Len(p) : p[i] = "reuse" => i = Len(p) - 1 /\ v >= 10
  BY DEF PassList, PassNames
<1>2. PICK n : n = Len(p)
  OBVIOUS
<1>3. n \in Nat \ {0} /\ Head(p) = p[1] /\ Head(p) \in PassNames /\ 1 \in 1..n
  BY <1>1, <1>2
<1>4. PICK t : t = Tail(p)
  OBVIOUS
<1>5. t \in Seq(PassNames) /\ Len(t) = n - 1 /\ \A i \in 1..(n - 1) : t[i] = p[i + 1]
  BY <1>1, <1>2, <1>4
<1>6. ASSUME NEW i \in 1..Len(t), t[i] = "reuse" PROVE i + 1 \in 1..n /\ p[i + 1] = "reuse" /\ i + 1 = n - 1 /\ v >= 10
  <2>1. i + 1 \in 1..n /\ p[i + 1] = "reuse"
    BY <1>3, <1>5, <1>6
  <2> QED
    BY <1>1, <1>2, <2>1
<1>7. Head(p) # "encode" => PassList(t, v)
  <2> SUFFICES ASSUME p[1] # "encode" PROVE PassList(t, v)
    BY <1>3
  <2>1. n # 1
    BY <1>1, <1>2
  <2>2. n - 1 \in 1..(n - 1) /\ (n - 1) + 1 = n
    BY <1>3, <2>1
  <2>3. t[Len(t)] = "encode" /\ t # <<>>
    <3>1. t[n - 1] = p[(n - 1) + 1]
      BY <1>5, <2>2
    <3> QED
      BY <1>1, <1>2, <1>5, <2>2, <3>1
  <2>4. \A i \in 1..Len(t) : t[i] = "reuse" => i = Len(t) - 1 /\ v >= 10
    <3>1. ASSUME NEW i \in 1..Len(t), t[i] = "reuse" PROVE i = Len(t) - 1 /\ v >= 10
      <4>1. i + 1 = n - 1 /\ v >= 10
        BY <1>6, <3>1
      <4> QED
        BY <1>3, <1>5, <4>1
    <3> QED
      BY <3>1
  <2> QED
    BY <1>5, <2>3, <2>4 DEF PassList, PassNames
<1>8. p[1] = "reuse" => v >= 10 /\ Reuses(p) /\ ~Reuses(t)
  <2> SUFFICES ASSUME p[1] = "reuse" PROVE v >= 10 /\ Reuses(p) /\ ~Reuses(t)
    OBVIOUS
  <2>1. 1 = n - 1 /\ v >= 10 /\ Reuses(p)
    BY <1>1, <1>2, <1>3 DEF Reuses
  <2>2. ASSUME NEW i \in 1..Len(t), t[i] = "reuse" PROVE FALSE
    <3>1. i + 1 = n - 1
      BY <1>6, <2>2
    <3> QED
      BY <1>3, <2>1, <3>1
  <2> QED
    BY <2>1, <2>2 DEF Reuses
<1>9. Reuses(t) => Reuses(p)
  BY <1>2, <1>6 DEF Reuses
<1> QED
  BY <1>3, <1>4, <1>7, <1>8, <1>9 DEF PassNames

(* The next pass finds what it needs: no buffer yet, no empty ops to       *)
(* encode, the number of ops written first.                                *)
LEMMA NextPassKeeps ==
    ASSUME DeltaInv, NextPass
    PROVE  DeltaInv'
<1>1. Wellformed /\ Coalescing
  BY WhichPhase DEF NextPass
<1>2. /\ todo = <<>> /\ phase' = Head(passes) /\ passes' = Tail(passes) /\ todo' = made /\ made' = <<>> /\ basePos' = -1
      /\ delta' = IF Head(passes) = "encode" THEN [delta EXCEPT !.control = <<Len(made)>>] ELSE delta
  BY DEF NextPass
<1>3. /\ version' = version /\ base' = base /\ cand' = cand /\ pos' = pos /\ pend' = pend /\ mat' = mat
      /\ rest' = rest /\ built' = built /\ summary' = summary
  BY DEF NextPass, subjectVars, decodeVars
<1>4. /\ version \in Nat /\ made \in Seq(Whole(version)) /\ made \in Seq(OpsOf(version)) /\ Len(cand) \in Nat
      /\ pos = 0 /\ pend = <<>> /\ delta = NoDelta /\ summary = NoBytes /\ built = <<>> /\ Len(made) \in Nat
      /\ cand \in Seq(Bytes)
  BY <1>1 DEF Wellformed, Coalescing, Early
<1>5. PICK k \in Nat : Covers(base, cand, made, 0, k) /\ Covers(base, cand, <<>>, k, Len(cand))
  BY <1>1, <1>2 DEF Coalescing, Rewritten
<1>6. Covers(base, cand, made, 0, Len(cand)) /\ Covers(base, cand, <<>>, 0, 0)
  BY <1>5, NoOpsLeft, NoOps
<1>7. PassList(passes, version) /\ (Reuses(passes) => mat = <<>>)
  BY <1>1 DEF Coalescing, Early
<1>8. /\ Head(passes) \in {"add", "sparse", "reuse", "encode"}
      /\ Head(passes) # "encode" => PassList(Tail(passes), version)
      /\ Head(passes) = "reuse" => version >= 10 /\ Reuses(passes) /\ ~Reuses(Tail(passes))
      /\ Reuses(Tail(passes)) => Reuses(passes)
  BY <1>7, PassesStep
<1>9. <<>> \in Seq(OpsOf(version)) /\ <<>> \in Seq(Whole(version)) /\ -1 \in Int /\ 0 \in Nat
  OBVIOUS
<1>10. Wellformed'
  BY <1>1, <1>2, <1>3, <1>4, <1>9 DEF Wellformed
<1>11. Rewritten(0)'
  BY <1>2, <1>3, <1>6 DEF Rewritten
<1>12. \E j \in Nat : Rewritten(j)'
  BY <1>9, <1>11
<1>13. Head(passes) # "encode" => Early'
  <2> SUFFICES ASSUME Head(passes) # "encode" PROVE Early'
    OBVIOUS
  <2>1. delta' = NoDelta
    BY <1>2, <1>4
  <2> QED
    BY <1>2, <1>3, <1>4, <1>7, <1>8, <2>1 DEF Early
<1>14. CASE Head(passes) = "add"
  <2>1. Adding'
    BY <1>2, <1>3, <1>4, <1>12, <1>13, <1>14 DEF Adding
  <2> QED
    BY <1>10, <2>1 DEF DeltaInv
<1>15. CASE Head(passes) = "sparse"
  <2>1. pos' = 0 /\ pend' = <<>> /\ ~(pos' > 0)
    BY <1>3, <1>4
  <2>2. Sparsing'
    BY <1>2, <1>12, <1>13, <1>15, <2>1 DEF Sparsing
  <2> QED
    BY <1>10, <2>2 DEF DeltaInv
<1>16. CASE Head(passes) = "reuse"
  <2>1. pos' = 0 /\ pend' = <<>> /\ mat' = <<>> /\ ~Reuses(passes') /\ version' >= 10
    BY <1>2, <1>3, <1>4, <1>7, <1>8, <1>16
  <2>2. Len(<<>>) = 0 /\ 1..0 = {} /\ 0 + 0 = 0 /\ 0 + 0 - 0 = 0
    OBVIOUS
  <2>3. Slice(cand, 0, 0) = <<>> /\ 0 <= Len(cand)
    BY <1>4, SliceNone
  <2>4. Shift' = 0
    BY <2>1 DEF Shift
  <2>5. todo' # <<>> => Cutting(Head(todo))'
    <3> SUFFICES ASSUME todo' # <<>> PROVE Cutting(Head(todo))'
      OBVIOUS
    <3>1. Head(todo').len \in Nat
      <4>1. Head(todo') \in OpsOf(version)
        BY <1>2, <1>4
      <4> QED
        BY <4>1 DEF OpsOf, Ops
    <3> QED
      BY <2>1, <2>2, <3>1 DEF Cutting
  <2>6. Covers(base', cand', todo', 0, Len(cand')) /\ Covers(base', cand', made', 0, 0 + pos' - Len(pend'))
    BY <1>2, <1>3, <1>6, <2>1, <2>2
  <2>7. 0 + Shift' <= Len(cand') /\ mat' = Slice(cand', 0, 0 + Shift')
    BY <1>3, <2>1, <2>2, <2>3, <2>4
  <2>8. Reusing'
    BY <1>2, <1>9, <1>13, <1>16, <2>1, <2>5, <2>6, <2>7 DEF Reusing
  <2> QED
    BY <1>10, <2>8 DEF DeltaInv
<1>17. CASE Head(passes) = "encode"
  <2>1. delta' = [magic |-> 0, control |-> <<Len(made)>>, inserts |-> <<>>, adds |-> <<>>, transform |-> "raw", dictionary |-> <<>>]
    BY <1>2, <1>4, <1>17 DEF NoDelta
  <2>2. /\ <<Len(made)>> \in Seq(Items) /\ <<Len(made)>> # <<>> /\ Head(<<Len(made)>>) = Len(made) /\ Tail(<<Len(made)>>) = <<>>
        /\ <<>> \in Seq(Items) /\ <<>> \in Seq(Bytes)
    <3>1. Len(made) \in Items
      BY <1>4 DEF Items
    <3> QED
      BY <3>1
  <2>3. /\ delta' \in [magic : Nat, control : Seq(Items), inserts : Seq(Items), adds : Seq(Items), transform : {"raw"}, dictionary : {<<>>}]
        /\ delta'.control = <<Len(made)>> /\ delta'.inserts = <<>> /\ delta'.adds = <<>>
    BY <2>1, <2>2
  <2>4. Holds(version, "control", <<>>, <<>>) /\ Holds(version, "inserts", <<>>, <<>>) /\ Holds(version, "adds", <<>>, <<>>)
    BY HoldsNone
  <2>5. Books' /\ Counted' = 0
    BY <1>3, <1>4 DEF Books, Counted, NoBytes
  <2>6. \E j \in Nat : Rewritten(j)' /\ Counted' = j
    BY <1>9, <1>11, <2>5
  <2>7. Len(made) = Len(<<>>) + Len(made)
    BY <1>4
  <2>8. Encoding'
    BY <1>2, <1>3, <1>4, <1>9, <1>17, <2>2, <2>3, <2>4, <2>5, <2>6, <2>7 DEF Encoding
  <2> QED
    BY <1>10, <2>8 DEF DeltaInv
<1> QED
  BY <1>8, <1>14, <1>15, <1>16, <1>17

-----------------------------------------------------------------------------
(* The add pass takes one op after the other.                              *)

(* The op at the head of todo, and what is left without it.                *)
LEMMA HeadFits ==
    ASSUME Wellformed, todo # <<>>, NEW k \in Nat, Covers(base, cand, todo, k, Len(cand))
    PROVE  /\ Head(todo) \in OpsOf(version) /\ Head(todo) \in Ops /\ Head(todo).len \in Nat /\ Head(todo).off \in Nat
           /\ Head(todo).lit \in Seq(Bytes) /\ k + Head(todo).len \in Nat
           /\ Fits(base, cand, Head(todo), k) /\ Tail(todo) \in Seq(OpsOf(version))
           /\ Covers(base, cand, Tail(todo), k + Head(todo).len, Len(cand))
           /\ k + Head(todo).len <= Len(cand)
<1>1. todo \in Seq(OpsOf(version)) /\ todo \in Seq(Ops)
  BY SeqOfOps DEF Wellformed
<1>2. Head(todo) \in OpsOf(version) /\ Tail(todo) \in Seq(OpsOf(version))
  BY <1>1
<1>3. PICK op : op = Head(todo)
  OBVIOUS
<1>4. op \in Ops /\ op.len \in Nat /\ op.off \in Nat /\ op.lit \in Seq(Bytes)
  BY <1>2, <1>3 DEF OpsOf, Ops
<1>5. Fits(base, cand, op, k) /\ Covers(base, cand, Tail(todo), k + op.len, Len(cand))
  BY <1>1, <1>3, FirstOf
<1>6. k + op.len \in Nat /\ k + op.len <= Len(cand)
  BY <1>4, <1>5, FitsInside
<1> QED
  BY <1>2, <1>3, <1>4, <1>5, <1>6

(* An op that fits in the place of the head may be made of it.             *)
LEMMA TakeOne ==
    ASSUME Wellformed, todo # <<>>, NEW k \in Nat, Covers(base, cand, made, 0, k), Covers(base, cand, todo, k, Len(cand)),
           NEW op \in Ops, op.len = Head(todo).len, Fits(base, cand, op, k), op.kind = "output" => version > 6
    PROVE  /\ Append(made, op) \in Seq(OpsOf(version))
           /\ Covers(base, cand, Append(made, op), 0, k + Head(todo).len)
<1>1. made \in Seq(OpsOf(version)) /\ made \in Seq(Ops)
  BY SeqOfOps DEF Wellformed
<1>2. op \in OpsOf(version)
  BY OpIs
<1>3. Covers(base, cand, Append(made, op), 0, k + op.len)
  BY <1>1, OneMore
<1> QED
  BY <1>1, <1>2, <1>3

(* An insert may become an add.                                            *)
LEMMA AddOpKeeps ==
    ASSUME DeltaInv, AddOp
    PROVE  DeltaInv'
<1>1. Wellformed /\ Adding
  BY WhichPhase DEF AddOp
<1>2. PICK op : op = Head(todo)
  OBVIOUS
<1>3. /\ todo # <<>> /\ todo' = Tail(todo) /\ pos' = pos + op.len
      /\ basePos' = IF op.kind = "copy" THEN op.off + op.len ELSE basePos
      /\ version' = version /\ base' = base /\ cand' = cand /\ phase' = phase /\ passes' = passes
      /\ pend' = pend /\ mat' = mat /\ delta' = delta /\ rest' = rest /\ built' = built /\ summary' = summary
  BY <1>2 DEF AddOp, subjectVars, codeVars
<1>4. PICK k \in Nat : Covers(base, cand, made, 0, k) /\ Covers(base, cand, todo, k, Len(cand))
  BY <1>1 DEF Adding, Rewritten
<1>5. /\ op \in OpsOf(version) /\ op \in Ops /\ op.len \in Nat /\ op.off \in Nat /\ op.lit \in Seq(Bytes) /\ k + op.len \in Nat
      /\ Fits(base, cand, op, k) /\ Tail(todo) \in Seq(OpsOf(version))
      /\ Covers(base, cand, Tail(todo), k + op.len, Len(cand))
  BY <1>1, <1>2, <1>3, <1>4, HeadFits
<1>6. made' \in Seq(OpsOf(version)) /\ Covers(base, cand, made', 0, k + op.len)
  <2>1. \/ made' = Append(made, op)
        \/ /\ op.kind = "insert"
           /\ \E o \in AddOffsets(op.len) : made' = Append(made, Add(o, AddDiff(Slice(base, o, op.len), op.lit)))
    BY <1>2 DEF AddOp
  <2>2. CASE made' = Append(made, op)
    <3>1. op.kind = "output" => version > 6
      BY <1>5 DEF OpsOf
    <3> QED
      BY <1>1, <1>2, <1>3, <1>4, <1>5, <2>2, <3>1, TakeOne
  <2>3. ASSUME NEW o \in AddOffsets(op.len), op.kind = "insert",
               made' = Append(made, Add(o, AddDiff(Slice(base, o, op.len), op.lit)))
        PROVE  made' \in Seq(OpsOf(version)) /\ Covers(base, cand, made', 0, k + op.len)
    <3>1. base \in Seq(Bytes) /\ cand \in Seq(Bytes) /\ Len(base) \in Nat
      BY <1>1 DEF Wellformed
    <3>2. o \in Nat /\ o + op.len <= Len(base)
      <4>1. o \in 0..(Len(base) - op.len)
        BY <2>3 DEF AddOffsets
      <4> QED
        BY <1>5, <3>1, <4>1
    <3>3. PICK add : add = Add(o, AddDiff(Slice(base, o, op.len), op.lit))
      OBVIOUS
    <3>4. add \in Ops /\ add.len = op.len /\ Fits(base, cand, add, k)
      BY <1>4, <1>5, <2>3, <3>1, <3>2, <3>3, DiffFits
    <3>5. add.kind # "output"
      BY <3>3 DEF Add, Op
    <3>6. made' = Append(made, add)
      BY <2>3, <3>3
    <3>7. Append(made, add) \in Seq(OpsOf(version)) /\ Covers(base, cand, Append(made, add), 0, k + op.len)
      BY <1>1, <1>2, <1>3, <1>4, <3>4, <3>5, TakeOne
    <3> QED
      BY <3>6, <3>7
  <2> QED
    BY <2>1, <2>2, <2>3
<1>7. pos' \in Nat /\ basePos' \in Int
  <2>1. pos \in Nat /\ basePos \in Int
    BY <1>1 DEF Wellformed
  <2>2. op.len \in Nat /\ op.off \in Nat
    BY <1>5
  <2>3. pos' = pos + op.len /\ basePos' = IF op.kind = "copy" THEN op.off + op.len ELSE basePos
    BY <1>3
  <2> QED
    BY <2>1, <2>2, <2>3
<1>8. Wellformed'
  BY <1>1, <1>3, <1>5, <1>6, <1>7 DEF Wellformed
<1>9. Rewritten(k + op.len)'
  BY <1>3, <1>5, <1>6 DEF Rewritten
<1>10. \E j \in Nat : Rewritten(j)'
  BY <1>5, <1>9
<1>11. Early'
  BY <1>1, <1>3 DEF Early, Adding
<1>12. Adding'
  BY <1>1, <1>3, <1>10, <1>11 DEF Adding
<1> QED
  BY <1>8, <1>12 DEF DeltaInv

-----------------------------------------------------------------------------
(* The sparse pass.                                                        *)
LEMMA SparseKeepKeeps ==
    ASSUME DeltaInv, SparseKeep
    PROVE  DeltaInv'
<1>1. Wellformed /\ Sparsing
  BY WhichPhase DEF SparseKeep
<1>2. PICK op : op = Head(todo)
  OBVIOUS
<1>3. /\ todo # <<>> /\ todo' = Tail(todo) /\ made' = Append(made, op) /\ pos = 0 /\ basePos' = basePos
      /\ version' = version /\ base' = base /\ cand' = cand /\ phase' = phase /\ passes' = passes /\ pos' = pos
      /\ pend' = pend /\ mat' = mat /\ delta' = delta /\ rest' = rest /\ built' = built /\ summary' = summary
  BY <1>2 DEF SparseKeep, subjectVars, codeVars
<1>4. PICK k \in Nat : Covers(base, cand, made, 0, k) /\ Covers(base, cand, todo, k, Len(cand))
  BY <1>1 DEF Sparsing, Rewritten
<1>5. /\ op \in OpsOf(version) /\ op \in Ops /\ op.len \in Nat /\ k + op.len \in Nat
      /\ Fits(base, cand, op, k) /\ Tail(todo) \in Seq(OpsOf(version))
      /\ Covers(base, cand, Tail(todo), k + op.len, Len(cand))
  BY <1>1, <1>2, <1>3, <1>4, HeadFits
<1>6. Append(made, op) \in Seq(OpsOf(version)) /\ Covers(base, cand, Append(made, op), 0, k + op.len)
  <2>1. op.kind = "output" => version > 6
    BY <1>5 DEF OpsOf
  <2> QED
    BY <1>1, <1>2, <1>3, <1>4, <1>5, <2>1, TakeOne
<1>7. Wellformed'
  BY <1>1, <1>3, <1>5, <1>6 DEF Wellformed
<1>8. Rewritten(k + op.len)'
  BY <1>3, <1>5, <1>6 DEF Rewritten
<1>9. \E j \in Nat : Rewritten(j)'
  BY <1>5, <1>8
<1>10. Early'
  BY <1>1, <1>3 DEF Early, Sparsing
<1>11. Sparsing'
  BY <1>1, <1>3, <1>9, <1>10 DEF Sparsing
<1> QED
  BY <1>7, <1>11 DEF DeltaInv

LEMMA SparseKeepAllKeeps ==
    ASSUME DeltaInv, SparseKeepAll
    PROVE  DeltaInv'
<1>1. Wellformed /\ Sparsing
  BY WhichPhase DEF SparseKeepAll
<1>2. /\ made = <<>> /\ pos = 0 /\ made' = todo /\ todo' = <<>> /\ basePos' = basePos
      /\ version' = version /\ base' = base /\ cand' = cand /\ phase' = phase /\ passes' = passes /\ pos' = pos
      /\ pend' = pend /\ mat' = mat /\ delta' = delta /\ rest' = rest /\ built' = built /\ summary' = summary
  BY DEF SparseKeepAll, subjectVars, codeVars
<1>3. PICK k \in Nat : Covers(base, cand, made, 0, k) /\ Covers(base, cand, todo, k, Len(cand))
  BY <1>1 DEF Sparsing, Rewritten
<1>4. Len(cand) \in Nat /\ todo \in Seq(OpsOf(version)) /\ <<>> \in Seq(OpsOf(version))
  BY <1>1 DEF Wellformed
<1>5. k = 0
  BY <1>2, <1>3, NoOpsLeft
<1>6. Covers(base, cand, todo, 0, Len(cand)) /\ Covers(base, cand, <<>>, Len(cand), Len(cand))
  BY <1>3, <1>4, <1>5, NoOps
<1>7. Wellformed'
  BY <1>1, <1>2, <1>4 DEF Wellformed
<1>9. \E j \in Nat : Rewritten(j)'
  <2>1. PICK n : n = Len(cand)
    OBVIOUS
  <2>2. Rewritten(n)' /\ n \in Nat
    <3>1. Covers(base, cand, todo, 0, n) /\ Covers(base, cand, <<>>, n, Len(cand))
      BY <1>6, <2>1
    <3> QED
      BY <1>2, <1>4, <2>1, <3>1 DEF Rewritten
  <2> QED
    BY <2>2
<1>10. Early'
  BY <1>1, <1>2 DEF Early, Sparsing
<1>11. Sparsing'
  BY <1>1, <1>2, <1>9, <1>10 DEF Sparsing
<1> QED
  BY <1>7, <1>11 DEF DeltaInv

(* The add whose payload is being written.                                 *)
LEMMA SparseHead ==
    ASSUME Wellformed, Sparsing, todo # <<>>, CanBeSparse(Head(todo)),
           NEW k \in Nat, Covers(base, cand, todo, k, Len(cand))
    PROVE  LET op == Head(todo) IN
           /\ Payload(op.lit, pend, pos) /\ op.kind = "add" /\ Len(op.lit) = op.len /\ op.off + op.len <= Len(base)
           /\ 0..Len(op.lit) \subseteq Offsets
           /\ \A i \in 1..op.len : (base[op.off + i] + op.lit[i]) % ByteValues = cand[k + i]
<1>1. PICK op : op = Head(todo)
  OBVIOUS
<1>2. op \in Ops /\ op.len \in Nat /\ op.off \in Nat /\ op.lit \in Seq(Bytes) /\ Fits(base, cand, op, k)
  BY <1>1, HeadFits
<1>3. op.kind = "add"
  BY <1>1 DEF CanBeSparse
<1>4. Len(op.lit) = op.len /\ op.off + op.len <= Len(base)
  BY <1>2, <1>3 DEF Fits
<1>5. \A i \in 1..op.len : (base[op.off + i] + op.lit[i]) % ByteValues = cand[k + i]
  BY <1>2, <1>3 DEF Fits
<1>6. 0..Len(op.lit) \subseteq Offsets
  <2>1. base \in Bases /\ base \in Seq(Bytes)
    BY DEF Wellformed
  <2>2. 0..Len(base) \subseteq Offsets
    BY <2>1 DEF Offsets
  <2>3. Len(op.lit) <= Len(base) /\ Len(base) \in Nat /\ Len(op.lit) \in Nat
    BY <1>2, <1>4, <2>1
  <2>4. 0..Len(op.lit) \subseteq 0..Len(base)
    BY <2>3
  <2> QED
    BY <2>2, <2>4
<1>7. Payload(op.lit, pend, pos)
  <2>1. CASE pos = 0
    <3>1. pend = <<>>
      BY <2>1 DEF Sparsing
    <3> QED
      BY <1>2, <2>1, <3>1, PayloadNone
  <2>2. CASE pos # 0
    <3>1. pos > 0
      BY <2>2 DEF Wellformed
    <3> QED
      BY <1>1, <3>1 DEF Sparsing
  <2> QED
    BY <2>1, <2>2
<1> QED
  BY <1>1, <1>3, <1>4, <1>5, <1>6, <1>7

(* The payload gets the next run that is not zero.                         *)
LEMMA SparseRunKeeps ==
    ASSUME DeltaInv, SparseRun
    PROVE  DeltaInv'
<1>1. Wellformed /\ Sparsing
  BY WhichPhase DEF SparseRun
<1>2. PICK op : op = Head(todo)
  OBVIOUS
<1>3. PICK diff : diff = op.lit
  OBVIOUS
<1>4. PICK start : start = Min(NonZero(diff, pos))
  OBVIOUS
<1>5. PICK end : end = Min({j \in start..Len(diff) : j = Len(diff) \/ diff[j + 1] = 0})
  OBVIOUS
<1>6. /\ todo # <<>> /\ CanBeSparse(op) /\ NonZero(diff, pos) # {}
      /\ pend' = pend \o Uvarint(start) \o Uvarint(end - start) \o Slice(diff, start, end - start) /\ pos' = end
  BY <1>2, <1>3, <1>4, <1>5 DEF SparseRun
<1>7. /\ version' = version /\ base' = base /\ cand' = cand /\ phase' = phase /\ passes' = passes /\ basePos' = basePos
      /\ todo' = todo /\ made' = made /\ mat' = mat /\ delta' = delta /\ rest' = rest /\ built' = built /\ summary' = summary
  BY DEF SparseRun, subjectVars, codeVars
<1>8. PICK k \in Nat : Covers(base, cand, made, 0, k) /\ Covers(base, cand, todo, k, Len(cand))
  BY <1>1 DEF Sparsing, Rewritten
<1>9. Payload(diff, pend, pos) /\ 0..Len(diff) \subseteq Offsets
  BY <1>1, <1>2, <1>3, <1>6, <1>8, SparseHead
<1>10. diff \in Seq(Bytes)
  BY <1>1, <1>2, <1>3, <1>6, <1>8, HeadFits
<1>11. pos \in Nat /\ pos <= Len(diff) /\ Len(diff) \in Nat
  BY <1>9, <1>10 DEF Payload
<1>12. start \in NonZero(diff, pos) /\ \A j \in NonZero(diff, pos) : start <= j
  <2>1. NonZero(diff, pos) \subseteq Nat
    BY <1>11 DEF NonZero
  <2> QED
    BY <1>4, <1>6, <2>1, MinIs
<1>13. start \in pos..(Len(diff) - 1) /\ diff[start + 1] # 0 /\ start \in Nat
  BY <1>11, <1>12 DEF NonZero
<1>14. end \in start..Len(diff) /\ (end = Len(diff) \/ diff[end + 1] = 0)
  <2> DEFINE ends == {j \in start..Len(diff) : j = Len(diff) \/ diff[j + 1] = 0}
  <2>1. ends \subseteq Nat /\ Len(diff) \in ends
    BY <1>11, <1>13
  <2>2. Min(ends) \in ends
    <3> HIDE DEF ends
    <3> QED
      BY <2>1, MinIs
  <2> QED
    BY <1>5, <2>2
<1>15. end \in Nat /\ end > 0 /\ end # start
  <2>1. end # start
    BY <1>11, <1>13, <1>14
  <2> QED
    BY <1>11, <1>13, <1>14, <2>1
<1>16. \A i \in 1..start : i > pos => diff[i] = 0
  <2> SUFFICES ASSUME NEW i \in 1..start, i > pos, diff[i] # 0 PROVE FALSE
    OBVIOUS
  <2>1. PICK j : j = i - 1
    OBVIOUS
  <2>2. j \in pos..(Len(diff) - 1) /\ j + 1 = i /\ j < start
    BY <1>11, <1>13, <2>1
  <2>3. j \in NonZero(diff, pos)
    BY <2>2 DEF NonZero
  <2>4. start <= j
    BY <1>12, <2>3
  <2> QED
    BY <1>13, <2>2, <2>4
<1>17. Payload(diff, pend', end)
  BY <1>6, <1>9, <1>10, <1>13, <1>14, <1>16, PayloadRun
<1>18. pend' \in Seq(Bytes)
  BY <1>17 DEF Payload
<1>19. Wellformed'
  BY <1>1, <1>6, <1>7, <1>15, <1>18 DEF Wellformed
<1>20. Rewritten(k)'
  BY <1>7, <1>8 DEF Rewritten
<1>21. Early'
  BY <1>1, <1>7 DEF Early, Sparsing
<1>22. pos' > 0 /\ pos' # 0 /\ CanBeSparse(op)' /\ op = Head(todo') /\ Payload(Head(todo').lit, pend', pos')
  BY <1>2, <1>3, <1>6, <1>7, <1>15, <1>17 DEF CanBeSparse
<1>23. \E j \in Nat : Rewritten(j)'
  BY <1>20
<1>24. Sparsing'
  BY <1>1, <1>6, <1>7, <1>21, <1>22, <1>23 DEF Sparsing
<1> QED
  BY <1>19, <1>24 DEF DeltaInv

(* The add becomes sparse, or a copy where it has no difference.           *)
LEMMA SparseEndKeeps ==
    ASSUME DeltaInv, SparseEnd
    PROVE  DeltaInv'
<1>1. Wellformed /\ Sparsing
  BY WhichPhase DEF SparseEnd
<1>2. PICK op : op = Head(todo)
  OBVIOUS
<1>3. PICK new : new = IF pend = <<>> THEN Copy(op.off, op.len) ELSE Op("sparse", op.off, op.len, pend)
  OBVIOUS
<1>4. /\ todo # <<>> /\ CanBeSparse(op) /\ NonZero(op.lit, pos) = {} /\ made' = Append(made, new)
      /\ todo' = Tail(todo) /\ pend' = <<>> /\ pos' = 0
      /\ version' = version /\ base' = base /\ cand' = cand /\ phase' = phase /\ passes' = passes /\ basePos' = basePos
      /\ mat' = mat /\ delta' = delta /\ rest' = rest /\ built' = built /\ summary' = summary
  BY <1>2, <1>3 DEF SparseEnd, subjectVars, codeVars
<1>5. PICK k \in Nat : Covers(base, cand, made, 0, k) /\ Covers(base, cand, todo, k, Len(cand))
  BY <1>1 DEF Sparsing, Rewritten
<1>6. /\ op \in Ops /\ op.len \in Nat /\ op.off \in Nat /\ op.lit \in Seq(Bytes) /\ k + op.len \in Nat
      /\ Tail(todo) \in Seq(OpsOf(version)) /\ Covers(base, cand, Tail(todo), k + op.len, Len(cand))
      /\ k + op.len <= Len(cand)
  BY <1>1, <1>2, <1>4, <1>5, HeadFits
<1>7. /\ Payload(op.lit, pend, pos) /\ Len(op.lit) = op.len /\ op.off + op.len <= Len(base)
      /\ \A i \in 1..op.len : (base[op.off + i] + op.lit[i]) % ByteValues = cand[k + i]
  BY <1>1, <1>2, <1>4, <1>5, SparseHead
<1>8. base \in Seq(Bytes) /\ pend \in Seq(Bytes)
  BY <1>1 DEF Wellformed
<1>9. PICK s : s = Slice(base, op.off, op.len)
  OBVIOUS
<1>10. s \in Seq(Bytes) /\ Len(s) = op.len /\ \A i \in 1..op.len : s[i] = base[op.off + i]
  <2>1. PICK o, n : o = op.off /\ n = op.len
    OBVIOUS
  <2>2. o \in Nat /\ n \in Nat /\ o + n <= Len(base)
    BY <1>6, <1>7, <2>1
  <2>3. s = Slice(base, o, n)
    BY <1>9, <2>1
  <2>4. s \in Seq(Bytes) /\ Len(s) = n /\ \A i \in 1..n : s[i] = base[o + i]
    BY <1>8, <2>2, <2>3, ByteSlice
  <2> QED
    BY <2>1, <2>4
<1>11. /\ pend # <<>> => /\ SparseFits(pend, op.len)
                         /\ \A i \in 1..op.len : ApplySparse(s, pend)[i] = (s[i] + op.lit[i]) % ByteValues
       /\ pend = <<>> => \A i \in 1..op.len : s[i] = (s[i] + op.lit[i]) % ByteValues
  <2>1. /\ pend # <<>> => /\ SparseFits(pend, Len(op.lit))
                          /\ \A i \in 1..Len(op.lit) : ApplySparse(s, pend)[i] = (s[i] + op.lit[i]) % ByteValues
        /\ pend = <<>> => \A i \in 1..Len(op.lit) : s[i] = (s[i] + op.lit[i]) % ByteValues
    <3>1. op.lit \in Seq(Bytes) /\ Payload(op.lit, pend, pos) /\ NonZero(op.lit, pos) = {}
      BY <1>4, <1>6, <1>7
    <3>2. s \in Seq(Bytes) /\ Len(s) = Len(op.lit)
      BY <1>7, <1>10
    <3> QED
      BY <3>1, <3>2, PayloadEnd
  <2> QED
    BY <1>7, <2>1
<1>12. \A i \in 1..op.len : (s[i] + op.lit[i]) % ByteValues = cand[k + i]
  BY <1>7, <1>10
<1>13. new \in Ops /\ new.len = op.len /\ Fits(base, cand, new, k) /\ new.kind # "output"
  <2>1. CASE pend = <<>>
    <3>1. \A i \in 1..op.len : base[op.off + i] = cand[k + i]
      BY <1>10, <1>11, <1>12, <2>1
    <3>2. new = Copy(op.off, op.len)
      BY <1>3, <2>1
    <3>3. new \in Ops /\ new.len = op.len /\ Fits(base, cand, new, k)
      <4>1. PICK o, n : o = op.off /\ n = op.len
        OBVIOUS
      <4>2. o \in Nat /\ n \in Nat /\ o + n <= Len(base) /\ k + n <= Len(cand) /\ \A i \in 1..n : base[o + i] = cand[k + i]
        BY <1>6, <1>7, <3>1, <4>1
      <4>3. Copy(o, n) \in Ops /\ Copy(o, n).len = n /\ Fits(base, cand, Copy(o, n), k)
        BY <4>2, CopyFits
      <4> QED
        BY <3>2, <4>1, <4>3
    <3>4. new.kind = "copy"
      BY <3>2 DEF Copy, Op
    <3> QED
      BY <3>3, <3>4
  <2>2. CASE pend # <<>>
    <3>1. /\ new.kind = "sparse" /\ new.off = op.off /\ new.len = op.len /\ new.lit = pend /\ new \in Ops
      BY <1>3, <1>6, <1>8, <2>2 DEF Op, Ops, Kinds
    <3>2. \A i \in 1..op.len : ApplySparse(s, pend)[i] = cand[k + i]
      BY <1>11, <1>12, <2>2
    <3>3. SparseFits(pend, op.len)
      BY <1>11, <2>2
    <3>4. Fits(base, cand, new, k)
      BY <1>6, <1>7, <1>9, <2>2, <3>1, <3>2, <3>3 DEF Fits
    <3> QED
      BY <3>1, <3>4
  <2> QED
    BY <2>1, <2>2
<1>14. Append(made, new) \in Seq(OpsOf(version)) /\ Covers(base, cand, Append(made, new), 0, k + op.len)
  BY <1>1, <1>2, <1>4, <1>5, <1>13, TakeOne
<1>15. <<>> \in Seq(Bytes) /\ 0 \in Nat /\ ~(0 > 0)
  OBVIOUS
<1>16. Wellformed'
  BY <1>1, <1>4, <1>6, <1>14, <1>15 DEF Wellformed
<1>17. Rewritten(k + op.len)'
  BY <1>4, <1>6, <1>14 DEF Rewritten
<1>18. \E j \in Nat : Rewritten(j)'
  BY <1>6, <1>17
<1>19. Early'
  BY <1>1, <1>4 DEF Early, Sparsing
<1>20. Sparsing'
  BY <1>1, <1>4, <1>15, <1>18, <1>19 DEF Sparsing
<1> QED
  BY <1>16, <1>20 DEF DeltaInv

-----------------------------------------------------------------------------
(* The output-copy pass.                                                   *)

(* An output copy refers to bytes that were produced and are those wanted. *)
LEMMA ReusedIs ==
    ASSUME NEW data \in Seq(Bytes), NEW bytes \in Seq(Bytes), NEW i \in 0..Len(bytes), Reused(data, bytes, i) # Unset
    PROVE  LET f == Reused(data, bytes, i) IN
           /\ f.at \in Nat /\ f.len \in Nat /\ f.at + f.len <= Len(data) /\ i + f.len <= Len(bytes)
           /\ \A x \in 1..f.len : data[f.at + x] = bytes[i + x]
<1> DEFINE hits == IF Len(data) < MinReuse \/ Len(bytes) - i < MinReuse THEN {} ELSE Hits(data, bytes, i)
           kept == IF version = 10 THEN Lowest(hits, MaxOffsets) ELSE Highest(hits, MaxOffsets)
           best == Longest(kept, data, bytes, i)
           at == IF version = 10 THEN Min(best.at) ELSE Max(best.at)
<1>1. hits \subseteq 0..Len(data) /\ Len(data) \in Nat
  BY HitsInside
<1> HIDE DEF hits
<1>2. kept \subseteq 0..Len(data)
  BY <1>1 DEF Lowest, Highest
<1>3. kept # {} /\ Reused(data, bytes, i) = [len |-> best.len, at |-> at]
  BY DEF Reused, hits
<1> HIDE DEF kept
<1>4. /\ best.at \subseteq kept /\ best.at # {} /\ best.at \subseteq Nat
      /\ \A o \in best.at : best.len = CommonPrefix(data, o, bytes, i)
  BY <1>2, <1>3, LongestIs, ZenonT(30)
<1> HIDE DEF best
<1>5. at \in best.at
  <2>1. PICK S : S = best.at
    OBVIOUS
  <2>2. Min(S) \in S
    BY <1>4, <2>1, MinIs
  <2>3. Max(S) \in S
    <3>1. \A x \in S : x <= Len(data)
      BY <1>1, <1>2, <1>4, <2>1
    <3> QED
      BY <1>1, <1>4, <2>1, <3>1, MaxIs
  <2> QED
    BY <2>1, <2>2, <2>3
<1>6. PICK o, n : o = at /\ n = CommonPrefix(data, o, bytes, i)
  OBVIOUS
<1>7. o \in 0..Len(data) /\ best.len = n
  BY <1>2, <1>4, <1>5, <1>6
<1>8. n \in Nat /\ o + n <= Len(data) /\ i + n <= Len(bytes) /\ \A x \in 1..n : data[o + x] = bytes[i + x]
  <2>1. n = CommonPrefix(data, o, bytes, i) /\ o \in 0..Len(data)
    BY <1>6, <1>7
  <2> QED
    BY <2>1, CommonPrefixIs
<1>9. Reused(data, bytes, i).at = o /\ Reused(data, bytes, i).len = n
  BY <1>3, <1>6, <1>7
<1> QED
  BY <1>7, <1>8, <1>9

(* The pending bytes of a literal become an insert or an add of their own. *)
LEMMA CutKept ==
    ASSUME Wellformed, NEW op \in Ops, NEW k \in Nat, Fits(base, cand, op, k), Cutting(op), CanBeCut(op),
           Covers(base, cand, made, 0, k + pos - Len(pend))
    PROVE  Cut(made, op) \in Seq(OpsOf(version)) /\ Covers(base, cand, Cut(made, op), 0, k + pos)
<1>1. /\ made \in Seq(OpsOf(version)) /\ made \in Seq(Ops) /\ pend \in Seq(Bytes) /\ pos \in Nat /\ Len(pend) \in Nat
  BY SeqOfOps DEF Wellformed
<1>2. Len(pend) <= pos /\ pos <= op.len /\ op.len \in Nat /\ \A i \in 1..Len(pend) : pend[i] = op.lit[pos - Len(pend) + i]
  BY DEF Cutting, Ops
<1>3. op.kind \in {"insert", "add"}
  BY DEF CanBeCut
<1>4. CASE pend = <<>>
  <2>1. Cut(made, op) = made /\ k + pos - Len(pend) = k + pos
    BY <1>1, <1>4 DEF Cut
  <2> QED
    BY <1>1, <2>1
<1>5. CASE pend # <<>>
  <2>1. PICK from : from = pos - Len(pend)
    OBVIOUS
  <2>2. from \in Nat /\ from + Len(pend) = pos /\ k + from = k + pos - Len(pend) /\ k + from + Len(pend) = k + pos /\ k + from \in Nat
    BY <1>1, <1>2, <2>1
  <2>3. PICK piece : piece = Piece(op, from, pend)
    OBVIOUS
  <2>4. from + Len(pend) <= op.len /\ \A i \in 1..Len(pend) : pend[i] = op.lit[from + i]
    BY <1>2, <2>1, <2>2
  <2>5. piece \in Ops /\ piece.len = Len(pend) /\ Fits(base, cand, piece, k + from)
    <3>1. from \in Nat /\ pend \in Seq(Bytes)
      BY <1>1, <2>2
    <3>2. /\ Piece(op, from, pend) \in Ops /\ Piece(op, from, pend).len = Len(pend)
          /\ Fits(base, cand, Piece(op, from, pend), k + from)
      BY <1>3, <2>4, <3>1, PieceFits
    <3> QED
      BY <2>3, <3>2
  <2>6. piece.kind # "output"
    BY <2>3 DEF Piece, Insert, Add, Op
  <2>7. Cut(made, op) = Append(made, piece)
    BY <1>5, <2>1, <2>3 DEF Cut
  <2>8. piece \in OpsOf(version)
    BY <2>5, <2>6, OpIs
  <2>9. Covers(base, cand, Append(made, piece), 0, k + pos)
    <3>1. Covers(base, cand, made, 0, k + from)
      BY <2>2
    <3>2. PICK m : m = k + from
      OBVIOUS
    <3>3. Covers(base, cand, Append(made, piece), 0, m + piece.len)
      BY <1>1, <2>5, <3>1, <3>2, OneMore
    <3> QED
      BY <2>2, <2>5, <3>2, <3>3
  <2> QED
    BY <1>1, <2>7, <2>8, <2>9
<1> QED
  BY <1>4, <1>5

(* What a literal yields is what the candidate has in its place.           *)
LEMMA WantedIs ==
    ASSUME Wellformed, NEW op \in Ops, NEW k \in Nat, Fits(base, cand, op, k), CanBeCut(op),
           op.kind # "insert" => mat = Slice(cand, 0, k)
    PROVE  Wanted(op) = Slice(cand, k, op.len)
<1>1. base \in Seq(Bytes) /\ cand \in Seq(Bytes) /\ op.len \in Nat /\ op.lit \in Seq(Bytes) /\ k + op.len <= Len(cand)
  BY FitsInside DEF Wellformed, Ops
<1>2. CASE op.kind = "insert"
  <2>1. Wanted(op) = op.lit /\ Len(op.lit) = op.len /\ \A i \in 1..op.len : op.lit[i] = cand[k + i]
    BY <1>2 DEF Wanted, Fits
  <2>2. PICK s : s = Slice(cand, k, op.len)
    OBVIOUS
  <2>3. s \in Seq(Bytes) /\ Len(s) = op.len /\ \A i \in 1..op.len : s[i] = cand[k + i]
    BY <1>1, <2>2, ByteSlice, ZenonT(30)
  <2>4. op.lit = s
    BY <1>1, <2>1, <2>3, SameSeq
  <2> QED
    BY <2>1, <2>2, <2>4
<1>3. CASE op.kind # "insert"
  <2>1. Wanted(op) = Yield(op, Slice(cand, 0, k))
    BY <1>3 DEF Wanted
  <2> QED
    BY <1>1, <2>1, YieldIs
<1> QED
  BY <1>2, <1>3

(* The state of the pass while an op is at the head.                       *)
LEMMA ReuseHead ==
    ASSUME Wellformed, Reusing, todo # <<>>
    PROVE  \E k \in Nat :
             LET op == Head(todo) IN
             /\ Covers(base, cand, todo, k, Len(cand)) /\ Covers(base, cand, made, 0, k + pos - Len(pend))
             /\ op.kind = "insert" => k + pos <= Len(cand) /\ mat = Slice(cand, 0, k + pos)
             /\ op.kind # "insert" => k <= Len(cand) /\ mat = Slice(cand, 0, k)
             /\ Cutting(op)
<1>1. PICK k \in Nat : /\ Covers(base, cand, todo, k, Len(cand)) /\ Covers(base, cand, made, 0, k + pos - Len(pend))
                       /\ k + Shift <= Len(cand) /\ mat = Slice(cand, 0, k + Shift)
  BY DEF Reusing
<1>2. Head(todo).kind = "insert" => Shift = pos
  BY DEF Shift
<1>3. Head(todo).kind # "insert" => k + Shift = k
  BY DEF Shift
<1>4. Cutting(Head(todo))
  BY DEF Reusing
<1> QED
  BY <1>1, <1>2, <1>3, <1>4

(* What a step of the pass has to show.                                    *)
LEMMA ReuseStep ==
    ASSUME Wellformed, Reusing,
           phase' = "reuse", version' = version, base' = base, cand' = cand, passes' = passes,
           basePos' = basePos, delta' = delta, rest' = rest, built' = built, summary' = summary,
           pos' \in Nat, pend' \in Seq(Bytes), mat' \in Seq(Bytes),
           todo' \in Seq(OpsOf(version)), made' \in Seq(OpsOf(version)),
           IF todo' = <<>> THEN pos' = 0 /\ pend' = <<>> ELSE Cutting(Head(todo))',
           NEW j \in Nat, Covers(base, cand, todo', j, Len(cand)),
           Covers(base, cand, made', 0, j + pos' - Len(pend')),
           j + Shift' <= Len(cand), mat' = Slice(cand, 0, j + Shift')
    PROVE  DeltaInv'
<1>1. Wellformed'
  BY DEF Wellformed
<1>2. Early' /\ ~Reuses(passes') /\ version' >= 10
  BY DEF Reusing, Early
<1>3. Reusing'
  BY <1>2 DEF Reusing
<1> QED
  BY <1>1, <1>3 DEF DeltaInv

LEMMA NextOpFresh ==
    ASSUME todo' \in Seq(OpsOf(version)), pos' = 0, pend' = <<>>
    PROVE  /\ Shift' = 0
           /\ IF todo' = <<>> THEN pos' = 0 /\ pend' = <<>> ELSE Cutting(Head(todo))'
<1>1. Len(<<>>) = 0 /\ 1..0 = {} /\ ~(0 > 0) /\ 0 <= 0
  OBVIOUS
<1>2. Shift' = 0
  BY DEF Shift
<1>3. ASSUME todo' # <<>> PROVE Cutting(Head(todo))'
  <2>1. Head(todo') \in OpsOf(version)
    BY <1>3
  <2>2. Head(todo').len \in Nat
    BY <2>1 DEF OpsOf, Ops
  <2>3. 0 <= Head(todo').len
    BY <2>2
  <2> QED
    BY <1>1, <2>3 DEF Cutting
<1> QED
  BY <1>2, <1>3

LEMMA ReuseKeepKeeps ==
    ASSUME DeltaInv, ReuseKeep
    PROVE  DeltaInv'
<1>1. Wellformed /\ Reusing
  BY WhichPhase DEF ReuseKeep
<1>2. PICK op : op = Head(todo)
  OBVIOUS
<1>3. /\ todo # <<>> /\ pos = 0 /\ op.kind # "insert" /\ made' = Append(made, op) /\ mat' = mat \o Yield(op, mat)
      /\ todo' = Tail(todo) /\ phase' = "reuse" /\ pos' = pos /\ pend' = pend
  BY <1>2 DEF ReuseKeep
<1>4. /\ version' = version /\ base' = base /\ cand' = cand /\ passes' = passes /\ basePos' = basePos
      /\ delta' = delta /\ rest' = rest /\ built' = built /\ summary' = summary
  BY DEF ReuseKeep, subjectVars, codeVars
<1>5. PICK k \in Nat : /\ Covers(base, cand, todo, k, Len(cand)) /\ Covers(base, cand, made, 0, k + pos - Len(pend))
                       /\ mat = Slice(cand, 0, k) /\ Cutting(op)
  BY <1>1, <1>2, <1>3, ReuseHead
<1>6. /\ base \in Seq(Bytes) /\ cand \in Seq(Bytes) /\ pend \in Seq(Bytes) /\ mat \in Seq(Bytes) /\ Len(pend) \in Nat
  BY <1>1 DEF Wellformed
<1>7. pend = <<>>
  <2>1. Len(pend) <= 0
    BY <1>3, <1>5 DEF Cutting
  <2> QED
    BY <1>6, <2>1
<1>8. Covers(base, cand, made, 0, k)
  <2>1. k + 0 - Len(<<>>) = k
    OBVIOUS
  <2> QED
    BY <1>3, <1>5, <1>7, <2>1
<1>9. /\ op \in OpsOf(version) /\ op \in Ops /\ op.len \in Nat /\ k + op.len \in Nat
      /\ Fits(base, cand, op, k) /\ Tail(todo) \in Seq(OpsOf(version))
      /\ Covers(base, cand, Tail(todo), k + op.len, Len(cand)) /\ k + op.len <= Len(cand)
  BY <1>1, <1>2, <1>3, <1>5, HeadFits
<1>10. Append(made, op) \in Seq(OpsOf(version)) /\ Covers(base, cand, Append(made, op), 0, k + op.len)
  <2>1. op.kind = "output" => version > 6
    BY <1>9 DEF OpsOf
  <2> QED
    BY <1>1, <1>2, <1>3, <1>5, <1>8, <1>9, <2>1, TakeOne
<1>11. mat' = Slice(cand, 0, k + op.len) /\ Slice(cand, 0, k + op.len) \in Seq(Bytes)
  <2>1. Yield(op, mat) = Slice(cand, k, op.len)
    BY <1>5, <1>6, <1>9, YieldIs
  <2>2. mat' = Slice(cand, 0, k) \o Slice(cand, k, op.len)
    BY <1>3, <1>5, <2>1
  <2>3. Slice(cand, 0, k) \o Slice(cand, k, op.len) = Slice(cand, 0, k + op.len)
    BY <1>6, <1>9, SliceOn
  <2>4. Slice(cand, 0, k + op.len) \in Seq(Bytes)
    BY <1>6, <1>9, PrefixIs
  <2> QED
    BY <2>2, <2>3, <2>4
<1>12. todo' \in Seq(OpsOf(version)) /\ pos' = 0 /\ pend' = <<>> /\ pos' \in Nat /\ pend' \in Seq(Bytes)
  BY <1>3, <1>6, <1>7, <1>9
<1>13. Shift' = 0 /\ IF todo' = <<>> THEN pos' = 0 /\ pend' = <<>> ELSE Cutting(Head(todo))'
  BY <1>12, NextOpFresh
<1>14. PICK j : j = k + op.len
  OBVIOUS
<1>15. /\ j \in Nat /\ Covers(base, cand, todo', j, Len(cand)) /\ Covers(base, cand, made', 0, j + pos' - Len(pend'))
       /\ j + Shift' <= Len(cand) /\ mat' = Slice(cand, 0, j + Shift')
  <2>1. j \in Nat /\ j + 0 - Len(<<>>) = j /\ j + 0 = j
    BY <1>9, <1>14
  <2> QED
    BY <1>3, <1>9, <1>10, <1>11, <1>12, <1>13, <1>14, <2>1
<1> QED
  BY <1>1, <1>3, <1>4, <1>10, <1>11, <1>12, <1>13, <1>15, ReuseStep

LEMMA ReuseByteKeeps ==
    ASSUME DeltaInv, ReuseByte
    PROVE  DeltaInv'
<1>1. Wellformed /\ Reusing
  BY WhichPhase DEF ReuseByte
<1>2. PICK op : op = Head(todo)
  OBVIOUS
<1>3. /\ todo # <<>> /\ CanBeCut(op) /\ pos < op.len /\ pend' = Append(pend, op.lit[pos + 1]) /\ pos' = pos + 1
      /\ mat' = IF op.kind = "insert" THEN Append(mat, op.lit[pos + 1]) ELSE mat
      /\ phase' = "reuse" /\ todo' = todo /\ made' = made
  BY <1>2 DEF ReuseByte
<1>4. /\ version' = version /\ base' = base /\ cand' = cand /\ passes' = passes /\ basePos' = basePos
      /\ delta' = delta /\ rest' = rest /\ built' = built /\ summary' = summary
  BY DEF ReuseByte, subjectVars, codeVars
<1>5. PICK k \in Nat : /\ Covers(base, cand, todo, k, Len(cand)) /\ Covers(base, cand, made, 0, k + pos - Len(pend))
                       /\ op.kind = "insert" => k + pos <= Len(cand) /\ mat = Slice(cand, 0, k + pos)
                       /\ op.kind # "insert" => k <= Len(cand) /\ mat = Slice(cand, 0, k)
                       /\ Cutting(op)
  BY <1>1, <1>2, <1>3, ReuseHead
<1>6. /\ cand \in Seq(Bytes) /\ pend \in Seq(Bytes) /\ mat \in Seq(Bytes) /\ Len(pend) \in Nat /\ pos \in Nat
      /\ made \in Seq(OpsOf(version)) /\ todo \in Seq(OpsOf(version)) /\ Len(cand) \in Nat
  BY <1>1 DEF Wellformed
<1>7. /\ op \in Ops /\ op.len \in Nat /\ op.lit \in Seq(Bytes) /\ Fits(base, cand, op, k) /\ k + op.len <= Len(cand)
  BY <1>1, <1>2, <1>3, <1>5, HeadFits
<1>8. PICK byte : byte = op.lit[pos + 1]
  OBVIOUS
<1>9. byte \in Bytes
  <2>1. Len(op.lit) = op.len
    BY <1>3, <1>7 DEF CanBeCut, Fits
  <2>2. pos + 1 \in 1..Len(op.lit)
    BY <1>3, <1>6, <1>7, <2>1
  <2> QED
    BY <1>7, <1>8, <2>2
<1>10. /\ pend' \in Seq(Bytes) /\ Len(pend') = Len(pend) + 1 /\ pend'[Len(pend) + 1] = byte
       /\ \A i \in 1..Len(pend) : pend'[i] = pend[i]
  BY <1>3, <1>6, <1>8, <1>9
<1>11. pos' \in Nat /\ pos' = pos + 1 /\ pos' <= op.len /\ Len(pend') <= pos' /\ pos' - Len(pend') = pos - Len(pend)
       /\ k + pos' - Len(pend') = k + pos - Len(pend) /\ Len(pend) <= pos
  <2>1. Len(pend) <= pos
    BY <1>5 DEF Cutting
  <2> QED
    BY <1>3, <1>6, <1>7, <1>10, <2>1
<1>12. \A i \in 1..Len(pend') : pend'[i] = op.lit[pos' - Len(pend') + i]
  <2>1. PICK d : d = pos - Len(pend)
    OBVIOUS
  <2>2. \A i \in 1..Len(pend) : pend[i] = op.lit[d + i]
    BY <1>5, <2>1 DEF Cutting
  <2>3. d + (Len(pend) + 1) = pos + 1 /\ d \in Nat
    BY <1>6, <1>11, <2>1
  <2>4. \A i \in 1..Len(pend') : i \in 1..Len(pend) \/ i = Len(pend) + 1
    BY <1>6, <1>10
  <2>5. \A i \in 1..Len(pend') : pend'[i] = op.lit[d + i]
    BY <1>8, <1>10, <2>2, <2>3, <2>4
  <2> QED
    BY <1>11, <2>1, <2>5
<1>13. CanBeCut(op)'
  BY <1>3, <1>4 DEF CanBeCut
<1>14. IF todo' = <<>> THEN pos' = 0 /\ pend' = <<>> ELSE Cutting(Head(todo))'
  <2>1. Cutting(op)'
    BY <1>11, <1>12, <1>13 DEF Cutting
  <2> QED
    BY <1>2, <1>3, <2>1
<1>15. mat' \in Seq(Bytes) /\ k + Shift' <= Len(cand) /\ mat' = Slice(cand, 0, k + Shift')
  <2>1. CASE op.kind = "insert"
    <3>1. Shift' = pos + 1
      BY <1>2, <1>3, <2>1 DEF Shift
    <3>2. PICK m : m = k + pos
      OBVIOUS
    <3>3. m \in Nat /\ m + 1 <= Len(cand) /\ k + (pos + 1) = m + 1
      BY <1>3, <1>6, <1>7, <3>2
    <3>4. mat = Slice(cand, 0, m) /\ mat' = Append(mat, byte)
      BY <1>3, <1>5, <1>8, <2>1, <3>2
    <3>5. byte = cand[m + 1]
      <4>1. pos + 1 \in 1..op.len
        BY <1>3, <1>6, <1>7
      <4>2. op.lit[pos + 1] = cand[k + (pos + 1)]
        BY <1>7, <2>1, <4>1 DEF Fits
      <4> QED
        BY <1>8, <3>3, <4>2
    <3>6. mat \in Seq(Bytes) /\ Len(mat) = m /\ \A i \in 1..m : mat[i] = cand[i]
      <4>1. cand \in Seq(Bytes) /\ m \in Nat /\ m <= Len(cand) /\ mat = Slice(cand, 0, m)
        BY <1>6, <3>3, <3>4
      <4> QED
        BY <4>1, PrefixIs
    <3>7. PICK s : s = Slice(cand, 0, m + 1)
      OBVIOUS
    <3>8. s \in Seq(Bytes) /\ Len(s) = m + 1 /\ \A i \in 1..(m + 1) : s[i] = cand[i]
      <4>1. m + 1 \in Nat
        BY <3>3
      <4> QED
        BY <1>6, <3>3, <3>7, <4>1, PrefixIs
    <3>9. PICK t : t = Append(mat, byte)
      OBVIOUS
    <3>10. t \in Seq(Bytes) /\ Len(t) = m + 1 /\ t[m + 1] = byte /\ \A i \in 1..m : t[i] = mat[i]
      BY <1>9, <3>6, <3>9
    <3>11. \A i \in 1..Len(t) : t[i] = s[i]
      <4>1. \A i \in 1..Len(t) : i \in 1..m \/ i = m + 1
        BY <3>3, <3>10
      <4>2. \A i \in 1..m : i \in 1..(m + 1)
        BY <3>3
      <4>3. m + 1 \in 1..(m + 1)
        BY <3>3
      <4> QED
        BY <3>5, <3>6, <3>8, <3>10, <4>1, <4>2, <4>3
    <3>12. t = s
      BY <3>8, <3>10, <3>11, SameSeq
    <3> QED
      BY <3>1, <3>3, <3>4, <3>7, <3>9, <3>10, <3>12
  <2>2. CASE op.kind # "insert"
    <3>1. Shift' = 0 /\ k + 0 = k
      BY <1>2, <1>3, <2>2 DEF Shift
    <3> QED
      BY <1>3, <1>5, <1>6, <2>2, <3>1
  <2> QED
    BY <2>1, <2>2
<1>16. Covers(base, cand, todo', k, Len(cand)) /\ Covers(base, cand, made', 0, k + pos' - Len(pend'))
  BY <1>3, <1>5, <1>11
<1> QED
  BY <1>1, <1>3, <1>4, <1>6, <1>10, <1>11, <1>14, <1>15, <1>16, ReuseStep

LEMMA ReuseCopyKeeps ==
    ASSUME DeltaInv, ReuseCopy
    PROVE  DeltaInv'
<1>1. Wellformed /\ Reusing
  BY WhichPhase DEF ReuseCopy
<1>2. PICK op : op = Head(todo)
  OBVIOUS
<1>3. PICK f : f = Reused(mat, Wanted(op), pos)
  OBVIOUS
<1>4. /\ todo # <<>> /\ CanBeCut(op) /\ pos < op.len /\ f # Unset
      /\ made' = Append(Cut(made, op), OutputCopy(f.at, f.len)) /\ pend' = <<>> /\ pos' = pos + f.len
      /\ mat' = IF op.kind = "insert" THEN mat \o Slice(mat, f.at, f.len) ELSE mat
      /\ phase' = "reuse" /\ todo' = todo
  BY <1>2, <1>3 DEF ReuseCopy
<1>5. /\ version' = version /\ base' = base /\ cand' = cand /\ passes' = passes /\ basePos' = basePos
      /\ delta' = delta /\ rest' = rest /\ built' = built /\ summary' = summary
  BY DEF ReuseCopy, subjectVars, codeVars
<1>6. PICK k \in Nat : /\ Covers(base, cand, todo, k, Len(cand)) /\ Covers(base, cand, made, 0, k + pos - Len(pend))
                       /\ op.kind = "insert" => k + pos <= Len(cand) /\ mat = Slice(cand, 0, k + pos)
                       /\ op.kind # "insert" => k <= Len(cand) /\ mat = Slice(cand, 0, k)
                       /\ Cutting(op)
  BY <1>1, <1>2, <1>4, ReuseHead
<1>7. /\ cand \in Seq(Bytes) /\ mat \in Seq(Bytes) /\ pos \in Nat /\ version >= 10 /\ version \in Nat
      /\ todo \in Seq(OpsOf(version)) /\ Len(cand) \in Nat
  BY <1>1 DEF Wellformed, Reusing
<1>8. /\ op \in Ops /\ op.len \in Nat /\ Fits(base, cand, op, k) /\ k + op.len <= Len(cand)
  BY <1>1, <1>2, <1>4, <1>6, HeadFits
<1>9. PICK want : want = Wanted(op)
  OBVIOUS
<1>10. want \in Seq(Bytes) /\ Len(want) = op.len /\ \A i \in 1..op.len : want[i] = cand[k + i]
  <2>1. want = Slice(cand, k, op.len)
    BY <1>1, <1>4, <1>6, <1>8, <1>9, WantedIs
  <2>2. PICK n : n = op.len
    OBVIOUS
  <2>3. n \in Nat /\ k + n <= Len(cand) /\ want = Slice(cand, k, n) /\ cand \in Seq(Bytes)
    BY <1>7, <1>8, <2>1, <2>2
  <2>4. want \in Seq(Bytes) /\ Len(want) = n /\ \A i \in 1..n : want[i] = cand[k + i]
    BY <2>3, ByteSlice
  <2> QED
    BY <2>2, <2>4
<1>11. PICK at, len : at = f.at /\ len = f.len
  OBVIOUS
<1>12. /\ at \in Nat /\ len \in Nat /\ at + len <= Len(mat) /\ pos + len <= op.len
       /\ \A i \in 1..len : mat[at + i] = want[pos + i]
  <2>1. pos \in 0..Len(want)
    BY <1>4, <1>7, <1>8, <1>10
  <2>2. Reused(mat, want, pos) # Unset /\ f = Reused(mat, want, pos)
    BY <1>3, <1>4, <1>9
  <2>3. /\ f.at \in Nat /\ f.len \in Nat /\ f.at + f.len <= Len(mat) /\ pos + f.len <= Len(want)
        /\ \A x \in 1..f.len : mat[f.at + x] = want[pos + x]
    BY <1>7, <1>10, <2>1, <2>2, ReusedIs
  <2> QED
    BY <1>10, <1>11, <2>3
<1>13. PICK m : m = k + pos
  OBVIOUS
<1>14. m \in Nat /\ m + len <= Len(cand) /\ k <= m /\ k + (pos + len) = m + len
  BY <1>7, <1>8, <1>12, <1>13, SMTT(30)
<1>15. Len(mat) <= m /\ \A i \in 1..Len(mat) : mat[i] = cand[i]
  <2>1. CASE op.kind = "insert"
    <3>1. cand \in Seq(Bytes) /\ m \in Nat /\ mat = Slice(cand, 0, m) /\ m <= Len(cand)
      BY <1>6, <1>7, <1>13, <1>14, <2>1
    <3>2. Len(mat) = m /\ \A i \in 1..m : mat[i] = cand[i]
      BY <3>1, PrefixIs
    <3> QED
      BY <3>1, <3>2
  <2>2. CASE op.kind # "insert"
    <3>1. mat = Slice(cand, 0, k) /\ k <= Len(cand)
      BY <1>6, <2>2
    <3>2. Len(mat) = k /\ \A i \in 1..k : mat[i] = cand[i]
      BY <1>7, <3>1, PrefixIs
    <3> QED
      BY <1>14, <3>2
  <2> QED
    BY <2>1, <2>2
<1>16. at + len <= m /\ \A i \in 1..len : cand[at + i] = cand[m + i]
  <2>1. at + len <= m
    BY <1>7, <1>12, <1>14, <1>15
  <2>2. ASSUME NEW i \in 1..len PROVE cand[at + i] = cand[m + i]
    <3>1. PICK x, y : x = at + i /\ y = pos + i
      OBVIOUS
    <3>2. x \in 1..Len(mat) /\ y \in 1..op.len /\ k + y = m + i
      BY <1>7, <1>8, <1>12, <1>13, <3>1
    <3>3. mat[x] = want[y]
      BY <1>12, <3>1
    <3>4. mat[x] = cand[x] /\ want[y] = cand[k + y]
      BY <1>10, <1>15, <3>2
    <3> QED
      BY <3>1, <3>2, <3>3, <3>4
  <2> QED
    BY <2>1, <2>2
<1>17. Cut(made, op) \in Seq(OpsOf(version)) /\ Covers(base, cand, Cut(made, op), 0, m)
  BY <1>1, <1>4, <1>6, <1>8, <1>13, CutKept
<1>18. PICK new : new = OutputCopy(at, len)
  OBVIOUS
<1>19. new \in Ops /\ new.len = len /\ Fits(base, cand, new, m)
  BY ZenonT(30), <1>12, <1>14, <1>16, <1>18, OutputFits
<1>20. new \in OpsOf(version)
  <2>1. version > 6
    BY <1>7
  <2> QED
    BY <1>19, <2>1, OpIs
<1>21. made' \in Seq(OpsOf(version)) /\ Covers(base, cand, made', 0, m + len)
  <2>1. PICK ops : ops = Cut(made, op)
    OBVIOUS
  <2>2. made' = Append(ops, new)
    BY <1>4, <1>11, <1>18, <2>1
  <2>3. ops \in Seq(OpsOf(version)) /\ ops \in Seq(Ops) /\ Covers(base, cand, ops, 0, m)
    BY <1>17, <2>1, SeqOfOps
  <2>4. Covers(base, cand, Append(ops, new), 0, m + new.len)
    BY <1>19, <2>3, OneMore
  <2> QED
    BY <1>19, <1>20, <2>2, <2>3, <2>4
<1>22. pos' = pos + len /\ pos' \in Nat /\ pend' \in Seq(Bytes) /\ Len(pend') = 0 /\ 1..0 = {}
  BY <1>4, <1>7, <1>11, <1>12
<1>23. IF todo' = <<>> THEN pos' = 0 /\ pend' = <<>> ELSE Cutting(Head(todo))'
  <2>1. CanBeCut(op)'
    BY <1>4, <1>5 DEF CanBeCut
  <2>2. Cutting(op)'
    BY <1>12, <1>22, <2>1 DEF Cutting
  <2> QED
    BY <1>2, <1>4, <2>2
<1>24. mat' \in Seq(Bytes) /\ k + Shift' <= Len(cand) /\ mat' = Slice(cand, 0, k + Shift')
  <2>1. CASE op.kind = "insert"
    <3>1. Shift' = pos + len
      BY <1>2, <1>4, <1>22, <2>1 DEF Shift
    <3>2. PICK s, t : s = Slice(mat, at, len) /\ t = Slice(cand, m, len)
      OBVIOUS
    <3>3. s \in Seq(Bytes) /\ Len(s) = len /\ \A i \in 1..len : s[i] = mat[at + i]
      <4>1. mat \in Seq(Bytes) /\ at \in Nat /\ len \in Nat /\ at + len <= Len(mat)
        BY <1>7, <1>12
      <4> QED
        BY <3>2, <4>1, ByteSlice
    <3>4. t \in Seq(Bytes) /\ Len(t) = len /\ \A i \in 1..len : t[i] = cand[m + i]
      <4>1. cand \in Seq(Bytes) /\ m \in Nat /\ len \in Nat /\ m + len <= Len(cand)
        BY <1>7, <1>12, <1>14
      <4> QED
        BY <3>2, <4>1, ByteSlice
    <3>5. \A i \in 1..len : mat[at + i] = cand[m + i]
      <4>1. ASSUME NEW i \in 1..len PROVE mat[at + i] = cand[m + i]
        <5>1. PICK x : x = at + i
          OBVIOUS
        <5>2. x \in 1..Len(mat)
          BY <1>7, <1>12, <5>1
        <5>3. mat[x] = cand[x]
          BY <1>15, <5>2
        <5> QED
          BY <1>16, <5>1, <5>3
      <4> QED
        BY <4>1
    <3>6. s = t
      BY <3>3, <3>4, <3>5, SameSeq
    <3>7. mat' = Slice(cand, 0, m) \o Slice(cand, m, len)
      BY <1>4, <1>6, <1>11, <1>13, <2>1, <3>2, <3>6
    <3>8. Slice(cand, 0, m) \o Slice(cand, m, len) = Slice(cand, 0, m + len)
      BY <1>7, <1>12, <1>14, SliceOn
    <3>9. PICK p : p = m + len
      OBVIOUS
    <3>10. p \in Nat /\ p <= Len(cand)
      BY <1>12, <1>14, <3>9
    <3>11. Slice(cand, 0, p) \in Seq(Bytes)
      BY <1>7, <3>10, PrefixIs
    <3> QED
      BY <1>14, <3>1, <3>7, <3>8, <3>9, <3>10, <3>11
  <2>2. CASE op.kind # "insert"
    <3>1. Shift' = 0 /\ k + 0 = k
      BY <1>2, <1>4, <2>2 DEF Shift
    <3> QED
      BY <1>4, <1>6, <1>7, <2>2, <3>1
  <2> QED
    BY <2>1, <2>2
<1>25. Covers(base, cand, todo', k, Len(cand)) /\ Covers(base, cand, made', 0, k + pos' - Len(pend'))
  <2>1. k + pos' - Len(pend') = m + len
    BY <1>7, <1>12, <1>14, <1>22
  <2> QED
    BY <1>4, <1>6, <1>21, <2>1
<1> QED
  BY <1>1, <1>4, <1>5, <1>7, <1>21, <1>22, <1>23, <1>24, <1>25, ReuseStep

(* At the end of an op the buffer has its bytes, those of an add only now. *)
LEMMA ReuseEndKeeps ==
    ASSUME DeltaInv, ReuseEnd
    PROVE  DeltaInv'
<1>1. Wellformed /\ Reusing
  BY WhichPhase DEF ReuseEnd
<1>2. PICK op : op = Head(todo)
  OBVIOUS
<1>3. /\ todo # <<>> /\ CanBeCut(op) /\ pos = op.len /\ made' = Cut(made, op)
      /\ mat' = IF op.kind = "insert" THEN mat ELSE mat \o Wanted(op)
      /\ todo' = Tail(todo) /\ pend' = <<>> /\ pos' = 0 /\ phase' = "reuse"
  BY <1>2 DEF ReuseEnd
<1>4. /\ version' = version /\ base' = base /\ cand' = cand /\ passes' = passes /\ basePos' = basePos
      /\ delta' = delta /\ rest' = rest /\ built' = built /\ summary' = summary
  BY DEF ReuseEnd, subjectVars, codeVars
<1>5. PICK k \in Nat : /\ Covers(base, cand, todo, k, Len(cand)) /\ Covers(base, cand, made, 0, k + pos - Len(pend))
                       /\ op.kind = "insert" => k + pos <= Len(cand) /\ mat = Slice(cand, 0, k + pos)
                       /\ op.kind # "insert" => k <= Len(cand) /\ mat = Slice(cand, 0, k)
                       /\ Cutting(op)
  BY <1>1, <1>2, <1>3, ReuseHead
<1>6. cand \in Seq(Bytes) /\ mat \in Seq(Bytes) /\ Len(cand) \in Nat
  BY <1>1 DEF Wellformed
<1>7. /\ op \in Ops /\ op.len \in Nat /\ Fits(base, cand, op, k) /\ k + op.len <= Len(cand) /\ k + op.len \in Nat
      /\ Tail(todo) \in Seq(OpsOf(version)) /\ Covers(base, cand, Tail(todo), k + op.len, Len(cand))
  BY <1>1, <1>2, <1>3, <1>5, HeadFits
<1>8. PICK j : j = k + op.len
  OBVIOUS
<1>9. j \in Nat /\ j <= Len(cand) /\ k + pos = j /\ j + 0 = j /\ j + 0 - Len(<<>>) = j
  BY <1>3, <1>7, <1>8
<1>10. Cut(made, op) \in Seq(OpsOf(version)) /\ Covers(base, cand, Cut(made, op), 0, j)
  <2>1. Cut(made, op) \in Seq(OpsOf(version)) /\ Covers(base, cand, Cut(made, op), 0, k + pos)
    BY <1>1, <1>3, <1>5, <1>7, CutKept
  <2> QED
    BY <1>9, <2>1
<1>11. mat' = Slice(cand, 0, j) /\ mat' \in Seq(Bytes)
  <2>1. CASE op.kind = "insert"
    BY <1>3, <1>5, <1>6, <1>9, <2>1
  <2>2. CASE op.kind # "insert"
    <3>1. Wanted(op) = Slice(cand, k, op.len)
      BY <1>1, <1>3, <1>5, <1>7, <2>2, WantedIs
    <3>2. mat' = Slice(cand, 0, k) \o Slice(cand, k, op.len)
      BY <1>3, <1>5, <2>2, <3>1
    <3>3. Slice(cand, 0, k) \o Slice(cand, k, op.len) = Slice(cand, 0, k + op.len)
      BY <1>6, <1>7, SliceOn
    <3>4. Slice(cand, 0, j) \in Seq(Bytes)
      BY <1>6, <1>9, PrefixIs
    <3> QED
      BY <1>8, <3>2, <3>3, <3>4
  <2> QED
    BY <2>1, <2>2
<1>12. todo' \in Seq(OpsOf(version)) /\ pos' = 0 /\ pend' = <<>> /\ pos' \in Nat /\ pend' \in Seq(Bytes)
  BY <1>3, <1>7
<1>13. Shift' = 0 /\ IF todo' = <<>> THEN pos' = 0 /\ pend' = <<>> ELSE Cutting(Head(todo))'
  BY <1>12, NextOpFresh
<1>14. /\ Covers(base, cand, todo', j, Len(cand)) /\ Covers(base, cand, made', 0, j + pos' - Len(pend'))
       /\ j + Shift' <= Len(cand) /\ mat' = Slice(cand, 0, j + Shift')
  BY <1>3, <1>7, <1>8, <1>9, <1>10, <1>11, <1>12, <1>13
<1>15. made' \in Seq(OpsOf(version))
  BY <1>3, <1>10
<1> QED
  BY <1>1, <1>3, <1>4, <1>9, <1>11, <1>12, <1>13, <1>14, <1>15, ReuseStep

-----------------------------------------------------------------------------
(* Encoding.                                                               *)
LEMMA HeadAndTail ==
    ASSUME NEW S, NEW s \in Seq(S), s # <<>>, NEW t \in Seq(S)
    PROVE  Head(s \o t) = Head(s) /\ Tail(s \o t) = Tail(s) \o t /\ s \o t # <<>> /\ s \o t \in Seq(S)
<1>1. PICK u : u = s \o t
  OBVIOUS
<1>2. /\ u \in Seq(S) /\ Len(u) = Len(s) + Len(t)
      /\ \A i \in 1..Len(s) : u[i] = s[i]
      /\ \A i \in 1..Len(t) : u[Len(s) + i] = t[i]
  BY <1>1, CatIs
<1>3. Len(s) \in Nat \ {0} /\ Len(t) \in Nat /\ 1 \in 1..Len(s)
  OBVIOUS
<1>4. u # <<>> /\ Head(u) = Head(s)
  BY <1>2, <1>3
<1>5. PICK r, w : r = Tail(s) /\ w = Tail(u)
  OBVIOUS
<1>6. r \in Seq(S) /\ Len(r) = Len(s) - 1 /\ \A i \in 1..(Len(s) - 1) : r[i] = s[i + 1]
  BY <1>3, <1>5
<1>7. w \in Seq(S) /\ Len(w) = Len(u) - 1 /\ \A i \in 1..(Len(u) - 1) : w[i] = u[i + 1]
  BY <1>2, <1>4, <1>5
<1>8. Len(w) = Len(r) + Len(t)
  BY <1>2, <1>3, <1>6, <1>7
<1>9. ASSUME NEW i \in 1..Len(r) PROVE w[i] = r[i]
  <2>1. i + 1 \in 1..Len(s) /\ i \in 1..(Len(s) - 1) /\ i \in 1..(Len(u) - 1)
    BY <1>2, <1>3, <1>6
  <2> QED
    BY <1>2, <1>6, <1>7, <2>1
<1>10. ASSUME NEW i \in 1..Len(t) PROVE w[Len(r) + i] = t[i]
  <2>1. PICK j : j = Len(r) + i
    OBVIOUS
  <2>2. j \in 1..(Len(u) - 1) /\ j + 1 = Len(s) + i
    BY <1>2, <1>3, <1>6, <2>1
  <2>3. w[j] = u[j + 1] /\ u[Len(s) + i] = t[i]
    BY <1>2, <1>7, <2>2
  <2> QED
    BY <2>1, <2>2, <2>3
<1>11. r \o t = w
  BY <1>6, <1>7, <1>8, <1>9, <1>10, CatEq
<1> QED
  BY <1>1, <1>2, <1>4, <1>5, <1>11

LEMMA HoldsItems ==
    ASSUME NEW v, NEW stream, NEW s, NEW ops \in Seq(Ops), Holds(v, stream, s, ops)
    PROVE  s \in Seq(Items)
<1>1. 0 \in 0..Len(ops)
  OBVIOUS
<1> QED
  BY <1>1 DEF Holds

(* The counts grow by the length of the op.                                *)
LEMMA BookOp ==
    ASSUME Books, NEW op \in Ops, summary' = [summary EXCEPT ![op.kind] = @ + op.len]
    PROVE  Books' /\ Counted' = Counted + op.len
<1>1. op.kind \in Kinds /\ op.len \in Nat
  BY DEF Ops
<1>2. CASE op.kind = "copy"
  BY <1>1, <1>2 DEF Books, Counted
<1>3. CASE op.kind = "insert"
  BY <1>1, <1>3 DEF Books, Counted
<1>4. CASE op.kind = "add"
  BY <1>1, <1>4 DEF Books, Counted
<1>5. CASE op.kind = "sparse"
  BY <1>1, <1>5 DEF Books, Counted
<1>6. CASE op.kind = "output"
  BY <1>1, <1>6 DEF Books, Counted
<1> QED
  BY <1>1, <1>2, <1>3, <1>4, <1>5, <1>6 DEF Kinds

DeltaRecords ==
  [magic : Nat, control : Seq(Items), inserts : Seq(Items), adds : Seq(Items), transform : {"raw"}, dictionary : {<<>>}]

(* The parts of an op are appended to the streams.                         *)
LEMMA EncodeOpKeeps ==
    ASSUME DeltaInv, EncodeOp
    PROVE  DeltaInv'
<1>1. Wellformed /\ Encoding
  BY WhichPhase DEF EncodeOp
<1>2. PICK op : op = Head(todo)
  OBVIOUS
<1>3. /\ todo # <<>> /\ todo' = Tail(todo) /\ made' = Append(made, op)
      /\ summary' = [summary EXCEPT ![op.kind] = @ + op.len]
      /\ delta' = IF version <= 6 THEN [delta EXCEPT !.control = @ \o (Header(op) \o op.lit)]
                  ELSE [delta EXCEPT !.control = @ \o Header(op),
                                     !.inserts = @ \o (IF op.kind = "insert" THEN op.lit ELSE <<>>),
                                     !.adds = @ \o (IF op.kind \in {"add", "sparse"} THEN op.lit ELSE <<>>)]
  BY <1>2 DEF EncodeOp
<1>4. /\ version' = version /\ base' = base /\ cand' = cand /\ phase' = "encode" /\ passes' = passes /\ pos' = pos
      /\ basePos' = basePos /\ pend' = pend /\ mat' = mat /\ rest' = rest /\ built' = built
  BY DEF EncodeOp, subjectVars, decodeVars
<1>5. /\ version \in Nat /\ todo \in Seq(Whole(version)) /\ made \in Seq(Whole(version)) /\ delta \in DeltaRecords
      /\ delta.control # <<>> /\ Head(delta.control) = Len(made) + Len(todo) /\ delta.adds \in Seq(Bytes)
      /\ version <= 6 => delta.adds = <<>> /\ delta.inserts = <<>>
      /\ Books
  BY <1>1 DEF Wellformed, Encoding, DeltaRecords
<1>6. /\ Holds(version, "control", Tail(delta.control), made) /\ Holds(version, "inserts", delta.inserts, made)
      /\ Holds(version, "adds", delta.adds, made)
  BY <1>1 DEF Encoding
<1>7. PICK k \in Nat : Covers(base, cand, made, 0, k) /\ Covers(base, cand, todo, k, Len(cand)) /\ Counted = k
  BY <1>1 DEF Encoding, Rewritten
<1>8. /\ op \in Ops /\ op.len \in Nat /\ op.lit \in Seq(Bytes) /\ k + op.len \in Nat
      /\ Fits(base, cand, op, k) /\ Covers(base, cand, Tail(todo), k + op.len, Len(cand))
  BY <1>1, <1>2, <1>3, <1>7, HeadFits
<1>9. /\ op \in Whole(version) /\ Tail(todo) \in Seq(Whole(version)) /\ Append(made, op) \in Seq(Whole(version))
      /\ Len(Append(made, op)) + Len(Tail(todo)) = Len(made) + Len(todo)
      /\ Append(made, op) \in Seq(OpsOf(version)) /\ Tail(todo) \in Seq(OpsOf(version)) /\ made \in Seq(Ops)
  <2>1. op \in Whole(version) /\ Tail(todo) \in Seq(Whole(version))
    BY <1>2, <1>3, <1>5
  <2>2. Append(made, op) \in Seq(Whole(version))
    BY <1>5, <2>1
  <2>3. Len(Tail(todo)) = Len(todo) - 1 /\ Len(Append(made, op)) = Len(made) + 1 /\ Len(todo) \in Nat /\ Len(made) \in Nat
    BY <1>3, <1>5
  <2>4. Len(Append(made, op)) + Len(Tail(todo)) = Len(made) + Len(todo)
    <3>1. PICK m, n : m = Len(made) /\ n = Len(todo)
      OBVIOUS
    <3>2. m \in Nat /\ n \in Nat /\ (m + 1) + (n - 1) = m + n
      BY <2>3, <3>1
    <3> QED
      BY <2>3, <3>1, <3>2
  <2> QED
    BY <1>5, <2>1, <2>2, <2>4, SeqOfOps
<1>10. PICK c, i, a : c = Part(version, "control", op) /\ i = Part(version, "inserts", op) /\ a = Part(version, "adds", op)
  OBVIOUS
<1>11. c \in Seq(Items) /\ i \in Seq(Items) /\ i \in Seq(Bytes) /\ a \in Seq(Items) /\ a \in Seq(Bytes)
  BY <1>5, <1>8, <1>10, PartIs DEF Streams
<1>12. version <= 6 => c = Header(op) \o op.lit /\ i = <<>> /\ a = <<>>
  <2>1. version <= 6 => ~(version > 6)
    BY <1>5
  <2> QED
    BY <1>10, <2>1 DEF Part
<1>13. ~(version <= 6) => /\ c = Header(op) /\ i = (IF op.kind = "insert" THEN op.lit ELSE <<>>)
                          /\ a = (IF op.kind \in {"add", "sparse"} THEN op.lit ELSE <<>>)
  BY <1>5, <1>10 DEF Part
<1>14. PICK dc, di, da : dc = delta.control /\ di = delta.inserts /\ da = delta.adds
  OBVIOUS
<1>15. dc \in Seq(Items) /\ di \in Seq(Items) /\ da \in Seq(Items) /\ da \in Seq(Bytes) /\ dc # <<>>
  BY <1>5, <1>14 DEF DeltaRecords
<1>16. /\ delta' \in DeltaRecords /\ delta'.control = dc \o c /\ delta'.inserts = di \o i /\ delta'.adds = da \o a
  <2>1. dc \o c \in Seq(Items) /\ di \o i \in Seq(Items) /\ da \o a \in Seq(Items)
    BY <1>11, <1>15
  <2>2. CASE version <= 6
    <3>1. delta' = [delta EXCEPT !.control = dc \o c]
      BY <1>3, <1>12, <1>14, <2>2
    <3>2. di \o i = di /\ da \o a = da
      BY <1>12, <1>15, <2>2
    <3> QED
      BY <1>5, <1>14, <2>1, <3>1, <3>2 DEF DeltaRecords
  <2>3. CASE ~(version <= 6)
    <3>1. delta' = [delta EXCEPT !.control = dc \o c, !.inserts = di \o i, !.adds = da \o a]
      BY <1>3, <1>13, <1>14, <2>3
    <3> QED
      BY <1>5, <1>14, <2>1, <3>1 DEF DeltaRecords
  <2> QED
    BY <2>2, <2>3
<1>17. version <= 6 => delta'.adds = <<>> /\ delta'.inserts = <<>>
  BY <1>5, <1>12, <1>14, <1>16
<1>18. delta'.adds \in Seq(Bytes)
  BY <1>11, <1>15, <1>16
<1>19. Head(dc \o c) = Head(dc) /\ Tail(dc \o c) = Tail(dc) \o c /\ dc \o c # <<>>
  BY <1>11, <1>15, HeadAndTail
<1>20. PICK more : more = Append(made, op)
  OBVIOUS
<1>21. Holds(version, "control", Tail(dc) \o c, more)
  BY <1>5, <1>6, <1>8, <1>9, <1>10, <1>14, <1>20, HoldsMore DEF Streams
<1>22. Holds(version, "inserts", di \o i, more)
  BY <1>5, <1>6, <1>8, <1>9, <1>10, <1>14, <1>20, HoldsMore DEF Streams
<1>23. Holds(version, "adds", da \o a, more)
  BY <1>5, <1>6, <1>8, <1>9, <1>10, <1>14, <1>20, HoldsMore DEF Streams
<1>24. Covers(base, cand, more, 0, k + op.len)
  BY <1>7, <1>8, <1>9, <1>20, OneMore
<1>25. Books' /\ Counted' = k + op.len
  BY <1>3, <1>5, <1>7, <1>8, BookOp
<1>26. Rewritten(k + op.len)'
  BY <1>3, <1>4, <1>8, <1>20, <1>24 DEF Rewritten
<1>27. \E j \in Nat : Rewritten(j)' /\ Counted' = j
  BY <1>8, <1>25, <1>26
<1>28. Wellformed'
  BY <1>1, <1>3, <1>4, <1>9 DEF Wellformed
<1>29. Head(delta'.control) = Len(made') + Len(todo')
  BY <1>3, <1>5, <1>9, <1>14, <1>16, <1>19
<1>30. /\ Holds(version, "control", Tail(delta'.control), made') /\ Holds(version, "inserts", delta'.inserts, made')
       /\ Holds(version, "adds", delta'.adds, made') /\ delta'.control # <<>>
  BY <1>3, <1>16, <1>19, <1>20, <1>21, <1>22, <1>23
<1>31. todo' \in Seq(Whole(version)) /\ made' \in Seq(Whole(version)) /\ built' = <<>>
  BY <1>1, <1>3, <1>4, <1>9 DEF Encoding
<1>32. Encoding'
  BY <1>4, <1>16, <1>17, <1>18, <1>25, <1>27, <1>29, <1>30, <1>31 DEF Encoding, DeltaRecords
<1> QED
  BY <1>28, <1>32 DEF DeltaInv

(* A transform of the add stream, and the dictionary of the inserts.       *)
LEMMA EncodeKeeps ==
    ASSUME DeltaInv, Encode
    PROVE  DeltaInv'
<1>1. Wellformed /\ Encoding
  BY WhichPhase DEF Encode
<1>2. PICK t \in Transforms(version) :
        delta' = IF version <= 6 THEN [delta EXCEPT !.magic = version]
                 ELSE [delta EXCEPT !.magic = version, !.transform = t, !.adds = Transform(@, t),
                                    !.dictionary = Dictionary(version, delta.control)]
  BY DEF Encode
<1>3. /\ todo = <<>> /\ phase' = "open"
      /\ version' = version /\ base' = base /\ cand' = cand /\ passes' = passes /\ pos' = pos
      /\ basePos' = basePos /\ pend' = pend /\ todo' = todo /\ made' = made /\ mat' = mat /\ rest' = rest
      /\ built' = built /\ summary' = summary
  BY DEF Encode, subjectVars, decodeVars
<1>4. /\ version \in Nat /\ made \in Seq(Whole(version)) /\ delta \in DeltaRecords
      /\ delta.control # <<>> /\ Head(delta.control) = Len(made) + Len(todo) /\ delta.adds \in Seq(Bytes)
      /\ version <= 6 => delta.adds = <<>> /\ delta.inserts = <<>>
      /\ Holds(version, "control", Tail(delta.control), made) /\ Holds(version, "inserts", delta.inserts, made)
      /\ Holds(version, "adds", delta.adds, made) /\ built = <<>>
  BY <1>1 DEF Wellformed, Encoding, DeltaRecords
<1>5. Covers(base, cand, made, 0, Len(cand)) /\ Counted = Len(cand)
  <2>1. PICK k \in Nat : Covers(base, cand, made, 0, k) /\ Covers(base, cand, <<>>, k, Len(cand)) /\ Counted = k
    BY <1>1, <1>3 DEF Encoding, Rewritten
  <2>2. k = Len(cand)
    BY <2>1, NoOpsLeft
  <2> QED
    BY <2>1, <2>2
<1>6. Head(delta.control) = Len(made)
  <2>1. Len(made) \in Nat /\ Len(<<>>) = 0
    BY <1>4
  <2> QED
    BY <1>3, <1>4, <2>1
<1>7. delta'.magic = version /\ delta'.control = delta.control /\ delta'.inserts = delta.inserts
  BY <1>2, <1>4 DEF DeltaRecords
<1>8. version <= 6 => Holds(version, "adds", <<>>, made)
  BY <1>4
<1>9. version > 6 => /\ delta'.dictionary = Dictionary(version, delta.control)
                     /\ delta'.transform = t /\ delta'.adds = Transform(delta.adds, t)
  BY <1>2, <1>4 DEF DeltaRecords
<1>10. Dictionary(version, delta.control)' = Dictionary(version, delta.control)
  BY <1>3, <1>7 DEF Dictionary, ContextDictionary, ControlOps
<1>11. Encoded'
  BY <1>3, <1>4, <1>5, <1>7 DEF Encoded, Counted
<1>12. Opening'
  <2>1. version > 6 => \E s \in Seq(Bytes) : delta'.adds = Transform(s, delta'.transform) /\ Holds(version, "adds", s, made)
    BY <1>4, <1>9
  <2>2. delta.control \in Seq(Items) /\ delta.inserts \in Seq(Items)
    BY <1>4 DEF DeltaRecords
  <2> QED
    BY <1>2, <1>3, <1>4, <1>6, <1>7, <1>8, <1>9, <1>10, <1>11, <2>1, <2>2 DEF Opening
<1>13. Wellformed'
  BY <1>1, <1>3 DEF Wellformed
<1> QED
  BY <1>12, <1>13 DEF DeltaInv

-----------------------------------------------------------------------------
(* Opening the streams of a delta.                                         *)

(* A delta whose streams open holds the ops that were encoded.             *)
LEMMA OpenWith ==
    ASSUME Wellformed, Opening, NEW adds, adds \in Seq(Items), Holds(version, "adds", adds, made),
           phase' = "decode", rest' = Readers(adds), version' = version, base' = base, cand' = cand, passes' = passes,
           pos' = pos, basePos' = basePos, pend' = pend, todo' = todo, made' = made, mat' = mat, delta' = delta,
           built' = built, summary' = summary
    PROVE  DeltaInv'
<1>1. /\ Encoded /\ built = <<>> /\ delta.control \in Seq(Items) /\ delta.control # <<>>
      /\ Head(delta.control) = Len(made) /\ delta.inserts \in Seq(Items)
      /\ Holds(version, "control", Tail(delta.control), made) /\ Holds(version, "inserts", delta.inserts, made)
  BY DEF Opening
<1>2. made \in Seq(Whole(version)) /\ Covers(base, cand, made, 0, Len(cand)) /\ cand \in Seq(Bytes) /\ Len(made) \in Nat
  BY <1>1 DEF Encoded, Wellformed
<1>3. delta.control[1] = Len(made) /\ Tail(delta.control) \in Seq(Items)
  BY <1>1
<1>4. rest' = [ops |-> Len(made), control |-> Tail(delta.control), inserts |-> delta.inserts, adds |-> adds]
  BY <1>3 DEF Readers
<1>5. rest' \in [ops : Nat, control : Seq(Items), inserts : Seq(Items), adds : Seq(Items)]
  BY <1>1, <1>2, <1>3, <1>4
<1>6. /\ rest'.ops = Len(made) /\ rest'.control = Tail(delta.control) /\ rest'.inserts = delta.inserts /\ rest'.adds = adds
  BY <1>4
<1>7. Len(<<>>) = 0 /\ <<>> = Slice(cand, 0, 0) /\ 0 <= Len(cand)
  BY <1>2, SliceNone
<1>8. Reading(made)'
  BY <1>1, <1>2, <1>6, <1>7 DEF Reading
<1>9. Encoded'
  BY <1>1 DEF Encoded, Counted
<1>10. \E d \in Seq(Whole(version')) : Reading(d)'
  BY <1>2, <1>8
<1>11. Decoding'
  BY <1>5, <1>9, <1>10 DEF Decoding
<1>12. Wellformed'
  BY DEF Wellformed
<1> QED
  BY <1>11, <1>12 DEF DeltaInv

LEMMA OpenOneStreamKeeps ==
    ASSUME DeltaInv, OpenOneStream
    PROVE  DeltaInv'
<1>1. Wellformed /\ Opening
  BY WhichPhase DEF OpenOneStream
<1>2. /\ delta.magic <= 6 /\ rest' = Readers(<<>>) /\ phase' = "decode"
      /\ version' = version /\ base' = base /\ cand' = cand /\ passes' = passes /\ pos' = pos
      /\ basePos' = basePos /\ pend' = pend /\ todo' = todo /\ made' = made /\ mat' = mat /\ delta' = delta
      /\ built' = built /\ summary' = summary
  BY DEF OpenOneStream, subjectVars
<1>3. version <= 6 /\ <<>> \in Seq(Items)
  BY <1>1, <1>2 DEF Opening, Encoded
<1>4. Holds(version, "adds", <<>>, made)
  BY <1>1, <1>3 DEF Opening
<1> QED
  BY <1>1, <1>2, <1>3, <1>4, OpenWith

(* The dictionary is that of the encoder: it is made of the base and the   *)
(* control stream.                                                         *)
LEMMA OpenSplitKeeps ==
    ASSUME Wellformed, Opening, version > 6, NEW adds, adds \in Seq(Items),
           Holds(version, "adds", adds, made), OpenSplit(adds, TRUE)
    PROVE  DeltaInv'
<1>1. delta.dictionary = Dictionary(version, delta.control) /\ delta.magic = version
  BY DEF Opening, Encoded
<1>2. /\ phase' = "decode" /\ rest' = Readers(adds)
      /\ version' = version /\ base' = base /\ cand' = cand /\ passes' = passes /\ pos' = pos
      /\ basePos' = basePos /\ pend' = pend /\ todo' = todo /\ made' = made /\ mat' = mat /\ delta' = delta
      /\ built' = built /\ summary' = summary
  BY <1>1 DEF OpenSplit, subjectVars
<1> QED
  BY <1>2, OpenWith

LEMMA AddsOf ==
    ASSUME Wellformed, Opening, version > 6
    PROVE  \E s \in Seq(Bytes) : /\ s \in Seq(Items) /\ Holds(version, "adds", s, made)
                                 /\ delta.adds = Transform(s, delta.transform)
                                 /\ delta.transform \in Transforms(version) /\ delta.magic = version /\ version \in Nat
<1>1. delta.transform \in Transforms(version) /\ delta.magic = version
  BY DEF Opening, Encoded
<1>2. PICK s \in Seq(Bytes) : delta.adds = Transform(s, delta.transform) /\ Holds(version, "adds", s, made)
  BY DEF Opening
<1>3. s \in Seq(Items)
  <2>1. made \in Seq(Ops)
    BY SeqOfOps DEF Wellformed
  <2> QED
    BY <1>2, <2>1, HoldsItems
<1> QED
  BY <1>1, <1>2, <1>3 DEF Wellformed

LEMMA OpenPlainAddsKeeps ==
    ASSUME DeltaInv, OpenPlainAdds
    PROVE  DeltaInv'
<1>1. Wellformed /\ Opening
  BY WhichPhase DEF OpenPlainAdds
<1>2. delta.magic \in 7..11 /\ OpenSplit(delta.adds, TRUE)
  BY DEF OpenPlainAdds
<1>3. delta.magic = version /\ version > 6
  BY <1>1, <1>2 DEF Opening, Encoded
<1>4. PICK s \in Seq(Bytes) : /\ s \in Seq(Items) /\ Holds(version, "adds", s, made)
                              /\ delta.adds = Transform(s, delta.transform) /\ delta.transform \in Transforms(version)
  BY <1>1, <1>3, AddsOf
<1>5. delta.transform = "raw"
  BY <1>2, <1>3, <1>4 DEF Transforms
<1>6. delta.adds = s
  BY <1>4, <1>5 DEF Transform
<1> QED
  BY <1>1, <1>2, <1>3, <1>4, <1>6, OpenSplitKeeps

LEMMA OpenTransformedAddsKeeps ==
    ASSUME DeltaInv, OpenTransformedAdds
    PROVE  DeltaInv'
<1>1. Wellformed /\ Opening
  BY WhichPhase DEF OpenTransformedAdds
<1>2. delta.magic \in {12, 13} /\ OpenSplit(Restore(delta.adds, delta.transform), Restorable(delta.adds, delta.transform))
  BY DEF OpenTransformedAdds
<1>3. delta.magic = version /\ version > 6
  BY <1>1, <1>2 DEF Opening, Encoded
<1>4. PICK s \in Seq(Bytes) : /\ s \in Seq(Items) /\ Holds(version, "adds", s, made)
                              /\ delta.adds = Transform(s, delta.transform) /\ delta.transform \in Transforms(version)
  BY <1>1, <1>3, AddsOf
<1>5. delta.transform \in {"raw", "delta", "xor", "bitplane"}
  BY <1>2, <1>3, <1>4 DEF Transforms
<1>6. Restore(delta.adds, delta.transform) = s
  BY <1>4, <1>5, Restored
<1>7. Restorable(delta.adds, delta.transform) = TRUE
  <2>1. CASE delta.transform = "bitplane"
    <3>1. delta.adds = Bitplane(s)
      BY <1>4, <2>1 DEF Transform
    <3>2. BitplaneFits(Bitplane(s))
      BY BitplaneFitsIt
    <3> QED
      BY <3>1, <3>2 DEF Restorable
  <2>2. CASE delta.transform # "bitplane"
    BY <2>2 DEF Restorable
  <2> QED
    BY <2>1, <2>2
<1>8. OpenSplit(s, TRUE)
  BY <1>2, <1>6, <1>7, Zenon
<1> QED
  BY <1>1, <1>3, <1>4, <1>8, OpenSplitKeeps

LEMMA OpenOneOtherAddsKeeps ==
    ASSUME DeltaInv, OpenOneOtherAdds
    PROVE  DeltaInv'
<1>1. Wellformed /\ Opening
  BY WhichPhase DEF OpenOneOtherAdds
<1>2. delta.magic = 14 /\ OpenSplit(RestoreOneOther(delta.adds), OneOtherFits(delta.adds))
  BY DEF OpenOneOtherAdds
<1>3. delta.magic = version /\ version > 6
  BY <1>1, <1>2 DEF Opening, Encoded
<1>4. PICK s \in Seq(Bytes) : /\ s \in Seq(Items) /\ Holds(version, "adds", s, made)
                              /\ delta.adds = Transform(s, delta.transform) /\ delta.transform \in Transforms(version)
  BY <1>1, <1>3, AddsOf
<1>5. delta.transform = "oneother"
  BY <1>2, <1>3, <1>4 DEF Transforms
<1>6. RestoreOneOther(delta.adds) = s /\ OneOtherFits(delta.adds) = TRUE
  <2>1. delta.adds = OneOther(s)
    BY <1>4, <1>5 DEF Transform
  <2>2. OneOtherFits(delta.adds) \in BOOLEAN
    BY DEF OneOtherFits
  <2> QED
    BY <2>1, <2>2, OneOtherRestored, OneOtherFitsIt
<1>7. OpenSplit(s, TRUE)
  BY <1>2, <1>6, Zenon
<1> QED
  BY <1>1, <1>3, <1>4, <1>7, OpenSplitKeeps

-----------------------------------------------------------------------------
(* Decoding.                                                               *)

(* What was put in front of a stream is read from it.                      *)
LEMMA TakenOff ==
    ASSUME NEW S, NEW s \in Seq(S), NEW t \in Seq(S)
    PROVE  /\ Len(s) <= Len(s \o t) /\ Slice(s \o t, 0, Len(s)) = s /\ From(s \o t, Len(s)) = t
           /\ s # <<>> => s \o t # <<>>
<1> DEFINE u == s \o t
<1>1. /\ u \in Seq(S) /\ Len(u) = Len(s) + Len(t) /\ \A i \in 1..Len(s) : u[i] = s[i]
  BY CatIs
<1>2. From(u, Len(s)) = t
  BY FromCat
<1> HIDE DEF u
<1>3. Len(s) \in Nat /\ Len(t) \in Nat /\ Len(s) <= Len(u)
  BY <1>1
<1>4. PICK r : r = Slice(u, 0, Len(s))
  OBVIOUS
<1>5. r \in Seq(S) /\ Len(r) = Len(s) /\ \A i \in 1..Len(s) : r[i] = u[i]
  BY <1>1, <1>3, <1>4, PrefixIs
<1>6. r = s
  <2>1. \A i \in 1..Len(r) : r[i] = s[i]
    BY <1>1, <1>5
  <2> QED
    BY <1>5, <2>1, SameSeq
<1>7. s # <<>> => u # <<>>
  <2>1. s # <<>> => Len(s) # 0
    OBVIOUS
  <2>2. Len(<<>>) = 0
    OBVIOUS
  <2> QED
    BY <1>1, <1>3, <2>1, <2>2
<1> USE DEF u
<1> QED
  BY <1>3, <1>4, <1>6, <1>2, <1>7

(* The header that is read is the one that was written.                    *)
LEMMA ControlRead ==
    ASSUME NEW v \in Nat, NEW op \in Ops, NEW t \in Seq(Items), NEW control, control = Part(v, "control", op) \o t
    PROVE  /\ control[1] = op.kind /\ control[2] = op.off /\ control[3] = op.len
           /\ op.kind = "sparse" => control[4] = Len(op.lit)
           /\ From(control, IF op.kind = "sparse" THEN 4 ELSE 3) = IF v <= 6 THEN op.lit \o t ELSE t
<1>1. PICK h, n : h = Header(op) /\ n = Len(h)
  OBVIOUS
<1>2. /\ h \in Seq(Items) /\ n = (IF op.kind = "sparse" THEN 4 ELSE 3)
      /\ h[1] = op.kind /\ h[2] = op.off /\ h[3] = op.len
      /\ op.kind = "sparse" => h[4] = Len(op.lit)
  BY <1>1, HeaderIs
<1>3. op.lit \in Seq(Items)
  <2>1. op.lit \in Seq(Bytes) /\ Bytes \subseteq Items
    BY BytesNat DEF Ops, Items
  <2> QED
    BY <2>1
<1>4. PICK r : r = IF v <= 6 THEN op.lit \o t ELSE t
  OBVIOUS
<1>5. r \in Seq(Items)
  BY <1>3, <1>4
<1>6. control = h \o r
  <2>1. CASE v <= 6
    <3>1. control = (h \o op.lit) \o t
      BY <1>1, <2>1 DEF Part
    <3>2. PICK l : l = op.lit
      OBVIOUS
    <3>3. h \in Seq(Items) /\ l \in Seq(Items) /\ t \in Seq(Items)
      BY <1>2, <1>3, <3>2
    <3>4. (h \o l) \o t = h \o (l \o t)
      BY <3>3, CatAssoc, SMTT(30)
    <3> QED
      BY <1>4, <2>1, <3>1, <3>2, <3>4
  <2>2. CASE ~(v <= 6)
    BY <1>1, <1>4, <2>2 DEF Part
  <2> QED
    BY <2>1, <2>2
<1>7. \A i \in 1..n : control[i] = h[i]
  <2>1. h \in Seq(Items) /\ r \in Seq(Items)
    BY <1>2, <1>5
  <2>2. \A i \in 1..Len(h) : (h \o r)[i] = h[i]
    BY <2>1, CatIs
  <2> QED
    BY <1>1, <1>6, <2>2
<1>8. From(control, n) = r
  <2>1. h \in Seq(Items) /\ r \in Seq(Items)
    BY <1>2, <1>5
  <2>2. From(h \o r, Len(h)) = r
    BY <2>1, TakenOff
  <2> QED
    BY <1>1, <1>6, <2>2
<1>9. 1 \in 1..n /\ 2 \in 1..n /\ 3 \in 1..n /\ (op.kind = "sparse" => 4 \in 1..n)
  BY <1>2
<1>10. control[1] = h[1] /\ control[2] = h[2] /\ control[3] = h[3] /\ (op.kind = "sparse" => control[4] = h[4])
  BY <1>7, <1>9
<1>11. control[1] = op.kind /\ control[2] = op.off /\ control[3] = op.len /\ (op.kind = "sparse" => control[4] = Len(op.lit))
  BY <1>2, <1>10
<1>12. From(control, IF op.kind = "sparse" THEN 4 ELSE 3) = IF v <= 6 THEN op.lit \o t ELSE t
  BY <1>2, <1>4, <1>8, Zenon
<1> QED
  BY <1>11, <1>12, Zenon

(* An op has nothing in the streams its literal is not in.                 *)
LEMMA OthersNone ==
    ASSUME NEW v \in Nat, NEW b, NEW c, NEW op \in Ops, NEW at, Fits(b, c, op, at), NEW stream \in {"inserts", "adds"}
    PROVE  IF v > 6 /\ stream = (IF op.kind = "insert" THEN "inserts" ELSE "adds")
           THEN Part(v, stream, op) = op.lit ELSE Part(v, stream, op) = <<>>
<1>1. op.kind \in Kinds
  BY DEF Ops
<1>2. op.kind \in {"copy", "output"} => op.lit = <<>>
  BY DEF Fits
<1> QED
  BY <1>1, <1>2 DEF Part, Kinds

ReaderRecords == [ops : Nat, control : Seq(Items), inserts : Seq(Items), adds : Seq(Items)]

LEMMA ReaderWith ==
    ASSUME NEW r \in ReaderRecords, NEW x
    PROVE  /\ [r EXCEPT !["control"] = x] = [ops |-> r.ops, control |-> x, inserts |-> r.inserts, adds |-> r.adds]
           /\ [r EXCEPT !["inserts"] = x] = [ops |-> r.ops, control |-> r.control, inserts |-> x, adds |-> r.adds]
           /\ [r EXCEPT !["adds"] = x] = [ops |-> r.ops, control |-> r.control, inserts |-> r.inserts, adds |-> x]
<1>1. r = [ops |-> r.ops, control |-> r.control, inserts |-> r.inserts, adds |-> r.adds]
  BY DEF ReaderRecords
<1>2. PICK o, c, i, a : o = r.ops /\ c = r.control /\ i = r.inserts /\ a = r.adds
  OBVIOUS
<1>3. r = [ops |-> o, control |-> c, inserts |-> i, adds |-> a]
  BY <1>1, <1>2, Zenon
<1>4. [r EXCEPT !["control"] = x] = [ops |-> o, control |-> x, inserts |-> i, adds |-> a]
  BY <1>3
<1>5. [r EXCEPT !["inserts"] = x] = [ops |-> o, control |-> c, inserts |-> x, adds |-> a]
  BY <1>3
<1>6. [r EXCEPT !["adds"] = x] = [ops |-> o, control |-> c, inserts |-> i, adds |-> x]
  BY <1>3
<1> QED
  BY <1>2, <1>4, <1>5, <1>6, Zenon

(* The streams when the header of the op is read and its literals are not. *)
AfterHeader(r, v, op, tc, ti, ta) ==
    /\ r.control = (IF v <= 6 THEN op.lit \o tc ELSE tc)
    /\ r.inserts = Part(v, "inserts", op) \o ti /\ r.adds = Part(v, "adds", op) \o ta

(* The literal that is read is the one that was written, and the readers   *)
(* move on past it.                                                        *)
LEMMA LiteralRead ==
    ASSUME NEW v \in Nat, delta.magic = v, NEW op \in Ops, NEW at, Fits(base, cand, op, at),
           NEW r \in ReaderRecords, NEW tc \in Seq(Items), NEW ti \in Seq(Items), NEW ta \in Seq(Items),
           AfterHeader(r, v, op, tc, ti, ta)
    PROVE  LET from == Reader(op.kind) IN
           /\ Len(op.lit) <= Len(r[from]) /\ Slice(r[from], 0, Len(op.lit)) = op.lit
           /\ op.lit # <<>> => r[from] # <<>>
           /\ [r EXCEPT ![from] = From(@, Len(op.lit))] =
                [ops |-> r.ops, control |-> tc, inserts |-> ti, adds |-> ta]
<1>1. op.lit \in Seq(Items) /\ op.lit \in Seq(Bytes)
  <2>1. op.lit \in Seq(Bytes) /\ Bytes \subseteq Items
    BY BytesNat DEF Ops, Items
  <2> QED
    BY <2>1
<1>2. PICK l, n : l = op.lit /\ n = Len(l)
  OBVIOUS
<1>3. l \in Seq(Items)
  BY <1>1, <1>2
<1>4. PICK pi, pa : pi = Part(v, "inserts", op) /\ pa = Part(v, "adds", op)
  OBVIOUS
<1>5. /\ r.control = (IF v <= 6 THEN op.lit \o tc ELSE tc)
       /\ r.inserts = Part(v, "inserts", op) \o ti /\ r.adds = Part(v, "adds", op) \o ta
  BY Zenon DEF AfterHeader
<1>6. /\ IF v > 6 /\ op.kind = "insert" THEN pi = l ELSE pi = <<>>
      /\ IF v > 6 /\ op.kind # "insert" THEN pa = l ELSE pa = <<>>
  BY <1>2, <1>4, OthersNone
<1>7. <<>> \o ti = ti /\ <<>> \o ta = ta
  OBVIOUS
<1>8. ASSUME NEW from, NEW t \in Seq(Items), r[from] = l \o t
      PROVE  n <= Len(r[from]) /\ Slice(r[from], 0, n) = l /\ (l # <<>> => r[from] # <<>>) /\ From(r[from], n) = t
  <2>1. PICK u : u = r[from]
    OBVIOUS
  <2>2. u = l \o t
    BY <1>8, <2>1
  <2>3. Len(l) <= Len(u) /\ Slice(u, 0, Len(l)) = l /\ From(u, Len(l)) = t /\ (l # <<>> => u # <<>>)
    <3>1. /\ Len(l) <= Len(l \o t) /\ Slice(l \o t, 0, Len(l)) = l /\ From(l \o t, Len(l)) = t
          /\ l # <<>> => l \o t # <<>>
      BY <1>3, <1>8, TakenOff
    <3> QED
      BY <2>2, <3>1, Zenon
  <2> QED
    BY <1>2, <2>1, <2>3
<1>9. CASE v <= 6
  <2>1. Reader(op.kind) = "control"
    BY <1>9 DEF Reader
  <2>2. r["control"] = l \o tc /\ r.inserts = ti /\ r.adds = ta
    <3>1. pi = <<>> /\ pa = <<>>
      BY <1>6, <1>9
    <3> QED
      BY <1>2, <1>4, <1>7, <1>9, <1>5, <3>1, Zenon
  <2>3. /\ n <= Len(r["control"]) /\ Slice(r["control"], 0, n) = l /\ (l # <<>> => r["control"] # <<>>)
        /\ From(r["control"], n) = tc
    BY <1>8, <2>2
  <2>4. [r EXCEPT !["control"] = From(@, n)] = [ops |-> r.ops, control |-> tc, inserts |-> ti, adds |-> ta]
    <3>1. [r EXCEPT !["control"] = From(r["control"], n)] = [r EXCEPT !["control"] = tc]
      BY <2>3
    <3> QED
      BY <2>2, <3>1, ReaderWith
  <2> QED
    BY <1>2, <2>1, <2>3, <2>4
<1>10. CASE ~(v <= 6) /\ op.kind = "insert"
  <2>1. Reader(op.kind) = "inserts"
    BY <1>10 DEF Reader
  <2>2. r["inserts"] = l \o ti /\ r.control = tc /\ r.adds = ta
    <3>1. pi = l /\ pa = <<>>
      BY <1>6, <1>10
    <3> QED
      BY <1>2, <1>4, <1>7, <1>10, <1>5, <3>1, Zenon
  <2>3. /\ n <= Len(r["inserts"]) /\ Slice(r["inserts"], 0, n) = l /\ (l # <<>> => r["inserts"] # <<>>)
        /\ From(r["inserts"], n) = ti
    BY <1>8, <2>2
  <2>4. [r EXCEPT !["inserts"] = From(@, n)] = [ops |-> r.ops, control |-> tc, inserts |-> ti, adds |-> ta]
    <3>1. [r EXCEPT !["inserts"] = From(r["inserts"], n)] = [r EXCEPT !["inserts"] = ti]
      BY <2>3
    <3> QED
      BY <2>2, <3>1, ReaderWith
  <2> QED
    BY <1>2, <2>1, <2>3, <2>4
<1>11. CASE ~(v <= 6) /\ op.kind # "insert"
  <2>1. Reader(op.kind) = "adds"
    BY <1>11 DEF Reader
  <2>2. r["adds"] = l \o ta /\ r.control = tc /\ r.inserts = ti
    <3>1. pi = <<>> /\ pa = l
      BY <1>6, <1>11
    <3> QED
      BY <1>2, <1>4, <1>7, <1>11, <1>5, <3>1, Zenon
  <2>3. /\ n <= Len(r["adds"]) /\ Slice(r["adds"], 0, n) = l /\ (l # <<>> => r["adds"] # <<>>)
        /\ From(r["adds"], n) = ta
    BY <1>8, <2>2
  <2>4. [r EXCEPT !["adds"] = From(@, n)] = [ops |-> r.ops, control |-> tc, inserts |-> ti, adds |-> ta]
    <3>1. [r EXCEPT !["adds"] = From(r["adds"], n)] = [r EXCEPT !["adds"] = ta]
      BY <2>3
    <3> QED
      BY <2>2, <3>1, ReaderWith
  <2> QED
    BY <1>2, <2>1, <2>3, <2>4
<1> QED
  BY <1>9, <1>10, <1>11

(* None of the checks of a decoder refuses an op that fits.                *)
LEMMA NotRefused ==
    ASSUME NEW v \in Nat, delta.magic = v, NEW op \in Whole(v), Fits(base, cand, op, Len(built)),
           NEW left, Len(op.lit) <= Len(left), op.lit # <<>> => left # <<>>
    PROVE  /\ v <= 6 => ~RefusedByOneStream(op.kind, op.off, op.len, Len(op.lit), left)
           /\ ~(v <= 6) => ~RefusedBySplit(op.kind, op.off, op.len, Len(op.lit), left)
           /\ op.kind = "sparse" => SparseFits(op.lit, op.len)
<1>1. op \in Ops /\ op.len \in Nat /\ op.off \in Nat /\ op.len > 0 /\ op.lit \in Seq(Bytes) /\ (op.kind = "output" => v > 6)
  BY DEF Whole, OpsOf, Ops
<1>2. /\ op.kind \in {"copy", "add", "sparse"} => op.off + op.len <= Len(base)
      /\ op.kind = "output" => op.off + op.len <= Len(built)
      /\ op.kind = "sparse" => op.lit # <<>> /\ SparseFits(op.lit, op.len)
      /\ op.kind \in {"insert", "add"} => Len(op.lit) = op.len
  BY DEF Fits
<1>3. op.kind \in {"insert", "add"} => op.lit # <<>>
  <2>1. Len(<<>>) = 0
    OBVIOUS
  <2> QED
    BY <1>1, <1>2, <2>1
<1>4. base \in Seq(Bytes) /\ built \in Seq(Bytes) => Len(base) \in Nat /\ Len(built) \in Nat
  OBVIOUS
<1>5. op.kind \in {"insert", "add", "sparse"} => left # <<>>
  BY <1>2, <1>3
<1>6. PICK sum : sum = op.off + op.len
  OBVIOUS
<1> QED
  BY <1>1, <1>2, <1>5 DEF RefusedByOneStream, RefusedBySplit

(* An op is decoded to the bytes of the candidate in its place.            *)
LEMMA DecodeKeeps ==
    ASSUME DeltaInv, Decode
    PROVE  DeltaInv'
<1>1. Wellformed /\ Decoding
  BY WhichPhase DEF Decode
<1>2. PICK v : v = version
  OBVIOUS
<1>3. /\ v \in Nat /\ delta.magic = v /\ Encoded /\ rest \in ReaderRecords /\ built \in Seq(Bytes) /\ cand \in Seq(Bytes)
      /\ base \in Seq(Bytes)
  BY <1>1, <1>2 DEF Wellformed, Decoding, Encoded, ReaderRecords
<1>4. PICK d \in Seq(Whole(v)) : Reading(d)
  BY <1>1, <1>2 DEF Decoding
<1>5. /\ rest.ops = Len(d) /\ Holds(v, "control", rest.control, d) /\ Holds(v, "inserts", rest.inserts, d)
      /\ Holds(v, "adds", rest.adds, d) /\ built = Slice(cand, 0, Len(built)) /\ Len(built) <= Len(cand)
      /\ Covers(base, cand, d, Len(built), Len(cand))
  BY <1>2, <1>4 DEF Reading
<1>6. rest.ops > 0
  BY DEF Decode
<1>7. PICK op, t : op = Head(d) /\ t = Tail(d)
  OBVIOUS
<1>8. d # <<>> /\ op \in Whole(v) /\ t \in Seq(Whole(v)) /\ Len(t) = Len(d) - 1 /\ d \in Seq(Ops) /\ op \in Ops /\ Len(d) \in Nat
  <2>1. d # <<>>
    <3>1. Len(<<>>) = 0
      OBVIOUS
    <3> QED
      BY <1>5, <1>6, <3>1
  <2> QED
    BY <1>7, <2>1, SeqOfOps
<1>9. PICK at : at = Len(built)
  OBVIOUS
<1>10. at \in Nat /\ Fits(base, cand, op, at) /\ Covers(base, cand, t, at + op.len, Len(cand))
  BY <1>3, <1>5, <1>7, <1>8, <1>9, FirstOf
<1>11. PICK tc \in Seq(Items) : rest.control = Part(v, "control", op) \o tc /\ Holds(v, "control", tc, t)
  BY <1>3, <1>5, <1>7, <1>8, HoldsFirst DEF Streams
<1>12. PICK ti \in Seq(Items) : rest.inserts = Part(v, "inserts", op) \o ti /\ Holds(v, "inserts", ti, t)
  BY <1>3, <1>5, <1>7, <1>8, HoldsFirst DEF Streams
<1>13. PICK ta \in Seq(Items) : rest.adds = Part(v, "adds", op) \o ta /\ Holds(v, "adds", ta, t)
  BY <1>3, <1>5, <1>7, <1>8, HoldsFirst DEF Streams
<1>14. PICK kind, off, len, lit, n : kind = op.kind /\ off = op.off /\ len = op.len /\ lit = op.lit /\ n = Len(lit)
  OBVIOUS
<1>15. PICK head : head = IF kind = "sparse" THEN 4 ELSE 3
  OBVIOUS
<1>16. /\ rest.control[1] = kind /\ rest.control[2] = off /\ rest.control[3] = len
       /\ kind = "sparse" => rest.control[4] = n
       /\ From(rest.control, head) = IF v <= 6 THEN lit \o tc ELSE tc
  <2>1. PICK c : c = rest.control
    OBVIOUS
  <2>2. v \in Nat /\ op \in Ops /\ c = Part(v, "control", op) \o tc
    BY <1>3, <1>8, <1>11, <2>1
  <2>3. /\ c[1] = op.kind /\ c[2] = op.off /\ c[3] = op.len
        /\ op.kind = "sparse" => c[4] = Len(op.lit)
        /\ From(c, IF op.kind = "sparse" THEN 4 ELSE 3) = IF v <= 6 THEN op.lit \o tc ELSE tc
    BY <2>2, ControlRead, ZenonT(30)
  <2> QED
    BY <1>14, <1>15, <2>1, <2>3, Zenon
<1>17. (CASE kind = "sparse" -> rest.control[4] [] kind \in {"insert", "add"} -> len [] OTHER -> 0) = n
  <2>1. kind \in {"insert", "add"} => n = len
    BY <1>10, <1>14 DEF Fits
  <2>2. kind \in {"copy", "output"} => n = 0
    <3>1. Len(<<>>) = 0
      OBVIOUS
    <3> QED
      BY <1>10, <1>14, <3>1 DEF Fits
  <2>3. kind \in Kinds
    BY <1>8, <1>14 DEF Ops
  <2> QED
    BY <1>16, <2>1, <2>2, <2>3 DEF Kinds
<1>18. PICK r : r = [rest EXCEPT !.control = From(@, head), !.ops = @ - 1]
  OBVIOUS
<1>19. /\ r \in ReaderRecords /\ r.control = (IF v <= 6 THEN lit \o tc ELSE tc) /\ r.inserts = rest.inserts
       /\ r.adds = rest.adds /\ r.ops = Len(t)
  <2>1. (IF v <= 6 THEN lit \o tc ELSE tc) \in Seq(Items)
    <3>1. lit \in Seq(Items)
      <4>1. lit \in Seq(Bytes) /\ Bytes \subseteq Items
        BY <1>8, <1>14, BytesNat DEF Ops, Items
      <4> QED
        BY <4>1
    <3> QED
      BY <3>1
  <2>2. rest.ops - 1 = Len(t) /\ Len(t) \in Nat
    BY <1>5, <1>8
  <2> QED
    BY <1>3, <1>16, <1>18, <2>1, <2>2 DEF ReaderRecords
<1>20. PICK from : from = Reader(kind)
  OBVIOUS
<1>21. /\ n <= Len(r[from]) /\ Slice(r[from], 0, n) = lit /\ (lit # <<>> => r[from] # <<>>)
       /\ [r EXCEPT ![from] = From(@, n)] = [ops |-> Len(t), control |-> tc, inserts |-> ti, adds |-> ta]
  <2>1. AfterHeader(r, v, op, tc, ti, ta)
    BY <1>12, <1>13, <1>14, <1>19 DEF AfterHeader
  <2>2. /\ Len(op.lit) <= Len(r[from]) /\ Slice(r[from], 0, Len(op.lit)) = op.lit
        /\ op.lit # <<>> => r[from] # <<>>
        /\ [r EXCEPT ![from] = From(@, Len(op.lit))] = [ops |-> r.ops, control |-> tc, inserts |-> ti, adds |-> ta]
    <3>1. v \in Nat /\ delta.magic = v /\ op \in Ops /\ Fits(base, cand, op, at) /\ r \in ReaderRecords
      BY <1>3, <1>8, <1>10, <1>19
    <3>2. from = Reader(op.kind)
      BY <1>14, <1>20
    <3>3. /\ Len(op.lit) <= Len(r[Reader(op.kind)]) /\ Slice(r[Reader(op.kind)], 0, Len(op.lit)) = op.lit
          /\ op.lit # <<>> => r[Reader(op.kind)] # <<>>
          /\ [r EXCEPT ![Reader(op.kind)] = From(@, Len(op.lit))] =
               [ops |-> r.ops, control |-> tc, inserts |-> ti, adds |-> ta]
      BY <2>1, <3>1, LiteralRead
    <3> QED
      BY <3>2, <3>3, Zenon
  <2> QED
    BY <1>14, <1>19, <2>2
<1>22. /\ v <= 6 => ~RefusedByOneStream(kind, off, len, n, r[from])
       /\ ~(v <= 6) => ~RefusedBySplit(kind, off, len, n, r[from])
       /\ kind = "sparse" => SparseFits(lit, len)
  BY <1>3, <1>8, <1>9, <1>10, <1>14, <1>21, NotRefused
<1>23. /\ built' = built \o Yield(Op(kind, off, len, lit), built)
       /\ rest' = [r EXCEPT ![from] = From(@, n)] /\ phase' = "decode"
  BY <1>3, <1>15, <1>16, <1>17, <1>18, <1>20, <1>21, <1>22, Zenon DEF Decode
<1>24. /\ version' = version /\ base' = base /\ cand' = cand /\ passes' = passes /\ pos' = pos
       /\ basePos' = basePos /\ pend' = pend /\ todo' = todo /\ made' = made /\ mat' = mat /\ delta' = delta
       /\ summary' = summary
  BY DEF Decode, subjectVars
<1>25. Op(kind, off, len, lit) = op
  BY <1>8, <1>14 DEF Op, Ops
<1>26. PICK to : to = at + op.len
  OBVIOUS
<1>27. to \in Nat /\ to <= Len(cand) /\ op.len \in Nat
  <2>1. op.len \in Nat
    BY <1>8 DEF Ops
  <2>2. at + op.len <= Len(cand)
    BY <1>8, <1>10, FitsInside
  <2> QED
    BY <1>10, <1>26, <2>1, <2>2
<1>28. built' = Slice(cand, 0, to) /\ Slice(cand, 0, to) \in Seq(Bytes) /\ Len(Slice(cand, 0, to)) = to
  <2>1. Yield(op, built) = Slice(cand, at, op.len)
    BY <1>3, <1>5, <1>8, <1>9, <1>10, YieldIs
  <2>2. built' = Slice(cand, 0, at) \o Slice(cand, at, op.len)
    BY <1>5, <1>9, <1>23, <1>25, <2>1
  <2>3. Slice(cand, 0, at) \o Slice(cand, at, op.len) = Slice(cand, 0, at + op.len)
    BY <1>3, <1>10, <1>26, <1>27, SliceOn
  <2>4. Slice(cand, 0, to) \in Seq(Bytes) /\ Len(Slice(cand, 0, to)) = to
    BY <1>3, <1>27, PrefixIs
  <2> QED
    BY <1>26, <2>2, <2>3, <2>4
<1>29. Len(built') = to
  BY <1>28
<1>30. rest' = [ops |-> Len(t), control |-> tc, inserts |-> ti, adds |-> ta]
  BY <1>21, <1>23
<1>31. rest'.ops = Len(t) /\ rest'.control = tc /\ rest'.inserts = ti /\ rest'.adds = ta
  BY <1>30
<1>32. rest' \in ReaderRecords
  <2>1. Len(t) \in Nat
    BY <1>8
  <2> QED
    BY <1>30, <2>1 DEF ReaderRecords
<1>33. Reading(t)'
  BY <1>2, <1>10, <1>11, <1>12, <1>13, <1>24, <1>26, <1>27, <1>28, <1>29, <1>31 DEF Reading
<1>34. Encoded'
  BY <1>3, <1>24 DEF Encoded, Counted
<1>35. \E x \in Seq(Whole(version')) : Reading(x)'
  BY <1>2, <1>8, <1>24, <1>33
<1>36. Decoding'
  BY <1>23, <1>32, <1>34, <1>35 DEF Decoding, ReaderRecords
<1>37. Wellformed'
  BY <1>1, <1>24, <1>28 DEF Wellformed
<1> QED
  BY <1>36, <1>37 DEF DeltaInv

(* At the end the streams are used up and the candidate is built.          *)
LEMMA VerifyDeltaKeeps ==
    ASSUME DeltaInv, VerifyDelta
    PROVE  DeltaInv'
<1>1. Wellformed /\ Decoding
  BY WhichPhase DEF VerifyDelta
<1>2. /\ rest.ops = 0 /\ phase' = IF Leftover \/ built # cand THEN "refused" ELSE "written"
      /\ version' = version /\ base' = base /\ cand' = cand /\ passes' = passes /\ pos' = pos
      /\ basePos' = basePos /\ pend' = pend /\ todo' = todo /\ made' = made /\ mat' = mat /\ delta' = delta
      /\ rest' = rest /\ built' = built /\ summary' = summary
  BY DEF VerifyDelta, subjectVars, codeVars
<1>3. PICK d \in Seq(Whole(version)) : Reading(d)
  BY <1>1 DEF Decoding
<1>4. d = <<>>
  <2>1. Len(d) = 0
    BY <1>2, <1>3 DEF Reading
  <2> QED
    BY <2>1
<1>5. /\ Holds(version, "control", rest.control, <<>>) /\ Holds(version, "inserts", rest.inserts, <<>>)
      /\ Holds(version, "adds", rest.adds, <<>>) /\ built = Slice(cand, 0, Len(built))
      /\ Covers(base, cand, <<>>, Len(built), Len(cand))
  BY <1>3, <1>4 DEF Reading
<1>6. rest.control = <<>> /\ rest.inserts = <<>> /\ rest.adds = <<>>
  BY <1>5, HoldsNothing
<1>7. built = cand
  <2>1. Len(built) = Len(cand)
    BY <1>5, NoOpsLeft
  <2>2. cand \in Seq(Bytes)
    BY <1>1 DEF Wellformed
  <2>3. Slice(cand, 0, Len(cand)) = cand
    BY <2>2, SliceAll
  <2> QED
    BY <1>5, <2>1, <2>3
<1>8. phase' = "written"
  BY <1>2, <1>6, <1>7 DEF Leftover
<1>9. Encoded'
  BY <1>1, <1>2 DEF Decoding, Encoded, Counted
<1>10. Wellformed'
  BY <1>1, <1>2 DEF Wellformed
<1>11. Written'
  BY <1>8, <1>9 DEF Written
<1> QED
  BY <1>10, <1>11 DEF DeltaInv

-----------------------------------------------------------------------------
(* The invariant holds, and what follows from it.                          *)
LEMMA StutterKeeps ==
    ASSUME DeltaInv, UNCHANGED deltaVars
    PROVE  DeltaInv'
<1>1. /\ version' = version /\ base' = base /\ cand' = cand /\ phase' = phase /\ passes' = passes /\ pos' = pos
      /\ basePos' = basePos /\ pend' = pend /\ todo' = todo /\ made' = made /\ mat' = mat /\ delta' = delta
      /\ rest' = rest /\ built' = built /\ summary' = summary
  BY DEF deltaVars, subjectVars, codeVars
<1>2. Wellformed => Wellformed'
  BY <1>1 DEF Wellformed
<1>3. Early => Early'
  BY <1>1 DEF Early
<1>4. \A k \in Nat : Rewritten(k) => Rewritten(k)'
  BY <1>1 DEF Rewritten
<1>5. Encoded => Encoded'
  BY <1>1 DEF Encoded, Counted
<1>6. Scanning => Scanning'
  BY <1>1, <1>3 DEF Scanning, Spells
<1>7. Coalescing => Coalescing'
  BY <1>1, <1>3, <1>4 DEF Coalescing
<1>8. Adding => Adding'
  BY <1>1, <1>3, <1>4 DEF Adding
<1>9. Sparsing => Sparsing'
  BY <1>1, <1>3, <1>4 DEF Sparsing, CanBeSparse
<1>10. Reusing => Reusing'
  BY <1>1, <1>3 DEF Reusing, Cutting, CanBeCut, Shift
<1>11. Encoding => Encoding'
  BY <1>1, <1>4 DEF Encoding, Books, Counted
<1>12. Opening => Opening'
  <2>1. Dictionary(version, delta.control)' = Dictionary(version, delta.control)
    BY <1>1 DEF Dictionary, ContextDictionary, ControlOps
  <2> QED
    BY <1>1, <1>5, <2>1 DEF Opening
<1>13. Decoding => Decoding'
  BY <1>1, <1>5 DEF Decoding, Reading
<1>14. Written => Written'
  BY <1>1, <1>5 DEF Written
<1> QED
  BY <1>2, <1>6, <1>7, <1>8, <1>9, <1>10, <1>11, <1>12, <1>13, <1>14 DEF DeltaInv

(* Every step keeps the invariant.                                         *)
LEMMA NextKeeps ==
    ASSUME DeltaInv, [DeltaNext]_deltaVars
    PROVE  DeltaInv'
<1>1. CASE ScanRun
  BY <1>1, ScanRunKeeps
<1>2. CASE ScanResync
  BY <1>2, ScanResyncKeeps
<1>3. CASE ScanByte
  BY <1>3, ScanByteKeeps
<1>4. CASE ScanCopy
  BY <1>4, ScanCopyKeeps
<1>5. CASE EndPass
  BY <1>5, EndPassKeeps
<1>6. CASE CoalesceOp
  BY <1>6, CoalesceOpKeeps
<1>7. CASE NextPass
  BY <1>7, NextPassKeeps
<1>8. CASE AddOp
  BY <1>8, AddOpKeeps
<1>9. CASE SparseKeep
  BY <1>9, SparseKeepKeeps
<1>10. CASE SparseKeepAll
  BY <1>10, SparseKeepAllKeeps
<1>11. CASE SparseRun
  BY <1>11, SparseRunKeeps
<1>12. CASE SparseEnd
  BY <1>12, SparseEndKeeps
<1>13. CASE ReuseKeep
  BY <1>13, ReuseKeepKeeps
<1>14. CASE ReuseByte
  BY <1>14, ReuseByteKeeps
<1>15. CASE ReuseCopy
  BY <1>15, ReuseCopyKeeps
<1>16. CASE ReuseEnd
  BY <1>16, ReuseEndKeeps
<1>17. CASE EncodeOp
  BY <1>17, EncodeOpKeeps
<1>18. CASE Encode
  BY <1>18, EncodeKeeps
<1>19. CASE OpenOneStream
  BY <1>19, OpenOneStreamKeeps
<1>20. CASE OpenPlainAdds
  BY <1>20, OpenPlainAddsKeeps
<1>21. CASE OpenTransformedAdds
  BY <1>21, OpenTransformedAddsKeeps
<1>22. CASE OpenOneOtherAdds
  BY <1>22, OpenOneOtherAddsKeeps
<1>23. CASE Decode
  BY <1>23, DecodeKeeps
<1>24. CASE VerifyDelta
  BY <1>24, VerifyDeltaKeeps
<1>25. CASE Done
  <2>1. UNCHANGED deltaVars
    BY <1>25 DEF Done
  <2> QED
    BY <2>1, StutterKeeps
<1>26. CASE UNCHANGED deltaVars
  BY <1>26, StutterKeeps
<1> QED
  BY <1>1, <1>2, <1>3, <1>4, <1>5, <1>6, <1>7, <1>8, <1>9, <1>10, <1>11, <1>12, <1>13, <1>14, <1>15, <1>16,
     <1>17, <1>18, <1>19, <1>20, <1>21, <1>22, <1>23, <1>24, <1>25, <1>26 DEF DeltaNext

LEMMA DeltaInvHolds == DeltaSpec => []DeltaInv
<1>1. DeltaInit => DeltaInv
  BY InitHolds
<1>2. DeltaInv /\ [DeltaNext]_deltaVars => DeltaInv'
  BY NextKeeps
<1> QED
  BY <1>1, <1>2, PTL DEF DeltaSpec

LEMMA TypesFollow ==
    ASSUME DeltaInv
    PROVE  DeltaTypeOK
<1>1. Wellformed /\ phase \in {"scan", "coalesce", "add", "sparse", "reuse", "encode", "open", "decode", "written", "refused"}
  BY WhichPhase
<1>2. \A s \in Seq(Bytes) : Range(s) \subseteq Bytes
  BY DEF Range
<1>3. Range(pend) \subseteq Bytes /\ Range(mat) \subseteq Bytes /\ Range(built) \subseteq Bytes
  BY <1>1, <1>2 DEF Wellformed
<1>4. ASSUME NEW ops \in {todo, made}, NEW op \in Range(ops)
      PROVE  /\ op.kind \in Kinds
             /\ op.kind \in {"insert", "add"} => op.len = Len(op.lit)
             /\ Range(op.lit) \subseteq Bytes
  <2>1. ops \in Seq(OpsOf(version))
    BY <1>1 DEF Wellformed
  <2>2. op \in OpsOf(version)
    BY <2>1 DEF Range
  <2>3. op.kind \in Kinds /\ op.lit \in Seq(Bytes) /\ (op.kind \in {"insert", "add"} => op.len = Len(op.lit))
    BY <2>2 DEF OpsOf, Ops
  <2> QED
    BY <1>2, <2>3
<1> QED
  BY <1>1, <1>3, <1>4 DEF DeltaTypeOK

LEMMA PlainOfAll ==
    ASSUME Wellformed, NEW ops \in Seq(Ops), Covers(base, cand, ops, 0, Len(cand))
    PROVE  Plain(ops) = cand
<1>1. base \in Seq(Bytes) /\ cand \in Seq(Bytes)
  BY DEF Wellformed
<1>2. Plain(ops) = Slice(cand, 0, Len(cand))
  BY <1>1, PlainIs
<1> QED
  BY <1>1, <1>2, SliceAll

LEMMA PlainOfBoth ==
    ASSUME Wellformed, NEW k \in Nat, Rewritten(k)
    PROVE  Plain(made \o todo) = cand
<1>1. made \in Seq(Ops) /\ todo \in Seq(Ops)
  BY SeqOfOps DEF Wellformed
<1>2. Covers(base, cand, made \o todo, 0, Len(cand))
  BY <1>1, Together DEF Rewritten
<1>3. made \o todo \in Seq(Ops)
  BY <1>1
<1> QED
  BY <1>2, <1>3, PlainOfAll

(* The invariant gives the parts of NothingLost and IndexInStep.           *)
LEMMA ScanLosesNothing ==
    ASSUME Wellformed, Scanning
    PROVE  Plain(made) \o pend \o From(cand, pos) = cand
<1>1. /\ base \in Seq(Bytes) /\ cand \in Seq(Bytes) /\ pend \in Seq(Bytes) /\ made \in Seq(Ops) /\ pos \in Nat
      /\ pos <= Len(cand) /\ Len(pend) <= pos /\ Len(pend) \in Nat /\ Len(cand) \in Nat
  BY SeqOfOps DEF Wellformed, Scanning
<1>2. PICK k : k = pos - Len(pend)
  OBVIOUS
<1>3. k \in Nat /\ k + Len(pend) = pos /\ Covers(base, cand, made, 0, k) /\ \A i \in 1..Len(pend) : pend[i] = cand[k + i]
  BY <1>1, <1>2 DEF Scanning, Spells
<1>4. Plain(made) = Slice(cand, 0, k)
  BY <1>1, <1>3, PlainIs
<1>5. pend = Slice(cand, k, Len(pend))
  <2>1. PICK s : s = Slice(cand, k, Len(pend))
    OBVIOUS
  <2>2. s \in Seq(Bytes) /\ Len(s) = Len(pend) /\ \A i \in 1..Len(pend) : s[i] = cand[k + i]
    <3>1. PICK w : w = Len(pend)
      OBVIOUS
    <3>2. cand \in Seq(Bytes) /\ k \in Nat /\ w \in Nat /\ k + w <= Len(cand) /\ s = Slice(cand, k, w)
      BY <1>1, <1>3, <2>1, <3>1
    <3>3. s \in Seq(Bytes) /\ Len(s) = w /\ \A i \in 1..w : s[i] = cand[k + i]
      BY <3>2, ByteSlice
    <3> QED
      BY <3>1, <3>3
  <2>3. pend = s
    BY <1>1, <1>3, <2>2, SameSeq
  <2> QED
    BY <2>1, <2>3
<1>6. Plain(made) \o pend = Slice(cand, 0, pos)
  <2>1. Slice(cand, 0, k) \o Slice(cand, k, Len(pend)) = Slice(cand, 0, k + Len(pend))
    BY <1>1, <1>3, SliceOn
  <2> QED
    BY <1>3, <1>4, <1>5, <2>1
<1>7. From(cand, pos) = Slice(cand, pos, Len(cand) - pos)
  BY <1>1, FromIsSlice
<1>8. PICK n : n = Len(cand) - pos
  OBVIOUS
<1>9. n \in Nat /\ pos + n = Len(cand)
  BY <1>1, <1>8
<1>10. Slice(cand, 0, pos) \o Slice(cand, pos, n) = Slice(cand, 0, pos + n)
  <2>1. cand \in Seq(Bytes) /\ pos \in Nat /\ n \in Nat /\ pos + n <= Len(cand)
    BY <1>1, <1>9
  <2> QED
    BY <2>1, SliceOn
<1>11. Slice(cand, 0, Len(cand)) = cand
  BY <1>1, SliceAll
<1> QED
  BY <1>6, <1>7, <1>8, <1>9, <1>10, <1>11

LEMMA CutLosesNothing ==
    ASSUME Wellformed, Reusing, pos > 0
    PROVE  /\ Plain(made \o Uncut(Head(todo)) \o Tail(todo)) = cand
           /\ Head(todo).kind = "insert" => mat = Plain(made) \o pend
<1>1. /\ base \in Seq(Bytes) /\ cand \in Seq(Bytes) /\ pend \in Seq(Bytes) /\ made \in Seq(Ops) /\ pos \in Nat
      /\ Len(pend) \in Nat /\ Len(cand) \in Nat /\ made \in Seq(OpsOf(version))
  BY SeqOfOps DEF Wellformed
<1>2. todo # <<>>
  BY DEF Reusing
<1>3. PICK op : op = Head(todo)
  OBVIOUS
<1>4. PICK k \in Nat : /\ Covers(base, cand, todo, k, Len(cand)) /\ Covers(base, cand, made, 0, k + pos - Len(pend))
                       /\ op.kind = "insert" => k + pos <= Len(cand) /\ mat = Slice(cand, 0, k + pos)
                       /\ Cutting(op)
  BY <1>2, <1>3, ReuseHead
<1>5. /\ op \in Ops /\ op.len \in Nat /\ op.lit \in Seq(Bytes) /\ Fits(base, cand, op, k) /\ k + op.len <= Len(cand)
      /\ Tail(todo) \in Seq(Ops) /\ Covers(base, cand, Tail(todo), k + op.len, Len(cand))
  BY <1>2, <1>3, <1>4, HeadFits, SeqOfOps
<1>6. CanBeCut(op) /\ Len(pend) <= pos /\ pos <= op.len
  BY <1>4 DEF Cutting
<1>7. Len(op.lit) = op.len /\ op.kind \in {"insert", "add"}
  BY <1>5, <1>6 DEF CanBeCut, Fits
<1>8. PICK from, m : from = pos - Len(pend) /\ m = k + from
  OBVIOUS
<1>9. /\ from \in Nat /\ m \in Nat /\ k + pos - Len(pend) = m /\ from + Len(pend) = pos /\ m + Len(pend) = k + pos
      /\ m + (op.len - from) = k + op.len
  BY <1>1, <1>5, <1>6, <1>8, SMTT(30)
<1>10. \A i \in 1..Len(pend) : pend[i] = op.lit[from + i]
  BY <1>4, <1>8 DEF Cutting
<1>11. Plain(made) = Slice(cand, 0, m)
  BY <1>1, <1>4, <1>9, PlainIs
<1>12. PICK tail, bytes : tail = From(op.lit, pos) /\ bytes = pend \o tail
  OBVIOUS
<1>13. tail \in Seq(Bytes) /\ Len(tail) = op.len - pos /\ \A i \in 1..(op.len - pos) : tail[i] = op.lit[pos + i]
  <2>1. PICK l : l = op.lit
    OBVIOUS
  <2>2. l \in Seq(Bytes) /\ pos \in Nat /\ pos <= Len(l) /\ tail = From(l, pos)
    BY <1>1, <1>5, <1>6, <1>7, <1>12, <2>1
  <2>3. tail \in Seq(Bytes) /\ Len(tail) = Len(l) - pos /\ \A i \in 1..(Len(l) - pos) : tail[i] = l[pos + i]
    BY <2>2, FromIs
  <2>4. Len(l) = op.len
    BY <1>7, <2>1
  <2> QED
    BY <2>1, <2>3, <2>4
<1>14. /\ bytes \in Seq(Bytes) /\ Len(bytes) = Len(pend) + Len(tail) /\ \A i \in 1..Len(pend) : bytes[i] = pend[i]
       /\ \A i \in 1..Len(tail) : bytes[Len(pend) + i] = tail[i]
  BY <1>1, <1>12, <1>13, CatIs
<1>15. Len(bytes) = op.len - from /\ from + Len(bytes) <= op.len /\ Len(bytes) \in Nat
  <2>1. PICK w, len, x : w = Len(pend) /\ len = op.len /\ x = Len(tail)
    OBVIOUS
  <2>2. w \in Nat /\ len \in Nat /\ pos \in Nat /\ from \in Nat /\ pos <= len /\ from + w = pos /\ x = len - pos
    BY <1>1, <1>5, <1>6, <1>9, <1>13, <2>1
  <2>3. Len(bytes) = w + x
    BY <1>14, <2>1
  <2>4. w + x = len - from /\ from + (w + x) <= len /\ w + x \in Nat
    BY <2>2
  <2> QED
    BY <2>1, <2>3, <2>4
<1>16. ASSUME NEW i \in 1..Len(bytes) PROVE bytes[i] = op.lit[from + i]
  <2>1. CASE i <= Len(pend)
    <3>1. i \in 1..Len(pend)
      BY <2>1
    <3> QED
      BY <1>10, <1>14, <3>1
  <2>2. CASE ~(i <= Len(pend))
    <3>1. PICK j : j = i - Len(pend)
      OBVIOUS
    <3>2. j \in 1..Len(tail) /\ Len(pend) + j = i /\ pos + j = from + i /\ j \in 1..(op.len - pos)
      <4>1. PICK w, x, y : w = Len(pend) /\ x = Len(tail) /\ y = op.len
        OBVIOUS
      <4>2. w \in Nat /\ y \in Nat /\ pos \in Nat /\ from \in Nat /\ pos <= y /\ from + w = pos /\ x = y - pos /\ Len(bytes) = w + x
        BY <1>1, <1>5, <1>6, <1>9, <1>13, <1>14, <4>1
      <4>3. i \in 1..(w + x) /\ ~(i <= w) /\ j = i - w
        BY <2>2, <3>1, <4>1, <4>2
      <4>4. j \in 1..x /\ w + j = i /\ pos + j = from + i /\ j \in 1..(y - pos)
        BY <4>2, <4>3
      <4> QED
        BY <4>1, <4>4
    <3>3. bytes[Len(pend) + j] = tail[j] /\ tail[j] = op.lit[pos + j]
      BY <1>13, <1>14, <3>2
    <3> QED
      BY <3>2, <3>3
  <2> QED
    BY <2>1, <2>2
<1>17. PICK piece : piece = Piece(op, from, bytes)
  OBVIOUS
<1>18. piece \in Ops /\ piece.len = Len(bytes) /\ Fits(base, cand, piece, k + from)
  <2>1. /\ op \in Ops /\ Fits(base, cand, op, k) /\ op.kind \in {"insert", "add"} /\ from \in Nat
        /\ bytes \in Seq(Bytes) /\ from + Len(bytes) <= op.len
    BY <1>5, <1>7, <1>9, <1>14, <1>15
  <2>2. /\ Piece(op, from, bytes) \in Ops /\ Piece(op, from, bytes).len = Len(bytes)
        /\ Fits(base, cand, Piece(op, from, bytes), k + from)
    BY <1>16, <2>1, PieceFits
  <2> QED
    BY <1>17, <2>2
<1>19. Uncut(op) = <<piece>>
  BY <1>8, <1>12, <1>17 DEF Uncut
<1>20. made \o <<piece>> = Append(made, piece) /\ Append(made, piece) \in Seq(Ops)
  BY <1>1, <1>18
<1>21. Covers(base, cand, Append(made, piece), 0, k + op.len)
  <2>1. Covers(base, cand, made, 0, m) /\ Fits(base, cand, piece, m)
    BY <1>4, <1>8, <1>9, <1>18
  <2>2. Covers(base, cand, Append(made, piece), 0, m + piece.len)
    BY <1>1, <1>18, <2>1, OneMore
  <2> QED
    BY <1>9, <1>15, <1>18, <2>2
<1>22. PICK ops, others : ops = Append(made, piece) /\ others = Tail(todo)
  OBVIOUS
<1>23. ops \o others \in Seq(Ops) /\ Covers(base, cand, ops \o others, 0, Len(cand))
  <2>1. ops \in Seq(Ops) /\ others \in Seq(Ops)
    BY <1>5, <1>20, <1>22
  <2>2. Covers(base, cand, ops, 0, k + op.len) /\ Covers(base, cand, others, k + op.len, Len(cand))
    BY <1>5, <1>21, <1>22
  <2>3. Covers(base, cand, ops \o others, 0, Len(cand))
    BY <2>1, <2>2, Together
  <2> QED
    BY <2>1, <2>3
<1>24. Plain(ops \o others) = cand
  BY <1>23, PlainOfAll
<1>25. made \o Uncut(Head(todo)) \o Tail(todo) = ops \o others
  BY <1>3, <1>19, <1>20, <1>22
<1>26. ASSUME op.kind = "insert" PROVE mat = Plain(made) \o pend
  <2>1. PICK s : s = Slice(cand, m, Len(pend))
    OBVIOUS
  <2>2. k + pos <= Len(cand) /\ mat = Slice(cand, 0, m + Len(pend))
    BY <1>4, <1>9, <1>26
  <2>3. s \in Seq(Bytes) /\ Len(s) = Len(pend) /\ \A i \in 1..Len(pend) : s[i] = cand[m + i]
    <3>1. PICK w : w = Len(pend)
      OBVIOUS
    <3>2. cand \in Seq(Bytes) /\ m \in Nat /\ w \in Nat /\ m + w <= Len(cand) /\ s = Slice(cand, m, w)
      BY <1>1, <1>9, <2>1, <2>2, <3>1
    <3>3. s \in Seq(Bytes) /\ Len(s) = w /\ \A i \in 1..w : s[i] = cand[m + i]
      BY <3>2, ByteSlice
    <3> QED
      BY <3>1, <3>3
  <2>4. \A i \in 1..Len(pend) : pend[i] = s[i]
    <3>1. ASSUME NEW i \in 1..Len(pend) PROVE pend[i] = s[i]
      <4>1. PICK j : j = from + i
        OBVIOUS
      <4>2. j \in 1..op.len /\ k + j = m + i
        BY <1>1, <1>5, <1>6, <1>8, <1>9, <4>1, SMTT(30)
      <4>3. op.lit[j] = cand[k + j]
        BY <1>5, <1>26, <4>2 DEF Fits
      <4> QED
        BY <1>10, <2>3, <4>1, <4>2, <4>3
    <3> QED
      BY <3>1
  <2>5. pend = s
    BY <1>1, <2>3, <2>4, SameSeq
  <2>6. Slice(cand, 0, m) \o Slice(cand, m, Len(pend)) = Slice(cand, 0, m + Len(pend))
    BY <1>1, <1>9, <2>2, SliceOn
  <2> QED
    BY <1>11, <2>1, <2>2, <2>5, <2>6
<1> QED
  BY <1>3, <1>24, <1>25, <1>26

LEMMA PausedReuse ==
    ASSUME Wellformed, Reusing, pos = 0
    PROVE  Plain(made \o todo) = cand /\ mat = Plain(made)
<1>1. PICK k \in Nat : /\ Covers(base, cand, todo, k, Len(cand)) /\ Covers(base, cand, made, 0, k + pos - Len(pend))
                       /\ mat = Slice(cand, 0, k + Shift)
  BY DEF Reusing
<1>2. pend = <<>>
  <2>1. todo # <<>> => Len(pend) <= 0
    BY DEF Reusing, Cutting
  <2>2. pend \in Seq(Bytes)
    BY DEF Wellformed
  <2>3. todo = <<>> => pend = <<>>
    BY DEF Reusing
  <2> QED
    BY <2>1, <2>2, <2>3
<1>3. Shift = 0 /\ k + 0 = k /\ k + 0 - Len(<<>>) = k
  BY DEF Shift
<1>4. Rewritten(k) /\ mat = Slice(cand, 0, k) /\ Covers(base, cand, made, 0, k)
  BY <1>1, <1>2, <1>3 DEF Rewritten
<1>5. base \in Seq(Bytes) /\ cand \in Seq(Bytes) /\ made \in Seq(Ops)
  BY SeqOfOps DEF Wellformed
<1>6. Plain(made) = Slice(cand, 0, k)
  BY <1>4, <1>5, PlainIs
<1> QED
  BY <1>4, <1>6, PlainOfBoth

LEMMA InvIsLossless ==
    ASSUME DeltaInv
    PROVE  Lossless
<1>1. /\ Wellformed
      /\ phase = "scan" => Scanning
      /\ phase = "coalesce" => Coalescing
      /\ phase = "add" => Adding
      /\ phase = "sparse" => Sparsing
      /\ phase = "reuse" => Reusing
      /\ phase = "encode" => Encoding
      /\ phase = "open" => Opening
      /\ phase = "decode" => Decoding
      /\ phase = "written" => Written
      /\ phase # "refused"
  BY WhichPhase
<1>2. pos \in Nat
  BY <1>1 DEF Wellformed
<1>3. phase = "scan" => Plain(made) \o pend \o From(cand, pos) = cand
  BY <1>1, ScanLosesNothing
<1>4. phase \in {"coalesce", "add", "sparse", "encode"} => Plain(made \o todo) = cand
  <2>1. phase \in {"coalesce", "add", "sparse", "encode"} => \E k \in Nat : Rewritten(k)
    BY <1>1 DEF Coalescing, Adding, Sparsing, Encoding
  <2> QED
    BY <1>1, <2>1, PlainOfBoth
<1>5. phase = "reuse" /\ pos = 0 => Plain(made \o todo) = cand /\ mat = Plain(made)
  BY <1>1, PausedReuse
<1>6. phase = "reuse" /\ pos > 0 => /\ Plain(made \o Uncut(Head(todo)) \o Tail(todo)) = cand
                                    /\ Head(todo).kind = "insert" => mat = Plain(made) \o pend
  BY <1>1, CutLosesNothing
<1>7. phase \in {"open", "decode"} => Plain(made) = cand
  <2>1. phase \in {"open", "decode"} => Covers(base, cand, made, 0, Len(cand))
    BY <1>1 DEF Opening, Decoding, Encoded
  <2>2. made \in Seq(Ops)
    BY <1>1, SeqOfOps DEF Wellformed
  <2> QED
    BY <1>1, <2>1, <2>2, PlainOfAll
<1>8. NothingLost
  BY <1>3, <1>4, <1>5, <1>6, <1>7 DEF NothingLost
<1>9. IndexInStep
  BY <1>5, <1>6 DEF IndexInStep
<1>10. NeverRefused
  BY <1>1 DEF NeverRefused
<1>11. SummaryAddsUp
  BY <1>1 DEF SummaryAddsUp, Opening, Decoding, Written, Encoded, Counted
<1> QED
  BY <1>8, <1>9, <1>10, <1>11, TypesFollow DEF Lossless

(* For every base, candidate and strategy: no pass loses, repeats or moves *)
(* a byte of the candidate, an output copy is looked up in what the decoder*)
(* will have by then, the summary adds up, and the decoder reads back what *)
(* the encoder of its strategy wrote, so that a bundle is never withheld   *)
(* (buildCodeDeltaV1 to V14, applyCodeDelta, coalesceCodeDeltaOps).        *)
THEOREM DeltaIsLossless == DeltaSpec => []Lossless
<1>1. DeltaInv => Lossless
  BY InvIsLossless
<1> QED
  BY <1>1, DeltaInvHolds, PTL

=============================================================================
