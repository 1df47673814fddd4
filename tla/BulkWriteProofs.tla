--------------------------- MODULE BulkWriteProofs ---------------------------
(***************************************************************************)
(* Proofs about BulkWrite as DbSpec runs it: for all jobs, tables and keys *)
(* a bulk write that succeeds has done its rows one by one, whatever the   *)
(* dialect and however they are cut; one that does not succeed, nothing.   *)
(*                                                                         *)
(* An induction over the rows goes through SetInduction: the numbers for   *)
(* which the claim holds are named as a set.                               *)
(***************************************************************************)
EXTENDS Db, WellFoundedInduction, SequenceTheorems, TLAPS

(* The provers cannot instantiate the library's induction rules, whose       *)
(* hypothesis is an operator; a set of numbers does as well.                 *)
LEMMA LeastElement ==
  ASSUME NEW T, T \subseteq Nat, T # {}
  PROVE  \E x \in T : \A y \in T : ~(y < x)
<1>1. PICK less : less = OpToRel(<, Nat)
  OBVIOUS
<1>2. IsWellFoundedOn(less, Nat)
  BY <1>1, NatLessThanWellFounded
<1>3. \E x \in T : \A y \in T : ~ (<<y, x>> \in less)
  BY <1>2, WFMin
<1>4. QED  BY <1>1, <1>3 DEF OpToRel

LEMMA SetInduction ==
  ASSUME NEW n \in Nat, NEW S, 0 \in S, \A i \in 1 .. n : i - 1 \in S => i \in S
  PROVE  \A i \in 0 .. n : i \in S
<1> SUFFICES ASSUME {i \in 0 .. n : i \notin S} # {} PROVE FALSE
  OBVIOUS
<1>1. PICK x \in {i \in 0 .. n : i \notin S} : \A y \in {i \in 0 .. n : i \notin S} : ~(y < x)
  <2>1. {i \in 0 .. n : i \notin S} \subseteq Nat
    OBVIOUS
  <2>2. QED  BY <2>1, LeastElement
<1>2. x \in 1 .. n /\ x - 1 \in 0 .. n /\ x - 1 < x
  BY <1>1
<1>3. x - 1 \in S
  BY <1>1, <1>2
<1>4. QED  BY <1>1, <1>2, <1>3

-----------------------------------------------------------------------------
(* A list of lists of one length, end to end: the p-th element of the i-th.  *)
FlattenRule(seqs, f, n) == f = [i \in 1 .. n |-> IF i = 1 THEN seqs[i] ELSE f[i - 1] \o seqs[i]]

LEMMA FlattenExists ==
  ASSUME NEW seqs, NEW n \in Nat
  PROVE  \E f : FlattenRule(seqs, f, n)
<1>1. PICK S : S = {k \in 0 .. n : \E f : FlattenRule(seqs, f, k)}
  OBVIOUS
<1>2. 0 \in S
  <2>1. FlattenRule(seqs, [i \in 1 .. 0 |-> <<>>], 0)
    BY DEF FlattenRule
  <2>2. QED  BY <1>1, <2>1
<1>3. ASSUME NEW k \in 1 .. n, k - 1 \in S PROVE k \in S
  <2>1. PICK f : FlattenRule(seqs, f, k - 1)
    BY <1>1, <1>3
  <2>2. PICK g : g = [i \in 1 .. k |-> IF i < k THEN f[i] ELSE IF i = 1 THEN seqs[i] ELSE f[i - 1] \o seqs[i]]
    OBVIOUS
  <2>3. ASSUME NEW i \in 1 .. k PROVE g[i] = IF i = 1 THEN seqs[i] ELSE g[i - 1] \o seqs[i]
    <3>1. CASE i < k
      <4>1. i \in 1 .. k - 1
        BY <3>1
      <4>2. f[i] = IF i = 1 THEN seqs[i] ELSE f[i - 1] \o seqs[i]
        BY <2>1, <4>1 DEF FlattenRule
      <4>3. i # 1 => i - 1 \in 1 .. k /\ i - 1 < k
        BY <3>1
      <4>4. QED  BY <2>2, <3>1, <4>2, <4>3
    <3>2. CASE ~(i < k)
      <4>1. i # 1 => i - 1 \in 1 .. k /\ i - 1 < k
        BY <3>2
      <4>2. QED  BY <2>2, <3>2, <4>1
    <3>3. QED  BY <3>1, <3>2
  <2>4. g = [i \in 1 .. k |-> IF i = 1 THEN seqs[i] ELSE g[i - 1] \o seqs[i]]
    BY <2>2, <2>3
  <2>5. FlattenRule(seqs, g, k)
    BY <2>4 DEF FlattenRule
  <2>6. k \in 0 .. n
    OBVIOUS
  <2>7. QED  BY <1>1, <2>5, <2>6
<1>4. n \in S
  BY <1>2, <1>3, SetInduction
<1>5. QED  BY <1>1, <1>4

Even(seqs, w, F, k, C) ==
  /\ F \in Seq(C) /\ Len(F) = k * w
  /\ \A i \in 1 .. k, p \in 1 .. w : F[(i - 1) * w + p] = seqs[i][p]

LEMMA EvenOne ==
  ASSUME NEW C, NEW w \in Nat, NEW seqs, seqs[1] \in Seq(C), Len(seqs[1]) = w
  PROVE  Even(seqs, w, seqs[1], 1, C)
<1>1. 1 * w = w /\ (1 - 1) * w = 0 /\ \A p \in 1 .. w : 0 + p = p
  OBVIOUS
<1>2. ASSUME NEW i \in 1 .. 1, NEW p \in 1 .. w PROVE seqs[1][(i - 1) * w + p] = seqs[i][p]
  BY <1>1
<1>3. QED  BY <1>1, <1>2 DEF Even

LEMMA EvenNext ==
  ASSUME NEW C, NEW w \in Nat, NEW k \in Nat, NEW seqs, NEW F, Even(seqs, w, F, k, C),
         NEW s, s = seqs[k + 1], s \in Seq(C), Len(s) = w
  PROVE  Even(seqs, w, F \o s, k + 1, C)
<1>1. PICK m \in Nat : m = k * w
  OBVIOUS
<1>2. (k + 1) * w = m + w
  BY <1>1
<1>3. F \in Seq(C) /\ Len(F) = m /\ \A i \in 1 .. k, p \in 1 .. w : F[(i - 1) * w + p] = seqs[i][p]
  BY <1>1 DEF Even
<1> DEFINE Both == F \o s
<1>4. /\ Both \in Seq(C) /\ Len(Both) = m + w
      /\ \A q \in 1 .. m + w : Both[q] = IF q <= m THEN F[q] ELSE s[q - m]
  <2>1. /\ Both \in Seq(C) /\ Len(Both) = Len(F) + Len(s)
        /\ \A q \in 1 .. Len(F) + Len(s) : Both[q] = IF q <= Len(F) THEN F[q] ELSE s[q - Len(F)]
    BY <1>3, ConcatProperties
  <2>2. QED  BY <1>3, <2>1
<1> HIDE DEF Both
<1>5. ASSUME NEW i \in 1 .. k + 1, NEW p \in 1 .. w PROVE Both[(i - 1) * w + p] = seqs[i][p]
  <2>1. CASE i = k + 1
    <3>1. (i - 1) * w + p = m + p
      BY <1>1, <2>1
    <3>2. m + p \in 1 .. m + w /\ ~(m + p <= m) /\ (m + p) - m = p
      OBVIOUS
    <3>3. QED  BY <1>4, <2>1, <3>1, <3>2
  <2>2. CASE i # k + 1
    <3>1. i \in 1 .. k
      BY <2>2
    <3>2. PICK h \in Nat : h = (i - 1) * w
      OBVIOUS
    <3>3. h + w <= m
      <4>1. PICK d \in Nat : d = k - i
        BY <3>1
      <4>2. m = h + w + d * w /\ d * w \in Nat
        BY <1>1, <3>2, <4>1
      <4>3. QED  BY <4>2
    <3>4. h + p \in 1 .. m + w /\ h + p <= m
      BY <3>3
    <3>5. QED  BY <1>3, <1>4, <3>1, <3>2, <3>4
  <2>3. QED  BY <2>1, <2>2
<1>6. QED  BY <1>2, <1>4, <1>5 DEF Even, Both

LEMMA FlattenEven ==
  ASSUME NEW C, NEW w \in Nat, NEW n \in Nat, NEW seqs \in Seq(Seq(C)), Len(seqs) = n,
         \A i \in 1 .. n : Len(seqs[i]) = w
  PROVE  Even(seqs, w, W!FlattenSeq(seqs), n, C)
<1>1. CASE n = 0
  <2>1. seqs = <<>>
    BY <1>1
  <2>2. W!FlattenSeq(seqs) = seqs
    BY <1>1 DEF W!FlattenSeq
  <2>3. <<>> \in Seq(C) /\ Len(<<>>) = 0 /\ 0 * w = 0 /\ 1 .. 0 = {}
    OBVIOUS
  <2>4. QED  BY <1>1, <2>1, <2>2, <2>3 DEF Even
<1>2. CASE n # 0
  <2>1. PICK f : f = W!FlattenSeq(seqs)
    OBVIOUS
  <2>2. PICK g : FlattenRule(seqs, g, n) /\ f = g[n]
    BY <1>2, <2>1, FlattenExists DEF W!FlattenSeq, FlattenRule
  <2>3. \A i \in 1 .. n : g[i] = IF i = 1 THEN seqs[i] ELSE g[i - 1] \o seqs[i]
    BY <2>2 DEF FlattenRule
  <2>4. PICK S : S = {k \in 0 .. n : k # 0 => Even(seqs, w, g[k], k, C)}
    OBVIOUS
  <2>5. 0 \in S
    BY <2>4
  <2>6. ASSUME NEW k \in 1 .. n, k - 1 \in S PROVE k \in S
    <3>1. seqs[k] \in Seq(C) /\ Len(seqs[k]) = w
      OBVIOUS
    <3>2. CASE k = 1
      <4>1. g[1] = seqs[1]
        BY <2>3, <3>2
      <4>2. QED  BY <2>4, <3>1, <3>2, <4>1, EvenOne
    <3>3. CASE k # 1
      <4>1. g[k] = g[k - 1] \o seqs[k]
        BY <2>3, <3>3
      <4>2. k - 1 \in Nat /\ k - 1 # 0 /\ (k - 1) + 1 = k
        BY <3>3
      <4>3. Even(seqs, w, g[k - 1], k - 1, C)
        BY <2>4, <2>6, <4>2
      <4>4. Even(seqs, w, g[k - 1] \o seqs[k], (k - 1) + 1, C)
        BY <3>1, <4>2, <4>3, EvenNext
      <4>5. Even(seqs, w, g[k], k, C)
        BY <4>1, <4>2, <4>4
      <4>6. k \in 0 .. n
        OBVIOUS
      <4>7. QED  BY <2>4, <4>5, <4>6
    <3>4. QED  BY <3>2, <3>3
  <2>7. \A i \in 0 .. n : i \in S
    BY <2>5, <2>6, SetInduction
  <2>8. n \in 0 .. n
    OBVIOUS
  <2>9. QED  BY <1>2, <2>1, <2>2, <2>4, <2>7, <2>8
<1>3. QED  BY <1>1, <1>2

-----------------------------------------------------------------------------
(* The table after each of a job's rows. *)
RowsRule(j, t, f, n) == f = [i \in 0 .. n |-> IF i = 0 THEN t ELSE W!Single(j, f[i - 1], j.rows[i])]

LEMMA RowsExist ==
  ASSUME NEW j, NEW t, NEW n \in Nat
  PROVE  \E f : RowsRule(j, t, f, n)
<1>1. PICK S : S = {k \in 0 .. n : \E f : RowsRule(j, t, f, k)}
  OBVIOUS
<1>2. 0 \in S
  <2>1. PICK f : f = [i \in 0 .. 0 |-> t]
    OBVIOUS
  <2>2. f = [i \in 0 .. 0 |-> IF i = 0 THEN t ELSE W!Single(j, f[i - 1], j.rows[i])]
    BY <2>1
  <2>3. RowsRule(j, t, f, 0) /\ 0 \in 0 .. n
    BY <2>2 DEF RowsRule
  <2>4. QED  BY <1>1, <2>3
<1>3. ASSUME NEW k \in 1 .. n, k - 1 \in S PROVE k \in S
  <2>1. PICK f : RowsRule(j, t, f, k - 1)
    BY <1>1, <1>3
  <2>2. PICK g : g = [i \in 0 .. k |-> IF i < k THEN f[i] ELSE W!Single(j, f[i - 1], j.rows[i])]
    OBVIOUS
  <2>3. ASSUME NEW i \in 0 .. k PROVE g[i] = IF i = 0 THEN t ELSE W!Single(j, g[i - 1], j.rows[i])
    <3>1. i # 0 => i - 1 \in 0 .. k /\ i - 1 < k
      OBVIOUS
    <3>2. i # 0 => g[i - 1] = f[i - 1]
      BY <2>2, <3>1
    <3>3. CASE i < k
      <4>1. i \in 0 .. k - 1
        BY <3>3
      <4>2. f[i] = IF i = 0 THEN t ELSE W!Single(j, f[i - 1], j.rows[i])
        BY <2>1, <4>1 DEF RowsRule
      <4>3. g[i] = f[i]
        BY <2>2, <3>3
      <4>4. QED  BY <3>2, <4>2, <4>3
    <3>4. CASE ~(i < k)
      <4>1. i # 0
        BY <3>4
      <4>2. g[i] = W!Single(j, f[i - 1], j.rows[i])
        BY <2>2, <3>4
      <4>3. QED  BY <3>2, <4>1, <4>2
    <3>5. QED  BY <3>3, <3>4
  <2>4. g = [i \in 0 .. k |-> IF i = 0 THEN t ELSE W!Single(j, g[i - 1], j.rows[i])]
    BY <2>2, <2>3
  <2>5. RowsRule(j, t, g, k) /\ k \in 0 .. n
    BY <2>4 DEF RowsRule
  <2>6. QED  BY <1>1, <2>5
<1>4. \A i \in 0 .. n : i \in S
  BY <1>2, <1>3, SetInduction
<1>5. n \in 0 .. n
  OBVIOUS
<1>6. QED  BY <1>1, <1>4, <1>5

Rows(j, t) == CHOOSE f : f = [i \in 0 .. Len(j.rows) |-> IF i = 0 THEN t ELSE W!Single(j, f[i - 1], j.rows[i])]

LEMMA RowsAre ==
  ASSUME NEW j, NEW t, Len(j.rows) \in Nat
  PROVE  /\ Rows(j, t)[0] = t
         /\ \A i \in 1 .. Len(j.rows) : Rows(j, t)[i] = W!Single(j, Rows(j, t)[i - 1], j.rows[i])
         /\ W!RowByRow(j, t) = Rows(j, t)[Len(j.rows)]
<1>1. PICK n \in Nat : n = Len(j.rows)
  OBVIOUS
<1>2. \E f : RowsRule(j, t, f, n)
  BY RowsExist
<1>3. RowsRule(j, t, Rows(j, t), n)
  BY <1>1, <1>2 DEF Rows, RowsRule
<1>4. /\ Rows(j, t)[0] = t
      /\ \A i \in 1 .. n : Rows(j, t)[i] = W!Single(j, Rows(j, t)[i - 1], j.rows[i])
  BY <1>3 DEF RowsRule
<1>5. W!RowByRow(j, t) = Rows(j, t)[Len(j.rows)]
  BY DEF W!RowByRow, Rows
<1>6. QED  BY <1>1, <1>4, <1>5

-----------------------------------------------------------------------------
(* A job whose statements are built, and its rows. *)
Built(j) == j \in Jobs /\ W!RowsFit(j) /\ (j.op = "update" => j.updateCols # <<>>)

LEMMA ColumnsAre ==
  /\ DOMAIN W!Columns = 1 .. 3 /\ Len(W!Columns) = 3
  /\ W!Columns[1] = "k" /\ W!Columns[2] = "v" /\ W!Columns[3] = "w"
  /\ W!Col("v") = 2 /\ W!Col("w") = 3
<1>1. /\ DOMAIN W!Columns = 1 .. 3 /\ Len(W!Columns) = 3
      /\ W!Columns[1] = "k" /\ W!Columns[2] = "v" /\ W!Columns[3] = "w"
  BY DEF W!Columns
<1>2. ASSUME NEW i \in 1 .. 3, W!Columns[i] = "v" PROVE i = 2
  BY <1>1, <1>2
<1>3. ASSUME NEW i \in 1 .. 3, W!Columns[i] = "w" PROVE i = 3
  BY <1>1, <1>3
<1>4. W!Col("v") = 2
  BY <1>1, <1>2 DEF W!Col
<1>5. W!Col("w") = 3
  BY <1>1, <1>3 DEF W!Col
<1>6. QED  BY <1>1, <1>4, <1>5

LEMMA BuiltRow ==
  ASSUME NEW j, Built(j), NEW i \in 1 .. Len(j.rows)
  PROVE  /\ j.rows[i] \in Seq(Cells) /\ j.rows[i][1] \in Keys
         /\ j.op # "update" => Len(j.rows[i]) = 3
         /\ j.op = "update" => \A c \in 1 .. Len(j.updateCols) : W!Col(j.updateCols[c]) <= Len(j.rows[i])
<1>1. j.rows \in Seq(Seq(Cells)) /\ j.updateCols \in Seq({"v", "w"}) /\ W!RowFits(j, j.rows[i])
  BY BulkAssumption DEF Built, W!RowsFit
<1>2. j.rows[i] \in Seq(Cells)
  BY <1>1
<1>3. j.op # "update" => Len(j.rows[i]) = 3
  BY <1>1, ColumnsAre DEF W!RowFits
<1>4. j.op = "update" => \A c \in 1 .. Len(j.updateCols) : W!Col(j.updateCols[c]) <= Len(j.rows[i])
  BY <1>1 DEF W!RowFits
<1>5. j.rows[i] # <<>>
  <2>1. CASE j.op = "update"
    <3>1. j.updateCols # <<>>
      BY <2>1 DEF Built
    <3>2. 1 \in 1 .. Len(j.updateCols) /\ j.updateCols[1] \in {"v", "w"}
      BY <1>1, <3>1
    <3>3. W!Col(j.updateCols[1]) <= Len(j.rows[i]) /\ W!Col(j.updateCols[1]) \in {2, 3}
      BY <1>4, <2>1, <3>2, ColumnsAre
    <3>4. QED  BY <1>2, <3>3
  <2>2. CASE j.op # "update"
    BY <1>2, <1>3, <2>2
  <2>3. QED  BY <2>1, <2>2
<1>6. j.rows[i][1] \in Keys
  BY <1>1, <1>5, BulkAssumption DEF Built
<1>7. QED  BY <1>2, <1>3, <1>4, <1>6

(* Rows leave a table a table. *)
IsTable(t) == t = [k \in Keys |-> t[k]]

LEMMA SingleIsTable ==
  ASSUME NEW j, NEW t, IsTable(t), NEW row, row[1] \in Keys
  PROVE  IsTable(W!Single(j, t, row))
BY DEF IsTable, W!Single

LEMMA RowsAreTables ==
  ASSUME NEW j, Built(j), NEW t, IsTable(t)
  PROVE  \A i \in 0 .. Len(j.rows) : IsTable(Rows(j, t)[i])
<1>1. PICK n \in Nat : n = Len(j.rows)
  <2>1. j.rows \in Seq(Seq(Cells))
    BY BulkAssumption DEF Built
  <2>2. QED  BY <2>1
<1>2. PICK S : S = {i \in 0 .. n : IsTable(Rows(j, t)[i])}
  OBVIOUS
<1>3. Rows(j, t)[0] = t /\ \A i \in 1 .. n : Rows(j, t)[i] = W!Single(j, Rows(j, t)[i - 1], j.rows[i])
  BY <1>1, RowsAre
<1>4. 0 \in S
  BY <1>2, <1>3
<1>5. ASSUME NEW i \in 1 .. n, i - 1 \in S PROVE i \in S
  <2>1. IsTable(Rows(j, t)[i - 1])
    BY <1>2, <1>5
  <2>2. j.rows[i][1] \in Keys
    BY <1>1, BuiltRow
  <2>3. IsTable(Rows(j, t)[i])
    BY <1>3, <2>1, <2>2, SingleIsTable
  <2>4. i \in 0 .. n
    OBVIOUS
  <2>5. QED  BY <1>2, <2>3, <2>4
<1>6. \A i \in 0 .. n : i \in S
  BY <1>4, <1>5, SetInduction
<1>7. QED  BY <1>1, <1>2, <1>6

-----------------------------------------------------------------------------
(* The m rows after the first d, as one statement. *)
LEMMA BatchRows ==
  ASSUME NEW j, Built(j), NEW d \in Nat, NEW m \in Nat, d + m <= Len(j.rows)
  PROVE  /\ SubSeq(j.rows, d + 1, d + m) \in Seq(Seq(Cells))
         /\ Len(SubSeq(j.rows, d + 1, d + m)) = m
         /\ \A i \in 1 .. m : /\ d + i \in 1 .. Len(j.rows)
                              /\ SubSeq(j.rows, d + 1, d + m)[i] = j.rows[d + i]
<1>1. j.rows \in Seq(Seq(Cells))
  BY BulkAssumption DEF Built
<1>2. PICK lo \in Nat : lo = d + 1
  OBVIOUS
<1>3. PICK hi \in Nat : hi = d + m
  OBVIOUS
<1>4. PICK n \in Nat : n = Len(j.rows)
  BY <1>1
<1>5. \A i \in lo .. hi : j.rows[i] \in Seq(Cells)
  <2>1. \A i \in lo .. hi : i \in 1 .. n
    BY <1>2, <1>3, <1>4
  <2>2. QED  BY <1>1, <1>4, <2>1
<1>6. /\ SubSeq(j.rows, lo, hi) \in Seq(Seq(Cells))
      /\ Len(SubSeq(j.rows, lo, hi)) = IF lo <= hi THEN hi - lo + 1 ELSE 0
      /\ \A i \in 1 .. hi - lo + 1 : SubSeq(j.rows, lo, hi)[i] = j.rows[lo + i - 1]
  BY <1>5, SubSeqProperties
<1>7. hi - lo + 1 = m /\ (~(lo <= hi) => m = 0)
  BY <1>2, <1>3
<1>8. ASSUME NEW i \in 1 .. m
      PROVE  d + i \in 1 .. n /\ lo + i - 1 = d + i
  BY <1>2, <1>3, <1>4
<1>9. \A i \in 1 .. m : SubSeq(j.rows, lo, hi)[i] = j.rows[d + i]
  BY <1>6, <1>7, <1>8
<1>10. Len(SubSeq(j.rows, lo, hi)) = m
  BY <1>6, <1>7
<1>11. QED  BY <1>2, <1>3, <1>4, <1>6, <1>8, <1>9, <1>10

Batch(j, d, m) == W!BuildOne(j, SubSeq(j.rows, d + 1, d + m))

LEMMA BatchSizes ==
  ASSUME NEW j, Built(j), NEW d \in Nat, NEW m \in Nat, d + m <= Len(j.rows)
  PROVE  Batch(j, d, m).n = m /\ Batch(j, d, m).params = m * W!ParamsPerRow(j)
BY BatchRows DEF Batch, W!BuildOne

(* An insert's placeholders hold its rows. *)
LEMMA BatchValues ==
  ASSUME NEW j, Built(j), j.op # "update", NEW d \in Nat, NEW m \in Nat, d + m <= Len(j.rows)
  PROVE  \A i \in 1 .. m : W!RowOf(Batch(j, d, m), i) = j.rows[d + i]
<1>1. PICK part : part = SubSeq(j.rows, d + 1, d + m)
  OBVIOUS
<1>2. /\ part \in Seq(Seq(Cells)) /\ Len(part) = m
      /\ \A i \in 1 .. m : part[i] = j.rows[d + i] /\ d + i \in 1 .. Len(j.rows)
  BY <1>1, BatchRows
<1>3. \A i \in 1 .. m : j.rows[d + i] \in Seq(Cells) /\ Len(j.rows[d + i]) = 3
  BY <1>2, BuiltRow
<1>4. PICK F : F = Batch(j, d, m).args
  OBVIOUS
<1>5. Even(part, 3, F, m, Cells)
  <2>1. Even(part, 3, W!FlattenSeq(part), m, Cells)
    BY <1>2, <1>3, FlattenEven
  <2>2. F = W!FlattenSeq(part)
    BY <1>1, <1>4 DEF Batch, W!BuildOne, W!Values
  <2>3. QED  BY <2>1, <2>2
<1>6. ASSUME NEW i \in 1 .. m PROVE W!RowOf(Batch(j, d, m), i) = j.rows[d + i]
  <2>1. PICK a \in Nat : a = (i - 1) * 3
    OBVIOUS
  <2>2. i * 3 = a + 3 /\ a + 3 <= m * 3
    BY <2>1
  <2>3. F \in Seq(Cells) /\ Len(F) = m * 3 /\ \A p \in 1 .. 3 : F[a + p] = part[i][p]
    BY <1>5, <2>1 DEF Even
  <2>4. \A q \in a + 1 .. a + 3 : F[q] \in Cells
    <3>1. \A q \in a + 1 .. a + 3 : q \in 1 .. Len(F)
      BY <2>2, <2>3
    <3>2. QED  BY <2>3, <3>1
  <2>5. PICK row : row = SubSeq(F, a + 1, a + 3)
    OBVIOUS
  <2>6. row \in Seq(Cells) /\ Len(row) = 3 /\ \A p \in 1 .. 3 : row[p] = F[a + 1 + p - 1]
    <3>1. /\ row \in Seq(Cells) /\ Len(row) = IF a + 1 <= a + 3 THEN a + 3 - (a + 1) + 1 ELSE 0
          /\ \A p \in 1 .. a + 3 - (a + 1) + 1 : row[p] = F[a + 1 + p - 1]
      BY <2>4, <2>5, SubSeqProperties
    <3>2. a + 1 <= a + 3 /\ a + 3 - (a + 1) + 1 = 3
      OBVIOUS
    <3>3. QED  BY <3>1, <3>2
  <2>7. \A p \in 1 .. 3 : row[p] = j.rows[d + i][p]
    <3>1. \A p \in 1 .. 3 : a + 1 + p - 1 = a + p
      OBVIOUS
    <3>2. part[i] = j.rows[d + i]
      BY <1>2
    <3>3. QED  BY <2>3, <2>6, <3>1, <3>2
  <2>8. row = j.rows[d + i]
    BY <1>3, <2>6, <2>7, SeqEqual
  <2>9. W!RowOf(Batch(j, d, m), i) = row
    BY <1>4, <2>1, <2>2, <2>5, ColumnsAre DEF W!RowOf
  <2>10. QED  BY <2>8, <2>9
<1>7. QED  BY <1>6

-----------------------------------------------------------------------------
(* What a statement of an insert or an upsert has done after each row.       *)
PutRule(j, s, t, f, n) ==
  f = [i \in 0 .. n |-> IF i = 0 THEN [clash |-> FALSE, t |-> t] ELSE W!Put(j, s, t, f[i - 1], i)]

LEMMA PutsExist ==
  ASSUME NEW j, NEW s, NEW t, NEW n \in Nat
  PROVE  \E f : PutRule(j, s, t, f, n)
<1>1. PICK S : S = {k \in 0 .. n : \E f : PutRule(j, s, t, f, k)}
  OBVIOUS
<1>2. 0 \in S
  <2>1. PICK f : f = [i \in 0 .. 0 |-> [clash |-> FALSE, t |-> t]]
    OBVIOUS
  <2>2. f = [i \in 0 .. 0 |-> IF i = 0 THEN [clash |-> FALSE, t |-> t] ELSE W!Put(j, s, t, f[i - 1], i)]
    BY <2>1
  <2>3. PutRule(j, s, t, f, 0) /\ 0 \in 0 .. n
    BY <2>2 DEF PutRule
  <2>4. QED  BY <1>1, <2>3
<1>3. ASSUME NEW k \in 1 .. n, k - 1 \in S PROVE k \in S
  <2>1. PICK f : PutRule(j, s, t, f, k - 1)
    BY <1>1, <1>3
  <2>2. PICK g : g = [i \in 0 .. k |-> IF i < k THEN f[i] ELSE W!Put(j, s, t, f[i - 1], i)]
    OBVIOUS
  <2>3. ASSUME NEW i \in 0 .. k
        PROVE  g[i] = IF i = 0 THEN [clash |-> FALSE, t |-> t] ELSE W!Put(j, s, t, g[i - 1], i)
    <3>1. i # 0 => i - 1 \in 0 .. k /\ i - 1 < k
      OBVIOUS
    <3>2. i # 0 => g[i - 1] = f[i - 1]
      BY <2>2, <3>1
    <3>3. CASE i < k
      <4>1. i \in 0 .. k - 1
        BY <3>3
      <4>2. f[i] = IF i = 0 THEN [clash |-> FALSE, t |-> t] ELSE W!Put(j, s, t, f[i - 1], i)
        BY <2>1, <4>1 DEF PutRule
      <4>3. g[i] = f[i]
        BY <2>2, <3>3
      <4>4. QED  BY <3>2, <4>2, <4>3
    <3>4. CASE ~(i < k)
      <4>1. i # 0
        BY <3>4
      <4>2. g[i] = W!Put(j, s, t, f[i - 1], i)
        BY <2>2, <3>4
      <4>3. QED  BY <3>2, <4>1, <4>2
    <3>5. QED  BY <3>3, <3>4
  <2>4. g = [i \in 0 .. k |-> IF i = 0 THEN [clash |-> FALSE, t |-> t] ELSE W!Put(j, s, t, g[i - 1], i)]
    BY <2>2, <2>3
  <2>5. PutRule(j, s, t, g, k)
    BY <2>4, Zenon DEF PutRule
  <2>6. \E h : PutRule(j, s, t, h, k)
    BY <2>5
  <2>7. k \in 0 .. n
    OBVIOUS
  <2>8. QED  BY <1>1, <2>6, <2>7
<1>4. \A i \in 0 .. n : i \in S
  BY <1>2, <1>3, SetInduction
<1>5. n \in 0 .. n
  OBVIOUS
<1>6. QED  BY <1>1, <1>4, <1>5

LEMMA EffectIs ==
  ASSUME NEW j, j.op # "update", NEW s, NEW t, s.n \in Nat
  PROVE  \E f : /\ f[0] = [clash |-> FALSE, t |-> t]
                /\ \A i \in 1 .. s.n : f[i] = W!Put(j, s, t, f[i - 1], i)
                /\ W!Effect(j, s, t) = f[s.n]
<1>1. PICK n \in Nat : n = s.n
  OBVIOUS
<1>2. \E f : PutRule(j, s, t, f, n)
  BY PutsExist
<1>3. PICK f : PutRule(j, s, t, f, n) /\ W!Effect(j, s, t) = f[n]
  BY <1>1, <1>2 DEF W!Effect, PutRule
<1>4. f[0] = [clash |-> FALSE, t |-> t] /\ \A i \in 1 .. n : f[i] = W!Put(j, s, t, f[i - 1], i)
  <2>1. f = [i \in 0 .. n |-> IF i = 0 THEN [clash |-> FALSE, t |-> t] ELSE W!Put(j, s, t, f[i - 1], i)]
    BY <1>3 DEF PutRule
  <2>2. 0 \in 0 .. n /\ \A i \in 1 .. n : i \in 0 .. n /\ i # 0
    OBVIOUS
  <2>3. f[0] = [clash |-> FALSE, t |-> t]
    BY <2>1, <2>2
  <2>4. \A i \in 1 .. n : f[i] = W!Put(j, s, t, f[i - 1], i)
    BY <2>1, <2>2
  <2>5. QED  BY <2>3, <2>4
<1>5. QED  BY <1>1, <1>3, <1>4

(* A row put without a clash is the row alone. *)
LEMMA PutIsSingle ==
  ASSUME NEW j, j.op # "update", NEW s, NEW t, NEW acc, NEW i, NEW row, row = W!RowOf(s, i)
  PROVE  LET next == W!Put(j, s, t, acc, i)
         IN  next.clash \/ (~acc.clash /\ next.t = W!Single(j, acc.t, row))
<1>1. PICK next : next = W!Put(j, s, t, acc, i)
  OBVIOUS
<1>2. CASE next = [clash |-> TRUE, t |-> acc.t]
  <2>1. next.clash
    BY <1>2
  <2>2. QED  BY <1>1, <2>1
<1>3. CASE next # [clash |-> TRUE, t |-> acc.t]
  <2>1. ~acc.clash
    BY <1>1, <1>3 DEF W!Put
  <2>2. next.t = [acc.t EXCEPT ![row[1]] = IF @ = Absent THEN W!Data(row)
                                           ELSE W!Updated(@, row, j.updateCols)]
    BY <1>1, <1>3 DEF W!Put
  <2>3. next.t = W!Single(j, acc.t, row)
    BY <2>2 DEF W!Single
  <2>4. QED  BY <1>1, <2>1, <2>3
<1>4. QED  BY <1>2, <1>3

LEMMA InsertBatch ==
  ASSUME NEW j, Built(j), j.op # "update", NEW b,
         NEW d \in Nat, NEW m \in Nat, d + m <= Len(j.rows)
  PROVE  LET result == W!Effect(j, Batch(j, d, m), Rows(j, b)[d])
         IN  result.clash \/ result.t = Rows(j, b)[d + m]
<1>1. PICK s : s = Batch(j, d, m)
  OBVIOUS
<1>2. s.n = m /\ \A i \in 1 .. m : W!RowOf(s, i) = j.rows[d + i]
  BY <1>1, BatchSizes, BatchValues
<1>3. PICK after : after = Rows(j, b)
  OBVIOUS
<1>4. PICK n \in Nat : n = Len(j.rows)
  <2>1. j.rows \in Seq(Seq(Cells))
    BY BulkAssumption DEF Built
  <2>2. QED  BY <2>1
<1>5. \A i \in 1 .. n : after[i] = W!Single(j, after[i - 1], j.rows[i])
  BY <1>3, <1>4, RowsAre
<1>6. PICK f : /\ f[0] = [clash |-> FALSE, t |-> after[d]]
               /\ \A i \in 1 .. m : f[i] = W!Put(j, s, after[d], f[i - 1], i)
               /\ W!Effect(j, s, after[d]) = f[m]
  BY <1>2, EffectIs
<1>7. PICK S : S = {i \in 0 .. m : f[i].clash \/ f[i].t = after[d + i]}
  OBVIOUS
<1>8. 0 \in S
  <2>1. f[0].t = after[d] /\ d + 0 = d
    BY <1>6
  <2>2. QED  BY <1>7, <2>1
<1>9. ASSUME NEW i \in 1 .. m, i - 1 \in S PROVE i \in S
  <2>1. PICK prev : prev = f[i - 1]
    OBVIOUS
  <2>2. PICK row : row = W!RowOf(s, i)
    OBVIOUS
  <2>3. f[i] = W!Put(j, s, after[d], prev, i)
    BY <1>6, <2>1
  <2>4. f[i].clash \/ (~prev.clash /\ f[i].t = W!Single(j, prev.t, row))
    BY <2>2, <2>3, PutIsSingle
  <2>5. prev.clash \/ prev.t = after[d + (i - 1)]
    BY <1>7, <1>9, <2>1
  <2>6. d + i \in 1 .. n /\ d + (i - 1) = (d + i) - 1
    BY <1>4
  <2>7. after[d + i] = W!Single(j, after[d + (i - 1)], row)
    BY <1>2, <1>5, <2>2, <2>6
  <2>8. f[i].clash \/ f[i].t = after[d + i]
    BY <2>4, <2>5, <2>7
  <2>9. i \in 0 .. m
    OBVIOUS
  <2>10. QED  BY <1>7, <2>8, <2>9
<1>10. \A i \in 0 .. m : i \in S
  BY <1>8, <1>9, SetInduction
<1>11. m \in 0 .. m
  OBVIOUS
<1>12. f[m].clash \/ f[m].t = after[d + m]
  BY <1>7, <1>10, <1>11
<1>13. QED  BY <1>1, <1>3, <1>6, <1>12

-----------------------------------------------------------------------------
(* The arguments of an update: for each column, the key and the value of     *)
(* each row; then the keys.                                                  *)
PairsHold(j, d, m, x, F) ==
  /\ F \in Seq(Cells) /\ Len(F) = m * 2
  /\ \A i \in 1 .. m : /\ F[(i - 1) * 2 + 1] = j.rows[d + i][1]
                       /\ F[(i - 1) * 2 + 2] = j.rows[d + i][W!Col(j.updateCols[x])]

LEMMA PairsAre ==
  ASSUME NEW j, Built(j), j.op = "update", NEW d \in Nat, NEW m \in Nat, d + m <= Len(j.rows),
         NEW x \in 1 .. Len(j.updateCols)
  PROVE  PairsHold(j, d, m, x, W!Pairs(SubSeq(j.rows, d + 1, d + m), j.updateCols[x]))
<1>1. PICK part : part = SubSeq(j.rows, d + 1, d + m)
  OBVIOUS
<1>2. /\ part \in Seq(Seq(Cells)) /\ Len(part) = m
      /\ \A i \in 1 .. m : part[i] = j.rows[d + i] /\ d + i \in 1 .. Len(j.rows)
  BY <1>1, BatchRows
<1>3. PICK q : q = W!Col(j.updateCols[x])
  OBVIOUS
<1>4. q \in {2, 3}
  <2>1. j.updateCols \in Seq({"v", "w"})
    BY BulkAssumption DEF Built
  <2>2. j.updateCols[x] \in {"v", "w"}
    BY <2>1
  <2>3. QED  BY <1>3, <2>2, ColumnsAre
<1>5. ASSUME NEW i \in 1 .. m PROVE part[i][1] \in Cells /\ part[i][q] \in Cells
  <2>1. part[i] \in Seq(Cells) /\ q <= Len(part[i])
    BY <1>2, <1>3, BuiltRow
  <2>2. 1 \in 1 .. Len(part[i]) /\ q \in 1 .. Len(part[i])
    BY <1>4, <2>1
  <2>3. QED  BY <2>1, <2>2
<1>6. PICK seqs : seqs = [i \in 1 .. m |-> <<part[i][1], part[i][q]>>]
  OBVIOUS
<1>7. \A i \in 1 .. m : seqs[i] \in Seq(Cells) /\ Len(seqs[i]) = 2
  BY <1>5, <1>6
<1>8. seqs \in Seq(Seq(Cells)) /\ Len(seqs) = m
  BY <1>6, <1>7
<1>9. PICK F : F = W!Pairs(part, j.updateCols[x])
  OBVIOUS
<1>10. F = W!FlattenSeq(seqs)
  BY <1>2, <1>3, <1>6, <1>9 DEF W!Pairs
<1>11. Even(seqs, 2, F, m, Cells)
  BY <1>7, <1>8, <1>10, FlattenEven
<1>12. F \in Seq(Cells) /\ Len(F) = m * 2 /\ \A i \in 1 .. m, p \in 1 .. 2 : F[(i - 1) * 2 + p] = seqs[i][p]
  BY <1>11 DEF Even
<1>13. ASSUME NEW i \in 1 .. m
       PROVE  F[(i - 1) * 2 + 1] = j.rows[d + i][1] /\ F[(i - 1) * 2 + 2] = j.rows[d + i][q]
  <2>1. seqs[i][1] = j.rows[d + i][1] /\ seqs[i][2] = j.rows[d + i][q]
    BY <1>2, <1>6
  <2>2. F[(i - 1) * 2 + 1] = seqs[i][1] /\ F[(i - 1) * 2 + 2] = seqs[i][2]
    BY <1>12
  <2>3. QED  BY <2>1, <2>2
<1>14. QED  BY <1>1, <1>3, <1>9, <1>12, <1>13 DEF PairsHold

CasesHold(j, part, c, w, K) ==
  /\ K \in Seq(Cells) /\ Len(K) = c * w
  /\ \A x \in 1 .. c, p \in 1 .. w : K[(x - 1) * w + p] = W!Pairs(part, j.updateCols[x])[p]

LEMMA CasesAre ==
  ASSUME NEW j, Built(j), j.op = "update", NEW d \in Nat, NEW m \in Nat, d + m <= Len(j.rows),
         NEW c \in Nat, c = Len(j.updateCols), NEW w \in Nat, w = m * 2
  PROVE  CasesHold(j, SubSeq(j.rows, d + 1, d + m), c, w, W!Cases(j, SubSeq(j.rows, d + 1, d + m)))
<1>1. PICK part : part = SubSeq(j.rows, d + 1, d + m)
  OBVIOUS
<1>2. j.updateCols \in Seq({"v", "w"})
  BY BulkAssumption DEF Built
<1>5. PICK seqs : seqs = [x \in 1 .. c |-> W!Pairs(part, j.updateCols[x])]
  OBVIOUS
<1>6. \A x \in 1 .. c : seqs[x] \in Seq(Cells) /\ Len(seqs[x]) = w
  <2>1. ASSUME NEW x \in 1 .. c
        PROVE  W!Pairs(part, j.updateCols[x]) \in Seq(Cells) /\ Len(W!Pairs(part, j.updateCols[x])) = w
    <3>1. PairsHold(j, d, m, x, W!Pairs(part, j.updateCols[x]))
      BY <1>1, PairsAre
    <3>2. QED  BY <3>1 DEF PairsHold
  <2>2. QED  BY <1>5, <2>1
<1>7. seqs \in Seq(Seq(Cells)) /\ Len(seqs) = c
  <2>1. DOMAIN seqs = 1 .. c /\ seqs = [x \in 1 .. c |-> seqs[x]]
    BY <1>5
  <2>2. PICK Q : Q = Seq(Cells)
    OBVIOUS
  <2>3. seqs \in [1 .. c -> Q]
    BY <1>6, <2>1, <2>2
  <2>4. seqs \in Seq(Q) /\ Len(seqs) = c
    BY <2>3
  <2>5. QED  BY <2>2, <2>4
<1>8. W!Cases(j, part) = W!FlattenSeq(seqs)
  BY <1>2, <1>5 DEF W!Cases
<1>4. PICK K : K = W!Cases(j, part)
  OBVIOUS
<1>9. Even(seqs, w, K, c, Cells)
  BY <1>6, <1>4, <1>7, <1>8, FlattenEven
<1>10. /\ K \in Seq(Cells) /\ Len(K) = c * w
       /\ \A x \in 1 .. c, p \in 1 .. w : K[(x - 1) * w + p] = seqs[x][p]
  BY <1>9 DEF Even
<1>11. \A x \in 1 .. c, p \in 1 .. w : K[(x - 1) * w + p] = W!Pairs(part, j.updateCols[x])[p]
  BY <1>5, <1>10
<1>12. QED  BY <1>1, <1>4, <1>10, <1>11 DEF CasesHold

(* Where the text of the update looks for them. *)
ArgsHold(j, d, m, A) ==
  /\ A \in Seq(Cells) /\ Len(A) - m \in Nat
  /\ \A i \in 1 .. m :
       /\ A[Len(A) - m + i] = j.rows[d + i][1]
       /\ \A x \in 1 .. Len(j.updateCols) :
            /\ A[(x - 1) * 2 * m + 2 * (i - 1) + 1] = j.rows[d + i][1]
            /\ A[(x - 1) * 2 * m + 2 * (i - 1) + 2] = j.rows[d + i][W!Col(j.updateCols[x])]

LEMMA UpdateArgs ==
  ASSUME NEW j, Built(j), j.op = "update", NEW d \in Nat, NEW m \in Nat, d + m <= Len(j.rows)
  PROVE  ArgsHold(j, d, m, Batch(j, d, m).args)
<1>1. PICK part : part = SubSeq(j.rows, d + 1, d + m)
  OBVIOUS
<1>2. /\ part \in Seq(Seq(Cells)) /\ Len(part) = m
      /\ \A i \in 1 .. m : part[i] = j.rows[d + i] /\ d + i \in 1 .. Len(j.rows)
  BY <1>1, BatchRows
<1>3. PICK c \in Nat : c = Len(j.updateCols)
  <2>1. j.updateCols \in Seq({"v", "w"})
    BY BulkAssumption DEF Built
  <2>2. QED  BY <2>1
<1>4. PICK w \in Nat : w = m * 2
  OBVIOUS
<1>5. PICK K : K = W!Cases(j, part)
  OBVIOUS
<1>6. /\ K \in Seq(Cells) /\ Len(K) = c * w
      /\ \A x \in 1 .. c, p \in 1 .. w : K[(x - 1) * w + p] = W!Pairs(part, j.updateCols[x])[p]
  <2>1. CasesHold(j, part, c, w, K)
    BY <1>1, <1>3, <1>4, <1>5, CasesAre
  <2>2. QED  BY <2>1 DEF CasesHold
<1>7. PICK l \in Nat : l = c * w
  OBVIOUS
<1>8. PICK E : E = W!RowKeys(part)
  OBVIOUS
<1>9. E \in Seq(Cells) /\ Len(E) = m /\ \A i \in 1 .. m : E[i] = j.rows[d + i][1]
  <2>1. E = [i \in 1 .. m |-> part[i][1]]
    BY <1>2, <1>8 DEF W!RowKeys
  <2>2. ASSUME NEW i \in 1 .. m PROVE part[i][1] \in Cells
    <3>1. part[i] \in Seq(Cells) /\ \A x \in 1 .. c : W!Col(j.updateCols[x]) <= Len(part[i])
      BY <1>2, <1>3, BuiltRow
    <3>2. 1 \in 1 .. c /\ j.updateCols[1] \in {"v", "w"}
      <4>1. j.updateCols \in Seq({"v", "w"}) /\ j.updateCols # <<>>
        BY BulkAssumption DEF Built
      <4>2. QED  BY <1>3, <4>1
    <3>3. 1 \in 1 .. Len(part[i])
      BY <3>1, <3>2, ColumnsAre
    <3>4. QED  BY <3>1, <3>3
  <2>3. \A i \in 1 .. m : E[i] \in Cells
    BY <2>1, <2>2
  <2>4. E \in Seq(Cells) /\ Len(E) = m
    BY <2>1, <2>3
  <2>5. \A i \in 1 .. m : E[i] = j.rows[d + i][1]
    BY <1>2, <2>1
  <2>6. QED  BY <2>4, <2>5
<1> DEFINE A == K \o E
<1>10. /\ A \in Seq(Cells) /\ Len(A) = l + m
       /\ \A q \in 1 .. l + m : A[q] = IF q <= l THEN K[q] ELSE E[q - l]
  <2>1. /\ A \in Seq(Cells) /\ Len(A) = Len(K) + Len(E)
        /\ \A q \in 1 .. Len(K) + Len(E) : A[q] = IF q <= Len(K) THEN K[q] ELSE E[q - Len(K)]
    BY <1>6, <1>9, ConcatProperties
  <2>2. QED  BY <1>6, <1>7, <1>9, <2>1
<1>11. Batch(j, d, m).args = A
  BY <1>1, <1>5, <1>8 DEF Batch, W!BuildOne
<1> HIDE DEF A
<1>12. ASSUME NEW i \in 1 .. m PROVE A[l + i] = j.rows[d + i][1]
  <2>1. l + i \in 1 .. l + m /\ ~(l + i <= l) /\ (l + i) - l = i
    OBVIOUS
  <2>2. QED  BY <1>9, <1>10, <2>1
<1>13. ASSUME NEW i \in 1 .. m, NEW x \in 1 .. c, NEW p \in 1 .. 2
       PROVE  A[(x - 1) * 2 * m + 2 * (i - 1) + p] = W!Pairs(part, j.updateCols[x])[(i - 1) * 2 + p]
  <2>1. PICK h \in Nat : h = (i - 1) * 2 + p
    OBVIOUS
  <2>2. h \in 1 .. w
    BY <1>4, <2>1
  <2>3. PICK a \in Nat : a = (x - 1) * w
    OBVIOUS
  <2>4. (x - 1) * 2 * m = a
    BY <1>4, <2>3
  <2>5. (x - 1) * 2 * m + 2 * (i - 1) + p = a + h
    BY <2>1, <2>4
  <2>6. a + w <= l
    <3>1. PICK e \in Nat : e = c - x
      OBVIOUS
    <3>2. l = a + w + e * w /\ e * w \in Nat
      BY <1>7, <2>3, <3>1
    <3>3. QED  BY <3>2
  <2>7. a + h \in 1 .. l + m /\ a + h <= l
    BY <2>2, <2>6
  <2>8. A[a + h] = K[a + h]
    BY <1>10, <2>7
  <2>9. K[a + h] = W!Pairs(part, j.updateCols[x])[h]
    BY <1>6, <2>2, <2>3
  <2>10. QED  BY <2>1, <2>5, <2>8, <2>9
<1>14. ASSUME NEW i \in 1 .. m, NEW x \in 1 .. c
       PROVE  /\ A[(x - 1) * 2 * m + 2 * (i - 1) + 1] = j.rows[d + i][1]
              /\ A[(x - 1) * 2 * m + 2 * (i - 1) + 2] = j.rows[d + i][W!Col(j.updateCols[x])]
  <2>1. PICK P : P = W!Pairs(part, j.updateCols[x])
    OBVIOUS
  <2>2. /\ P[(i - 1) * 2 + 1] = j.rows[d + i][1]
        /\ P[(i - 1) * 2 + 2] = j.rows[d + i][W!Col(j.updateCols[x])]
    <3>1. PairsHold(j, d, m, x, P)
      BY <1>1, <1>3, <2>1, PairsAre
    <3>2. QED  BY <3>1 DEF PairsHold
  <2>3. 1 \in 1 .. 2 /\ 2 \in 1 .. 2
    OBVIOUS
  <2>4. A[(x - 1) * 2 * m + 2 * (i - 1) + 1] = P[(i - 1) * 2 + 1]
    BY <1>13, <2>1, <2>3
  <2>5. A[(x - 1) * 2 * m + 2 * (i - 1) + 2] = P[(i - 1) * 2 + 2]
    BY <1>13, <2>1, <2>3
  <2>6. QED  BY <2>2, <2>4, <2>5
<1>15. Len(A) - m = l
  BY <1>10
<1>16. ArgsHold(j, d, m, A)
  BY <1>3, <1>10, <1>12, <1>14, <1>15 DEF ArgsHold
<1>17. QED  BY <1>11, <1>16

(* The keys of WHERE k IN (...). *)
BatchKeys(j, d, m) == {j.rows[d + i][1] : i \in 1 .. m}

LEMMA ListedAre ==
  ASSUME NEW j, Built(j), j.op = "update", NEW d \in Nat, NEW m \in Nat, d + m <= Len(j.rows)
  PROVE  W!Listed(Batch(j, d, m)) = BatchKeys(j, d, m)
<1>1. PICK s : s = Batch(j, d, m)
  OBVIOUS
<1>2. s.n = m
  BY <1>1, BatchSizes
<1>3. PICK A : A = s.args
  OBVIOUS
<1>4. ArgsHold(j, d, m, A)
  BY <1>1, <1>3, UpdateArgs
<1>5. PICK l \in Nat : l = Len(A) - m
  BY <1>4 DEF ArgsHold
<1>6. A \in Seq(Cells) /\ \A i \in 1 .. m : A[l + i] = j.rows[d + i][1]
  BY <1>4, <1>5 DEF ArgsHold
<1>7. Len(A) = l + m /\ Len(A) \in Nat
  BY <1>5, <1>6
<1>8. PICK tail : tail = SubSeq(A, l + 1, l + m)
  OBVIOUS
<1>9. tail \in Seq(Cells) /\ Len(tail) = m /\ \A i \in 1 .. m : tail[i] = A[l + i]
  <2>1. \A q \in l + 1 .. l + m : A[q] \in Cells
    <3>1. \A q \in l + 1 .. l + m : q \in 1 .. Len(A)
      BY <1>7
    <3>2. QED  BY <1>6, <3>1
  <2>2. PICK lo \in Nat : lo = l + 1
    OBVIOUS
  <2>3. PICK hi \in Nat : hi = l + m
    OBVIOUS
  <2>4. tail = SubSeq(A, lo, hi) /\ \A q \in lo .. hi : A[q] \in Cells
    BY <1>8, <2>1, <2>2, <2>3
  <2>5. /\ tail \in Seq(Cells) /\ Len(tail) = IF lo <= hi THEN hi - lo + 1 ELSE 0
        /\ \A i \in 1 .. hi - lo + 1 : tail[i] = A[lo + i - 1]
    BY <2>4, SubSeqProperties
  <2>6. hi - lo + 1 = m /\ (~(lo <= hi) => m = 0)
    BY <2>2, <2>3
  <2>7. \A i \in 1 .. m : lo + i - 1 = l + i
    BY <2>2
  <2>8. Len(tail) = m
    BY <2>5, <2>6
  <2>9. \A i \in 1 .. m : tail[i] = A[l + i]
    BY <2>5, <2>6, <2>7
  <2>10. QED  BY <2>5, <2>8, <2>9
<1>10. W!Listed(s) = {tail[i] : i \in DOMAIN tail}
  <2>1. Len(A) - m + 1 = l + 1
    BY <1>5
  <2>2. W!Listed(s) = W!ToSet(SubSeq(A, Len(A) - m + 1, Len(A)))
    BY <1>2, <1>3 DEF W!Listed
  <2>3. W!Listed(s) = W!ToSet(tail)
    BY <1>7, <1>8, <2>1, <2>2
  <2>4. QED  BY <2>3 DEF W!ToSet
<1>11. DOMAIN tail = 1 .. m
  BY <1>9
<1>12. \A i \in 1 .. m : tail[i] = j.rows[d + i][1]
  BY <1>6, <1>9
<1>13. W!Listed(s) = BatchKeys(j, d, m)
  BY <1>10, <1>11, <1>12 DEF BatchKeys
<1>14. QED  BY <1>1, <1>13

(* What CASE chooses for a row of the batch. *)
CasedUpdates(j, d, m, t, i, p) ==
  W!Cased(j, Batch(j, d, m), t, j.rows[d + i][1], p)
    = W!Updated(t[j.rows[d + i][1]], j.rows[d + i], j.updateCols)[p]

LEMMA CasedIsUpdated ==
  ASSUME NEW j, Built(j), j.op = "update", W!KeysDiffer(j), NEW t,
         NEW d \in Nat, NEW m \in Nat, d + m <= Len(j.rows),
         NEW i \in 1 .. m, NEW p \in 1 .. 2
  PROVE  CasedUpdates(j, d, m, t, i, p)
<1>1. PICK s : s = Batch(j, d, m)
  OBVIOUS
<1>2. s.n = m
  BY <1>1, BatchSizes
<1>3. PICK n \in Nat : n = Len(j.rows)
  <2>1. j.rows \in Seq(Seq(Cells))
    BY BulkAssumption DEF Built
  <2>2. QED  BY <2>1
<1>4. PICK k : k = j.rows[d + i][1]
  OBVIOUS
<1>5. PICK u : u = j.updateCols
  OBVIOUS
<1>6. u \in Seq({"v", "w"})
  BY <1>5, BulkAssumption DEF Built
<1> DEFINE Arg(c, h, which) == s.args[(c - 1) * 2 * s.n + 2 * (h - 1) + which]
<1>7. \A h \in 1 .. m, c \in 1 .. Len(u) :
        Arg(c, h, 1) = j.rows[d + h][1] /\ Arg(c, h, 2) = j.rows[d + h][W!Col(u[c])]
  <2>1. ArgsHold(j, d, m, s.args)
    BY <1>1, UpdateArgs
  <2>2. QED  BY <1>2, <1>5, <2>1 DEF ArgsHold
<1>8. \A h \in 1 .. m : j.rows[d + h][1] = k => h = i
  <2>1. ASSUME NEW h \in 1 .. m, j.rows[d + h][1] = k PROVE h = i
    <3>1. DOMAIN j.rows = 1 .. n
      BY <1>3, BulkAssumption DEF Built
    <3>2. d + h \in 1 .. n /\ d + i \in 1 .. n
      BY <1>3
    <3>3. d + h = d + i
      BY <1>4, <2>1, <3>1, <3>2 DEF W!KeysDiffer
    <3>4. QED  BY <3>3
  <2>2. QED  BY <2>1
<1> DEFINE C == {c \in DOMAIN u : u[c] = W!Columns[p + 1]}
           First(c) == CHOOSE h \in 1 .. m : Arg(c, h, 1) = k /\ \A g \in 1 .. h - 1 : Arg(c, g, 1) # k
<1>9. ASSUME NEW c \in C
      PROVE  /\ \E h \in 1 .. m : Arg(c, h, 1) = k
             /\ Arg(c, First(c), 2) = j.rows[d + i][p + 1]
  <2>1. c \in 1 .. Len(u) /\ u[c] = W!Columns[p + 1]
    BY <1>6
  <2>2. W!Col(u[c]) = p + 1
    <3>1. p = 1 \/ p = 2
      OBVIOUS
    <3>2. QED  BY <2>1, <3>1, ColumnsAre
  <2>3. \A h \in 1 .. m : Arg(c, h, 1) = j.rows[d + h][1] /\ Arg(c, h, 2) = j.rows[d + h][p + 1]
    BY <1>7, <2>1, <2>2
  <2> DEFINE First1(h) == Arg(c, h, 1) = k /\ \A g \in 1 .. h - 1 : Arg(c, g, 1) # k
  <2>4. Arg(c, i, 1) = k
    BY <1>4, <2>3
  <2>5. \A h \in 1 .. m : First1(h) => h = i
    BY <1>8, <2>3
  <2>6. First1(i)
    <3>1. ASSUME NEW g \in 1 .. i - 1 PROVE Arg(c, g, 1) # k
      <4>1. g \in 1 .. m /\ g # i
        OBVIOUS
      <4>2. QED  BY <1>8, <2>3, <4>1
    <3>2. QED  BY <2>4, <3>1
  <2>7. First(c) = i
    <3>1. First(c) = CHOOSE h \in 1 .. m : First1(h)
      OBVIOUS
    <3> HIDE DEF First1, First
    <3>2. QED  BY <2>5, <2>6, <3>1
  <2> HIDE DEF First, Arg
  <2>8. QED  BY <2>3, <2>4, <2>7
<1>10. W!Cased(j, s, t, k, p) =
         IF C = {} THEN t[k][p]
         ELSE LET c == CHOOSE e \in C : TRUE
              IN IF \E h \in 1 .. m : Arg(c, h, 1) = k THEN Arg(c, First(c), 2) ELSE t[k][p]
  BY <1>2, <1>5 DEF W!Cased
<1>11. W!Updated(t[k], j.rows[d + i], u)[p] =
         IF W!Columns[p + 1] \in W!ToSet(u) THEN j.rows[d + i][p + 1] ELSE t[k][p]
  BY DEF W!Updated
<1>12. W!Columns[p + 1] \in W!ToSet(u) <=> C # {}
  BY DEF W!ToSet
<1> HIDE DEF Arg, First, C
<1>13. CASE C = {}
  BY <1>1, <1>4, <1>5, <1>10, <1>11, <1>12, <1>13 DEF CasedUpdates
<1>14. CASE C # {}
  <2>1. PICK c : c = CHOOSE e \in C : TRUE
    OBVIOUS
  <2>2. c \in C
    BY <1>14, <2>1
  <2>3. W!Cased(j, s, t, k, p) = Arg(c, First(c), 2)
    BY <1>9, <1>10, <1>14, <2>1, <2>2
  <2>4. W!Cased(j, s, t, k, p) = j.rows[d + i][p + 1]
    BY <1>9, <2>2, <2>3
  <2>5. QED  BY <1>1, <1>4, <1>5, <1>11, <1>12, <1>14, <2>4 DEF CasedUpdates
<1>15. QED  BY <1>13, <1>14

(* What single updates of rows with different keys do together. *)
Done(j, t, f, d, i) ==
  /\ \A h \in 1 .. i : t[j.rows[d + h][1]] # Absent =>
       f[d + i][j.rows[d + h][1]] = W!Updated(t[j.rows[d + h][1]], j.rows[d + h], j.updateCols)
  /\ \A k \in Keys : (t[k] = Absent \/ \A h \in 1 .. i : j.rows[d + h][1] # k) => f[d + i][k] = t[k]

LEMMA UpdatesDone ==
  ASSUME NEW j, Built(j), j.op = "update", W!KeysDiffer(j), NEW b, IsTable(b),
         NEW d \in Nat, NEW m \in Nat, d + m <= Len(j.rows)
  PROVE  Done(j, Rows(j, b)[d], Rows(j, b), d, m)
<1>1. PICK after : after = Rows(j, b)
  OBVIOUS
<1>2. PICK n \in Nat : n = Len(j.rows)
  <2>1. j.rows \in Seq(Seq(Cells))
    BY BulkAssumption DEF Built
  <2>2. QED  BY <2>1
<1>3. \A i \in 1 .. n : after[i] = W!Single(j, after[i - 1], j.rows[i])
  BY <1>1, <1>2, RowsAre
<1>4. \A i \in 0 .. n : IsTable(after[i])
  BY <1>1, <1>2, RowsAreTables
<1>5. \A i \in 1 .. n : j.rows[i][1] \in Keys
  BY <1>2, BuiltRow
<1>6. PICK S : S = {i \in 0 .. m : Done(j, after[d], after, d, i)}
  OBVIOUS
<1>7. 0 \in S
  <2>1. 1 .. 0 = {} /\ d + 0 = d
    OBVIOUS
  <2>2. Done(j, after[d], after, d, 0)
    BY <2>1 DEF Done
  <2>3. QED  BY <1>6, <2>2
<1>8. ASSUME NEW i \in 1 .. m, i - 1 \in S PROVE i \in S
  <2>1. d + i \in 1 .. n /\ (d + i) - 1 = d + (i - 1) /\ (d + i) - 1 \in 0 .. n
    BY <1>2
  <2>2. PICK row : row = j.rows[d + i]
    OBVIOUS
  <2>3. PICK t : t = after[d]
    OBVIOUS
  <2>4. PICK p : p = after[d + (i - 1)]
    OBVIOUS
  <2>5. PICK q : q = after[d + i]
    OBVIOUS
  <2>6. q = W!Single(j, p, row)
    BY <1>3, <2>1, <2>2, <2>4, <2>5
  <2>7. IsTable(p)
    BY <1>4, <2>1, <2>4
  <2>8. row[1] \in Keys
    BY <1>5, <2>1, <2>2
  <2>9. Done(j, t, after, d, i - 1)
    BY <1>6, <1>8, <2>3
  <2>10. \A h \in 1 .. i - 1 : j.rows[d + h][1] # row[1] /\ j.rows[d + h][1] \in Keys
    <3>1. ASSUME NEW h \in 1 .. i - 1 PROVE j.rows[d + h][1] # row[1] /\ j.rows[d + h][1] \in Keys
      <4>1. d + h \in 1 .. n /\ d + h # d + i
        BY <1>2
      <4>2. DOMAIN j.rows = 1 .. n
        BY <1>2, BulkAssumption DEF Built
      <4>3. QED  BY <1>5, <2>1, <2>2, <4>1, <4>2 DEF W!KeysDiffer
    <3>2. QED  BY <3>1
  <2>11. p[row[1]] = t[row[1]]
    <3>1. \A k \in Keys : (\A h \in 1 .. i - 1 : j.rows[d + h][1] # k) => p[k] = t[k]
      BY <2>4, <2>9 DEF Done
    <3>2. QED  BY <2>8, <2>10, <3>1
  <2>12. \A k \in Keys \ {row[1]} : q[k] = p[k]
    BY <2>6, <2>7 DEF W!Single, IsTable
  <2>13. t[row[1]] # Absent => q[row[1]] = W!Updated(t[row[1]], row, j.updateCols)
    BY <2>6, <2>7, <2>8, <2>11 DEF W!Single, IsTable
  <2>14. t[row[1]] = Absent => q = p
    BY <2>6, <2>11 DEF W!Single
  <2>15. ASSUME NEW h \in 1 .. i, t[j.rows[d + h][1]] # Absent
         PROVE  q[j.rows[d + h][1]] = W!Updated(t[j.rows[d + h][1]], j.rows[d + h], j.updateCols)
    <3>1. CASE h = i
      BY <2>2, <2>13, <2>15, <3>1
    <3>2. CASE h # i
      <4>1. h \in 1 .. i - 1
        BY <3>2
      <4>2. p[j.rows[d + h][1]] = W!Updated(t[j.rows[d + h][1]], j.rows[d + h], j.updateCols)
        BY <2>4, <2>9, <2>15, <4>1 DEF Done
      <4>3. j.rows[d + h][1] \in Keys \ {row[1]}
        BY <2>10, <4>1
      <4>4. QED  BY <2>12, <4>2, <4>3
    <3>3. QED  BY <3>1, <3>2
  <2>16. ASSUME NEW k \in Keys, t[k] = Absent \/ \A h \in 1 .. i : j.rows[d + h][1] # k
         PROVE  q[k] = t[k]
    <3>1. q[k] = p[k]
      <4>1. CASE k = row[1]
        <5>1. ~ \A h \in 1 .. i : j.rows[d + h][1] # k
          BY <2>2, <4>1
        <5>2. QED  BY <2>14, <2>16, <4>1, <5>1
      <4>2. CASE k # row[1]
        BY <2>12, <4>2
      <4>3. QED  BY <4>1, <4>2
    <3>2. p[k] = t[k]
      <4>1. 1 .. i - 1 \subseteq 1 .. i
        OBVIOUS
      <4>2. t[k] = Absent \/ \A h \in 1 .. i - 1 : j.rows[d + h][1] # k
        BY <2>16, <4>1
      <4>3. QED  BY <2>4, <2>9, <4>2 DEF Done
    <3>3. QED  BY <3>1, <3>2
  <2>17. Done(j, after[d], after, d, i)
    BY <2>3, <2>5, <2>15, <2>16 DEF Done
  <2>18. i \in 0 .. m
    OBVIOUS
  <2>19. QED  BY <1>6, <2>17, <2>18
<1>9. \A i \in 0 .. m : i \in S
  BY <1>7, <1>8, SetInduction
<1>10. m \in 0 .. m
  OBVIOUS
<1>11. QED  BY <1>1, <1>6, <1>9, <1>10

LEMMA UpdateBatch ==
  ASSUME NEW j, Built(j), j.op = "update", W!KeysDiffer(j), NEW b, IsTable(b),
         NEW d \in Nat, NEW m \in Nat, d + m <= Len(j.rows)
  PROVE  W!Effect(j, Batch(j, d, m), Rows(j, b)[d]).t = Rows(j, b)[d + m]
<1>1. PICK s : s = Batch(j, d, m)
  OBVIOUS
<1>2. PICK after : after = Rows(j, b)
  OBVIOUS
<1>3. PICK t : t = after[d]
  OBVIOUS
<1>4. PICK q : q = after[d + m]
  OBVIOUS
<1>5. PICK r : r = W!Effect(j, s, t).t
  OBVIOUS
<1>6. r = [k \in Keys |-> IF t[k] = Absent \/ k \notin W!Listed(s) THEN t[k]
                          ELSE [p \in 1 .. 2 |-> W!Cased(j, s, t, k, p)]]
  BY <1>5 DEF W!Effect
<1>7. q = [k \in Keys |-> q[k]]
  <2>1. d + m \in 0 .. Len(j.rows)
    <3>1. j.rows \in Seq(Seq(Cells))
      BY BulkAssumption DEF Built
    <3>2. QED  BY <3>1
  <2>2. QED  BY <1>2, <1>4, <2>1, RowsAreTables DEF IsTable
<1>8. Done(j, t, after, d, m)
  BY <1>2, <1>3, UpdatesDone
<1>9. ASSUME NEW k \in Keys PROVE r[k] = q[k]
  <2>1. k \in W!Listed(s) <=> \E i \in 1 .. m : j.rows[d + i][1] = k
    <3>1. W!Listed(Batch(j, d, m)) = BatchKeys(j, d, m)
      BY ListedAre
    <3>2. QED  BY <1>1, <3>1 DEF BatchKeys
  <2>2. CASE t[k] = Absent \/ k \notin W!Listed(s)
    <3>1. r[k] = t[k]
      BY <1>6, <2>2
    <3>2. q[k] = t[k]
      BY <1>4, <1>8, <2>1, <2>2 DEF Done
    <3>3. QED  BY <3>1, <3>2
  <2>3. CASE ~(t[k] = Absent \/ k \notin W!Listed(s))
    <3>1. PICK i \in 1 .. m : j.rows[d + i][1] = k
      BY <2>1, <2>3
    <3>2. r[k] = [p \in 1 .. 2 |-> W!Cased(j, s, t, k, p)]
      BY <1>6, <2>3
    <3>3. q[k] = W!Updated(t[k], j.rows[d + i], j.updateCols)
      BY <1>4, <1>8, <2>3, <3>1 DEF Done
    <3>4. PICK u : u = W!Updated(t[k], j.rows[d + i], j.updateCols)
      OBVIOUS
    <3>5. u = [p \in 1 .. 2 |-> u[p]]
      BY <3>4 DEF W!Updated
    <3>6. ASSUME NEW p \in 1 .. 2 PROVE W!Cased(j, s, t, k, p) = u[p]
      <4>1. CasedUpdates(j, d, m, t, i, p)
        BY CasedIsUpdated
      <4>2. QED  BY <1>1, <3>1, <3>4, <4>1 DEF CasedUpdates
    <3>7. r[k] = u
      BY <3>2, <3>5, <3>6
    <3>8. QED  BY <3>3, <3>4, <3>7
  <2>4. QED  BY <2>2, <2>3
<1>10. r = q
  <2>1. r = [k \in Keys |-> r[k]]
    BY <1>6
  <2>2. QED  BY <1>7, <1>9, <2>1
<1>11. QED  BY <1>1, <1>2, <1>3, <1>4, <1>5, <1>10

-----------------------------------------------------------------------------
(* How many rows a batch has. *)
LEMMA MaxParamsPositive == \A dialect : W!MaxParamsFor(dialect) \in Nat \ {0}
BY DEF W!MaxParamsFor

LEMMA AtLeastOneIs == \A n \in Int : W!AtLeastOne(n) \in Nat \ {0} /\ (n >= 1 => W!AtLeastOne(n) = n)
BY DEF W!AtLeastOne

(* As many rows as fit, fit. *)
LEMMA DivFits ==
  ASSUME NEW m \in Nat, NEW p \in Nat \ {0}
  PROVE  /\ m \div p \in Nat
         /\ (m \div p) * p <= m
         /\ p <= m => m \div p >= 1
OBVIOUS

LEMMA DefaultIsPositive ==
  ASSUME NEW dialect, NEW p \in Int
  PROVE  W!DefaultBatchSizeFor(dialect, p) \in Nat \ {0}
<1>1. CASE p <= 0
  BY <1>1 DEF W!DefaultBatchSizeFor
<1>2. CASE p > 0
  <2>1. W!MaxParamsFor(dialect) \div p \in Nat
    BY <1>2, MaxParamsPositive, DivFits
  <2>2. W!CapRows(dialect, p) \in Nat
    BY DEF W!CapRows
  <2>3. QED  BY <1>2, <2>1, <2>2, AtLeastOneIs DEF W!DefaultBatchSizeFor
<1>3. QED  BY <1>1, <1>2

(* batchSizeFor: whatever size the caller asks for, a batch has at least one *)
(* row, so the loop over the rows ends, and unless a single row is already   *)
(* too wide its statement has no more parameters than the database takes.    *)
THEOREM BatchWithinLimit ==
  ASSUME NEW dialect, NEW paramsPerRow \in Nat \ {0}, NEW requested \in Int
  PROVE  LET size == W!BatchSizeFor(dialect, paramsPerRow, requested)
         IN  /\ size \in Nat \ {0}
             /\ ~W!TooWide(dialect, paramsPerRow) => size * paramsPerRow <= W!MaxParamsFor(dialect)
<1> DEFINE max == W!MaxParamsFor(dialect)
           asked == IF requested <= 0 THEN W!DefaultBatchSizeFor(dialect, paramsPerRow) ELSE requested
           fit == max \div paramsPerRow
<1>1. asked \in Nat \ {0}
  BY DefaultIsPositive
<1>2. max \in Nat \ {0}
  BY MaxParamsPositive
<1>3. fit \in Nat /\ fit * paramsPerRow <= max /\ (paramsPerRow <= max => fit >= 1)
  BY <1>2, DivFits
<1>4. W!BatchSizeFor(dialect, paramsPerRow, requested) =
        W!AtLeastOne(IF asked * paramsPerRow > max THEN fit ELSE asked)
  BY DEF W!BatchSizeFor
<1> HIDE DEF max, asked, fit
<1>5. CASE asked * paramsPerRow > max
  <2>1. W!BatchSizeFor(dialect, paramsPerRow, requested) = W!AtLeastOne(fit)
    BY <1>4, <1>5
  <2>2. CASE paramsPerRow > max
    <3>1. W!BatchSizeFor(dialect, paramsPerRow, requested) \in Nat \ {0}
      BY <1>3, <2>1, AtLeastOneIs
    <3>2. QED  BY <2>2, <3>1 DEF W!TooWide, max
  <2>3. CASE ~(paramsPerRow > max)
    <3>1. fit >= 1
      BY <1>2, <1>3, <2>3
    <3>2. W!AtLeastOne(fit) = fit
      BY <1>3, <3>1, AtLeastOneIs
    <3>3. W!BatchSizeFor(dialect, paramsPerRow, requested) = fit
      BY <2>1, <3>2
    <3>4. QED  BY <1>3, <3>1, <3>3 DEF max
  <2>4. QED  BY <2>2, <2>3
<1>6. CASE ~(asked * paramsPerRow > max)
  <2>1. W!BatchSizeFor(dialect, paramsPerRow, requested) = asked
    BY <1>1, <1>4, <1>6, AtLeastOneIs
  <2>2. asked * paramsPerRow \in Nat
    BY <1>1
  <2>3. asked * paramsPerRow <= max
    BY <1>2, <1>6, <2>2
  <2>4. QED  BY <1>1, <2>1, <2>3 DEF max
<1>7. QED  BY <1>5, <1>6
-----------------------------------------------------------------------------
(* buildBatches: b statements hold the first Cut(n, size, b) rows.           *)
Cut(n, size, b) == IF b * size > n THEN n ELSE b * size
Count(n, size) == (n + size - 1) \div size

LEMMA CountIs ==
  ASSUME NEW n \in Nat \ {0}, NEW size \in Nat \ {0}
  PROVE  /\ Count(n, size) \in Nat \ {0}
         /\ Count(n, size) * size >= n
         /\ (Count(n, size) - 1) * size < n
<1>1. PICK a \in Nat : a = n + size - 1
  OBVIOUS
<1>2. PICK q \in Nat : q = a \div size
  OBVIOUS
<1>3. q * size <= a /\ a < (q + 1) * size
  BY <1>2
<1>4. (q + 1) * size = q * size + size /\ (q - 1) * size = q * size - size /\ q * size \in Nat
  OBVIOUS
<1>5. q * size >= n /\ (q - 1) * size < n
  BY <1>1, <1>3, <1>4
<1>6. q # 0
  BY <1>5
<1>7. QED  BY <1>1, <1>2, <1>5, <1>6 DEF Count

LEMMA CutsAre ==
  ASSUME NEW n \in Nat \ {0}, NEW size \in Nat \ {0}
  PROVE  /\ Cut(n, size, 0) = 0 /\ Cut(n, size, Count(n, size)) = n
         /\ \A b \in 1 .. Count(n, size) :
              /\ Cut(n, size, b - 1) \in Nat /\ Cut(n, size, b) \in Nat
              /\ Cut(n, size, b - 1) = (b - 1) * size
              /\ Cut(n, size, b - 1) < Cut(n, size, b) /\ Cut(n, size, b) <= n
              /\ Cut(n, size, b) - Cut(n, size, b - 1) <= size
<1>1. PICK q \in Nat \ {0} : q = Count(n, size)
  BY CountIs
<1>2. q * size >= n /\ (q - 1) * size < n /\ q * size \in Nat
  BY <1>1, CountIs
<1>3. Cut(n, size, 0) = 0
  BY DEF Cut
<1>4. Cut(n, size, q) = n
  BY <1>2 DEF Cut
<1>5. ASSUME NEW b \in 1 .. q
      PROVE  /\ Cut(n, size, b - 1) \in Nat /\ Cut(n, size, b) \in Nat
             /\ Cut(n, size, b - 1) = (b - 1) * size
             /\ Cut(n, size, b - 1) < Cut(n, size, b) /\ Cut(n, size, b) <= n
             /\ Cut(n, size, b) - Cut(n, size, b - 1) <= size
  <2>1. PICK h \in Nat : h = (b - 1) * size
    OBVIOUS
  <2>2. b * size = h + size
    BY <2>1
  <2>3. h < n
    <3>1. PICK e \in Nat : e = q - b
      OBVIOUS
    <3>2. (q - 1) * size = h + e * size /\ e * size \in Nat
      BY <2>1, <3>1
    <3>3. QED  BY <1>2, <3>2
  <2>4. Cut(n, size, b - 1) = h
    BY <2>1, <2>3 DEF Cut
  <2>5. Cut(n, size, b) = IF h + size > n THEN n ELSE h + size
    BY <2>2 DEF Cut
  <2>6. QED  BY <2>1, <2>3, <2>4, <2>5
<1>6. QED  BY <1>1, <1>3, <1>4, <1>5

(* What Build builds. *)
Size(j) == W!BatchSizeFor(j.dialect, W!ParamsPerRow(j), j.requested)
Part(j, b) == Cut(Len(j.rows), Size(j), b)
JobStatements(j) == [b \in 1 .. Count(Len(j.rows), Size(j)) |-> Batch(j, Part(j, b - 1), Part(j, b) - Part(j, b - 1))]

LEMMA WidthIs ==
  ASSUME NEW j \in Jobs
  PROVE  W!ParamsPerRow(j) \in Nat \ {0} /\ j.requested \in Int
<1>1. j.more \in Nat /\ j.requested \in Int /\ j.updateCols \in Seq({"v", "w"})
  BY BulkAssumption
<1>2. PICK c \in Nat : c = Len(j.updateCols)
  BY <1>1
<1>3. W!ParamsPerRow(j) = IF j.op = "update" THEN 2 * (c + j.more) + 1 ELSE 3 + j.more
  BY <1>2, ColumnsAre DEF W!ParamsPerRow
<1>4. QED  BY <1>1, <1>3

LEMMA SizeIs ==
  ASSUME NEW j \in Jobs
  PROVE  /\ Size(j) \in Nat \ {0}
         /\ ~W!TooWide(j.dialect, W!ParamsPerRow(j)) => Size(j) * W!ParamsPerRow(j) <= W!MaxParamsFor(j.dialect)
BY WidthIs, BatchWithinLimit DEF Size

LEMMA StatementsBuilt ==
  ASSUME NEW j, Built(j), j.rows # <<>>
  PROVE  LET cuts == W!Batches(Len(j.rows), Size(j))
         IN  [b \in DOMAIN cuts |-> W!BuildOne(j, SubSeq(j.rows, cuts[b][1], cuts[b][2]))] = JobStatements(j)
<1>1. PICK n \in Nat \ {0} : n = Len(j.rows)
  <2>1. j.rows \in Seq(Seq(Cells))
    BY BulkAssumption DEF Built
  <2>2. QED  BY <2>1
<1>2. PICK size \in Nat \ {0} : size = Size(j)
  BY SizeIs DEF Built
<1>3. PICK cuts : cuts = W!Batches(n, size)
  OBVIOUS
<1>4. PICK q \in Nat : q = Count(n, size)
  BY CountIs
<1>5. cuts = [b \in 1 .. q |-> <<(b - 1) * size + 1, Cut(n, size, b)>>]
  BY <1>3, <1>4 DEF W!Batches, Cut, Count
<1>6. ASSUME NEW b \in 1 .. q
      PROVE  W!BuildOne(j, SubSeq(j.rows, cuts[b][1], cuts[b][2]))
               = Batch(j, Part(j, b - 1), Part(j, b) - Part(j, b - 1))
  <2>1. PICK d \in Nat : d = Cut(n, size, b - 1)
    BY <1>4, CutsAre
  <2>2. PICK e \in Nat : e = Cut(n, size, b)
    BY <1>4, CutsAre
  <2>3. d = (b - 1) * size
    BY <1>4, <2>1, CutsAre
  <2>4. cuts[b][1] = d + 1 /\ cuts[b][2] = e
    BY <1>5, <2>2, <2>3
  <2>5. d + (e - d) = e
    OBVIOUS
  <2>6. Part(j, b - 1) = d /\ Part(j, b) = e
    BY <1>1, <1>2, <2>1, <2>2 DEF Part
  <2>7. QED  BY <2>4, <2>5, <2>6 DEF Batch
<1>7. DOMAIN cuts = 1 .. q
  BY <1>5
<1>8. [b \in DOMAIN cuts |-> W!BuildOne(j, SubSeq(j.rows, cuts[b][1], cuts[b][2]))] = JobStatements(j)
  BY <1>1, <1>2, <1>4, <1>6, <1>7 DEF JobStatements
<1>9. QED  BY <1>1, <1>2, <1>3, <1>8

-----------------------------------------------------------------------------
(* One statement of the call: the rows it stands for, or a clash.            *)
LEMMA StatementEffect ==
  ASSUME NEW j, Built(j), j.rows # <<>>, j.op = "update" => W!KeysDiffer(j), NEW b, IsTable(b),
         NEW i \in 1 .. Count(Len(j.rows), Size(j))
  PROVE  LET result == W!Effect(j, JobStatements(j)[i], Rows(j, b)[Part(j, i - 1)])
         IN  result.clash \/ result.t = Rows(j, b)[Part(j, i)]
<1>1. PICK n \in Nat \ {0} : n = Len(j.rows)
  <2>1. j.rows \in Seq(Seq(Cells))
    BY BulkAssumption DEF Built
  <2>2. QED  BY <2>1
<1>2. PICK size \in Nat \ {0} : size = Size(j)
  BY SizeIs DEF Built
<1>3. PICK d \in Nat : d = Part(j, i - 1)
  BY <1>1, <1>2, CutsAre DEF Part
<1>4. PICK e \in Nat : e = Part(j, i)
  BY <1>1, <1>2, CutsAre DEF Part
<1>5. d < e /\ e <= n
  BY <1>1, <1>2, <1>3, <1>4, CutsAre DEF Part
<1>6. PICK m \in Nat : m = e - d
  BY <1>5
<1>7. d + m = e /\ d + m <= Len(j.rows)
  BY <1>1, <1>5, <1>6
<1>8. JobStatements(j)[i] = Batch(j, d, m)
  BY <1>3, <1>4, <1>6 DEF JobStatements
<1>9. PICK result : result = W!Effect(j, Batch(j, d, m), Rows(j, b)[d])
  OBVIOUS
<1>10. result.clash \/ result.t = Rows(j, b)[d + m]
  <2>1. CASE j.op = "update"
    <3>1. W!KeysDiffer(j)
      BY <2>1
    <3>2. W!Effect(j, Batch(j, d, m), Rows(j, b)[d]).t = Rows(j, b)[d + m]
      BY <1>7, <2>1, <3>1, UpdateBatch
    <3>3. QED  BY <1>9, <3>2
  <2>2. CASE j.op # "update"
    BY <1>7, <1>9, <2>2, InsertBatch
  <2>3. QED  BY <2>1, <2>2
<1>11. QED  BY <1>3, <1>4, <1>7, <1>8, <1>9, <1>10

LEMMA ParamsWithin ==
  ASSUME NEW j, Built(j), j.rows # <<>>, ~W!TooWide(j.dialect, W!ParamsPerRow(j)),
         NEW i \in 1 .. Count(Len(j.rows), Size(j))
  PROVE  JobStatements(j)[i].params <= W!MaxParamsFor(j.dialect)
<1>1. PICK n \in Nat \ {0} : n = Len(j.rows)
  <2>1. j.rows \in Seq(Seq(Cells))
    BY BulkAssumption DEF Built
  <2>2. QED  BY <2>1
<1>2. PICK size \in Nat \ {0} : size = Size(j)
  BY SizeIs DEF Built
<1>3. PICK d \in Nat : d = Part(j, i - 1)
  BY <1>1, <1>2, CutsAre DEF Part
<1>4. PICK e \in Nat : e = Part(j, i)
  BY <1>1, <1>2, CutsAre DEF Part
<1>5. d < e /\ e <= n /\ e - d <= size
  BY <1>1, <1>2, <1>3, <1>4, CutsAre DEF Part
<1>6. PICK m \in Nat : m = e - d
  BY <1>5
<1>7. d + m <= Len(j.rows) /\ m <= size
  BY <1>1, <1>5, <1>6
<1>8. JobStatements(j)[i] = Batch(j, d, m)
  BY <1>3, <1>4, <1>6 DEF JobStatements
<1>9. PICK w \in Nat : w = W!ParamsPerRow(j)
  BY WidthIs DEF Built
<1>10. JobStatements(j)[i].params = m * w
  BY <1>7, <1>8, <1>9, BatchSizes
<1>11. PICK most \in Nat : most = W!MaxParamsFor(j.dialect)
  BY MaxParamsPositive
<1>12. size * w <= most
  BY <1>2, <1>9, <1>11, SizeIs DEF Built
<1>13. m * w <= size * w
  <2>1. PICK r \in Nat : r = size - m
    BY <1>7
  <2>2. size * w = m * w + r * w /\ r * w \in Nat /\ m * w \in Nat
    BY <2>1
  <2>3. QED  BY <2>2
<1>14. m * w \in Nat /\ size * w \in Nat
  OBVIOUS
<1>15. QED  BY <1>10, <1>11, <1>12, <1>13, <1>14

-----------------------------------------------------------------------------
(* The inductive invariant.                                                  *)
(* While the statements run, they are those of the whole job, and the table  *)
(* is what the rows of those that ran, one by one, make of the table before. *)
Running ==
  /\ Built(job) /\ job.rows # <<>> /\ ~W!TooWide(job.dialect, W!ParamsPerRow(job))
  /\ stmts = JobStatements(job) /\ ran \in 0 .. Count(Len(job.rows), Size(job))
  /\ (job.op = "update" => W!KeysDiffer(job)) => table = Rows(job, before)[Part(job, ran)]

BulkInv ==
  /\ job \in Jobs /\ IsTable(before)
  /\ bulkAt \in {"build", "run", "done"}
  /\ bulkAt # "done" => reply = "none"
  /\ bulkAt = "build" => stmts = <<>> /\ ran = 0 /\ table = before
  /\ bulkAt = "run" => Running
  /\ W!BulkIsRowByRow

LEMMA BulkInvInit == DbInit => BulkInv
<1> SUFFICES ASSUME W!Init PROVE BulkInv
  BY DEF DbInit
<1>1. /\ job \in Jobs /\ before \in Tables /\ table = before
      /\ bulkAt = "build" /\ stmts = <<>> /\ ran = 0 /\ reply = "none"
  BY DEF W!Init
<1>2. IsTable(before)
  <2>1. before \in [Keys -> [1 .. 2 -> Cells] \cup {Absent}]
    BY <1>1, BulkAssumption
  <2>2. QED  BY <2>1 DEF IsTable
<1>3. DOMAIN stmts = {}
  BY <1>1
<1>4. W!BulkIsRowByRow
  BY <1>1, <1>3 DEF W!BulkIsRowByRow
<1>5. QED  BY <1>1, <1>2, <1>4 DEF BulkInv

LEMMA BuildKeeps == BulkInv /\ W!Build => BulkInv'
<1> SUFFICES ASSUME BulkInv, W!Build PROVE BulkInv'
  OBVIOUS
<1>1. /\ job \in Jobs /\ IsTable(before) /\ stmts = <<>> /\ ran = 0 /\ table = before /\ reply = "none"
      /\ job' = job /\ table' = table /\ before' = before /\ ran' = ran
  BY DEF BulkInv, W!Build
<1>2. job.rows \in Seq(Seq(Cells)) /\ DOMAIN <<>> = {}
  BY <1>1, BulkAssumption
<1>3. CASE job.rows = <<>> \/ job.noColumns
  <2>1. reply' = "ok" /\ bulkAt' = "done" /\ stmts' = <<>>
    BY <1>1, <1>3 DEF W!Build
  <2>2. ASSUME ~job.noColumns PROVE table = W!RowByRow(job, before)
    <3>1. Len(job.rows) = 0
      BY <1>3, <2>2
    <3>2. QED  BY <1>1, <3>1, RowsAre
  <2>3. W!BulkIsRowByRow'
    BY <1>1, <1>2, <2>1, <2>2 DEF W!BulkIsRowByRow
  <2>4. QED  BY <1>1, <2>1, <2>3 DEF BulkInv, IsTable
<1>4. CASE /\ ~(job.rows = <<>> \/ job.noColumns)
           /\ W!TooWide(job.dialect, W!ParamsPerRow(job)) \/ W!Unbuildable(job) \/ ~W!RowsFit(job)
  <2>1. reply' = "invalid" /\ bulkAt' = "done" /\ stmts' = <<>>
    BY <1>1, <1>4 DEF W!Build
  <2>2. W!BulkIsRowByRow'
    BY <1>1, <1>2, <2>1 DEF W!BulkIsRowByRow
  <2>3. QED  BY <1>1, <2>1, <2>2 DEF BulkInv, IsTable
<1>5. CASE /\ ~(job.rows = <<>> \/ job.noColumns)
           /\ ~(W!TooWide(job.dialect, W!ParamsPerRow(job)) \/ W!Unbuildable(job) \/ ~W!RowsFit(job))
  <2>1. Built(job) /\ job.rows # <<>> /\ ~W!TooWide(job.dialect, W!ParamsPerRow(job))
    BY <1>1, <1>5 DEF Built, W!Unbuildable
  <2>2. PICK cuts : cuts = W!Batches(Len(job.rows), Size(job))
    OBVIOUS
  <2>3. /\ stmts' = [b \in DOMAIN cuts |-> W!BuildOne(job, SubSeq(job.rows, cuts[b][1], cuts[b][2]))]
        /\ bulkAt' = "run" /\ reply' = "none"
    BY <1>1, <1>5, <2>2 DEF W!Build, Size
  <2>4. stmts' = JobStatements(job)
    BY <2>1, <2>2, <2>3, StatementsBuilt
  <2>5. PICK q \in Nat : q = Count(Len(job.rows), Size(job))
    <3>1. Len(job.rows) \in Nat \ {0}
      BY <1>2, <2>1
    <3>2. QED  BY <1>1, <3>1, SizeIs, CountIs
  <2>6. 0 \in 0 .. q /\ Part(job, 0) = 0
    <3>1. Len(job.rows) \in Nat \ {0}
      BY <1>2, <2>1
    <3>2. QED  BY <1>1, <3>1, SizeIs, CutsAre DEF Part
  <2>7. table = Rows(job, before)[Part(job, 0)]
    <3>1. Len(job.rows) \in Nat
      BY <1>2
    <3>2. QED  BY <1>1, <2>6, <3>1, RowsAre
  <2>8. Running'
    BY <1>1, <2>1, <2>4, <2>5, <2>6, <2>7 DEF Running
  <2>9. \A b \in DOMAIN stmts' : stmts'[b].params <= W!MaxParamsFor(job.dialect)
    <3>1. DOMAIN stmts' = 1 .. Count(Len(job.rows), Size(job))
      BY <2>4 DEF JobStatements
    <3>2. QED  BY <2>1, <2>4, <3>1, ParamsWithin
  <2>10. W!BulkIsRowByRow'
    BY <1>1, <2>3, <2>9 DEF W!BulkIsRowByRow
  <2>11. QED  BY <1>1, <2>3, <2>8, <2>10 DEF BulkInv, IsTable
<1>6. QED  BY <1>3, <1>4, <1>5

LEMMA ExecuteKeeps == BulkInv /\ W!Execute => BulkInv'
<1> SUFFICES ASSUME BulkInv, W!Execute PROVE BulkInv'
  OBVIOUS
<1>1. /\ job' = job /\ before' = before /\ stmts' = stmts
      /\ bulkAt = "run" /\ reply = "none" /\ ran < Len(stmts)
      /\ job \in Jobs /\ IsTable(before) /\ Running
  BY DEF BulkInv, W!Execute
<1>2. PICK q \in Nat : q = Count(Len(job.rows), Size(job))
  <2>1. job.rows \in Seq(Seq(Cells)) /\ job.rows # <<>>
    BY <1>1, BulkAssumption DEF Running
  <2>2. Len(job.rows) \in Nat \ {0}
    BY <2>1
  <2>3. QED  BY <1>1, <2>2, SizeIs, CountIs
<1>3. stmts = JobStatements(job) /\ Len(stmts) = q
  BY <1>1, <1>2 DEF Running, JobStatements
<1>4. ran \in 0 .. q /\ ran + 1 \in 1 .. q /\ (ran + 1) - 1 = ran
  BY <1>1, <1>2, <1>3 DEF Running
<1>5. PICK i \in 1 .. q : i = ran + 1
  BY <1>4
<1>6. PICK result : result = W!Effect(job, stmts[i], table)
  OBVIOUS
<1>7. \A b \in DOMAIN stmts : stmts[b].params <= W!MaxParamsFor(job.dialect)
  BY DEF BulkInv, W!BulkIsRowByRow
<1>8. CASE result.clash
  <2>1. table' = before /\ reply' = "failed" /\ bulkAt' = "done"
    BY <1>5, <1>6, <1>8 DEF W!Execute
  <2>2. W!BulkIsRowByRow'
    BY <1>1, <1>7, <2>1 DEF W!BulkIsRowByRow
  <2>3. QED  BY <1>1, <2>1, <2>2 DEF BulkInv, IsTable
<1>9. CASE ~result.clash
  <2>1. table' = result.t /\ ran' = i /\ reply' = "none" /\ bulkAt' = "run"
    BY <1>1, <1>5, <1>6, <1>9 DEF W!Execute
  <2>2. ASSUME job.op = "update" => W!KeysDiffer(job)
        PROVE  result.t = Rows(job, before)[Part(job, i)]
    <3>1. table = Rows(job, before)[Part(job, i - 1)]
      BY <1>1, <1>4, <1>5, <2>2 DEF Running
    <3>2. Built(job) /\ job.rows # <<>>
      BY <1>1 DEF Running
    <3>3. result = W!Effect(job, JobStatements(job)[i], Rows(job, before)[Part(job, i - 1)])
      BY <1>3, <1>6, <3>1
    <3>4. QED  BY <1>1, <1>2, <1>9, <2>2, <3>2, <3>3, StatementEffect
  <2>3. i \in 0 .. q
    OBVIOUS
  <2>4. Running'
    BY <1>1, <1>2, <2>1, <2>2, <2>3 DEF Running
  <2>5. W!BulkIsRowByRow'
    BY <1>1, <1>7, <2>1 DEF W!BulkIsRowByRow
  <2>6. QED  BY <1>1, <2>1, <2>4, <2>5 DEF BulkInv, IsTable
<1>10. QED  BY <1>8, <1>9

LEMMA FailsKeeps == BulkInv /\ W!Fails => BulkInv'
<1> SUFFICES ASSUME BulkInv, W!Fails PROVE BulkInv'
  OBVIOUS
<1>1. /\ job' = job /\ before' = before /\ stmts' = stmts /\ ran' = ran
      /\ table' = before /\ reply' = "failed" /\ bulkAt' = "done"
      /\ job \in Jobs /\ IsTable(before)
  BY DEF BulkInv, W!Fails
<1>2. \A b \in DOMAIN stmts : stmts[b].params <= W!MaxParamsFor(job.dialect)
  BY DEF BulkInv, W!BulkIsRowByRow
<1>3. W!BulkIsRowByRow'
  BY <1>1, <1>2 DEF W!BulkIsRowByRow
<1>4. QED  BY <1>1, <1>3 DEF BulkInv, IsTable

LEMMA CommitKeeps == BulkInv /\ W!Commit => BulkInv'
<1> SUFFICES ASSUME BulkInv, W!Commit PROVE BulkInv'
  OBVIOUS
<1>1. /\ job' = job /\ before' = before /\ stmts' = stmts /\ ran' = ran /\ table' = table
      /\ reply' = "ok" /\ bulkAt' = "done" /\ ran = Len(stmts)
      /\ job \in Jobs /\ IsTable(before) /\ Running
  BY DEF BulkInv, W!Commit
<1>2. job.rows \in Seq(Seq(Cells)) /\ job.rows # <<>>
  BY <1>1, BulkAssumption DEF Running
<1>3. PICK n \in Nat \ {0} : n = Len(job.rows)
  BY <1>2
<1>4. PICK size \in Nat \ {0} : size = Size(job)
  BY <1>1, SizeIs
<1>5. PICK q \in Nat : q = Count(n, size)
  BY CountIs
<1>6. ran = q
  BY <1>1, <1>3, <1>4, <1>5 DEF Running, JobStatements
<1>7. Part(job, ran) = n
  BY <1>3, <1>4, <1>5, <1>6, CutsAre DEF Part
<1>8. ASSUME job.op = "update" => W!KeysDiffer(job) PROVE table = W!RowByRow(job, before)
  <2>1. table = Rows(job, before)[n]
    BY <1>1, <1>7, <1>8 DEF Running
  <2>2. QED  BY <1>3, <2>1, RowsAre
<1>9. \A b \in DOMAIN stmts : stmts[b].params <= W!MaxParamsFor(job.dialect)
  BY DEF BulkInv, W!BulkIsRowByRow
<1>10. W!BulkIsRowByRow'
  BY <1>1, <1>8, <1>9 DEF W!BulkIsRowByRow
<1>11. QED  BY <1>1, <1>10 DEF BulkInv, IsTable

LEMMA BulkInvStep == BulkInv /\ [DbNext]_dbVars => BulkInv'
<1>1. ASSUME BulkInv, UNCHANGED bulkVars PROVE BulkInv'
  BY <1>1 DEF BulkInv, bulkVars, IsTable, Running, W!BulkIsRowByRow
<1>2. QED  BY <1>1, BuildKeeps, ExecuteKeeps, FailsKeeps, CommitKeeps
        DEF DbNext, Runtime, Loading, Bulk, dbVars, W!Next

(* BulkInsertRows, BulkUpsertRows, BulkUpdateByKey: whatever the rows, the   *)
(* dialect and the batch size, a call that succeeds leaves what its rows say *)
(* one by one, one that fails or is refused leaves the table as it was, and  *)
(* no statement has more parameters than the database takes.                 *)
THEOREM BulkIsRowByRowHolds == DbSpec => []BulkIsRowByRow
<1>1. BulkInv => BulkIsRowByRow
  BY DEF BulkInv, BulkIsRowByRow
<1>2. QED  BY <1>1, BulkInvInit, BulkInvStep, PTL DEF DbSpec
=============================================================================
