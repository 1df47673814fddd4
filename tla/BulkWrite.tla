------------------------------ MODULE BulkWrite ------------------------------
(***************************************************************************)
(* pkg/db: BulkInsertRows, BulkUpsertRows(WithOptions) and BulkUpdateByKey.*)
(* All statements are built before the database sees one; several run in   *)
(* one transaction.  What they do to a table is the database's.            *)
(*                                                                         *)
(* A row is <<key, v, w>>; the table maps keys to <<v, w>> or Absent.  A   *)
(* statement keeps its arguments in one flat sequence, as the code does,   *)
(* and its placeholders ("?") take them in order.                          *)
(***************************************************************************)
EXTENDS BatchSize, SequencesExt

CONSTANTS
  Jobs,      \* the calls: [op, dialect, rows, noColumns, updateCols, conflictCols,
             \*  more, requested, names, hint, output]; "more" columns are counted only
  Tables,    \* what the table may hold before
  Keys,      \* of rows
  Absent

VARIABLES
  job,
  table, before,   \* the table as a transaction sees it, and as the call found it
  pc,              \* "build", "run", "done"
  stmts, ran,      \* the statements built, how many have run
  answer           \* "none", "ok", "invalid" (nothing built), "failed"

vars == <<job, table, before, pc, stmts, ran, answer>>

Init ==
  /\ job \in Jobs /\ table \in Tables /\ before = table
  /\ pc = "build" /\ stmts = <<>> /\ ran = 0 /\ answer = "none"

Columns == <<"k", "v", "w">>
Col(c) == CHOOSE i \in DOMAIN Columns : Columns[i] = c

-----------------------------------------------------------------------------
(* Table hints and OUTPUT items SQL Server may be given; no other database   *)
(* is shown them.                                                            *)
MergeHints == {"HOLDLOCK", "SERIALIZABLE", "UPDLOCK", "ROWLOCK", "PAGLOCK", "TABLOCK", "TABLOCKX",
               "XLOCK", "READCOMMITTED", "READCOMMITTEDLOCK", "REPEATABLEREAD"}
HintAllowed(hint) == hint \subseteq MergeHints
OutputAllowed(output) == output \subseteq {"$action", "INSERTED", "DELETED"}

(* What the call is refused for before any statement exists: a name that is  *)
(* no identifier, and what an upsert lacks.                                  *)
Unbuildable(j) ==
  \/ ~j.names
  \/ j.op = "upsert" /\ j.dialect = ""
  \/ j.op = "upsert" /\ j.dialect \in {"postgres", "sqlite", "sqlserver"} /\ ~j.conflictCols
  \/ j.op = "upsert" /\ j.dialect = "sqlserver" /\ ~(HintAllowed(j.hint) /\ OutputAllowed(j.output))
  \/ j.op = "update" /\ j.updateCols = <<>>

ParamsPerRow(j) == IF j.op = "update" THEN 2 * (Len(j.updateCols) + j.more) + 1 ELSE Len(Columns) + j.more

(* One statement for the rows of a batch: values in the order of the text.   *)
Values(rows) == FlattenSeq(rows)
Pairs(rows, c) == FlattenSeq([i \in DOMAIN rows |-> <<rows[i][1], rows[i][Col(c)]>>])
Cases(j, rows) == FlattenSeq([i \in DOMAIN j.updateCols |-> Pairs(rows, j.updateCols[i])])
RowKeys(rows) == [i \in DOMAIN rows |-> rows[i][1]]

BuildOne(j, rows) ==
  [n |-> Len(rows),
   params |-> Len(rows) * ParamsPerRow(j),
   args |-> IF j.op = "update" THEN Cases(j, rows) \o RowKeys(rows) ELSE Values(rows)]

(* A row of another length than the columns, or without one to update, is an *)
(* error of its batch, whichever it is in.                                   *)
RowFits(j, row) ==
  IF j.op = "update" THEN \A i \in DOMAIN j.updateCols : Col(j.updateCols[i]) <= Len(row)
  ELSE Len(row) = Len(Columns)
RowsFit(j) == \A i \in DOMAIN j.rows : RowFits(j, j.rows[i])

(* Mutant: only whole batches. *)
BatchesWhole(n, size) == [b \in 1 .. n \div size |-> <<(b - 1) * size + 1, b * size>>]

(* buildBatches: the first and the last row of each. *)
Batches(n, size) ==
  [b \in 1 .. (n + size - 1) \div size |->
     <<(b - 1) * size + 1, IF b * size > n THEN n ELSE b * size>>]

Build ==
  /\ pc = "build"
  /\ LET size == BatchSizeFor(job.dialect, ParamsPerRow(job), job.requested)
         cuts == Batches(Len(job.rows), size)
     IN IF job.rows = <<>> \/ job.noColumns
        THEN answer' = "ok" /\ pc' = "done" /\ UNCHANGED stmts
        ELSE IF TooWide(job.dialect, ParamsPerRow(job)) \/ Unbuildable(job) \/ ~RowsFit(job)
        THEN answer' = "invalid" /\ pc' = "done" /\ UNCHANGED stmts
        ELSE /\ stmts' = [b \in DOMAIN cuts |-> BuildOne(job, SubSeq(job.rows, cuts[b][1], cuts[b][2]))]
             /\ pc' = "run"
             /\ UNCHANGED answer
  /\ UNCHANGED <<job, table, before, ran>>

-----------------------------------------------------------------------------
(* The database: the n-th placeholder of the text holds the n-th argument.   *)
RowOf(s, i) == SubSeq(s.args, (i - 1) * Len(Columns) + 1, i * Len(Columns))

Data(row) == [p \in 1 .. 2 |-> row[p + 1]]
Updated(old, row, cols) ==
  [p \in 1 .. 2 |-> IF Columns[p + 1] \in ToSet(cols) THEN row[p + 1] ELSE old[p]]

(* One row of an insert or an upsert, on what the statement has done so far; *)
(* a clash when the key is taken, or when the database does not let one      *)
(* statement write a row twice.                                              *)
Put(j, s, t, acc, i) ==
  LET row == RowOf(s, i)
      k == row[1]
      twice == \E h \in 1 .. i - 1 : RowOf(s, h)[1] = k
      clash == \/ j.op = "insert" /\ acc.t[k] # Absent
               \/ j.dialect = "postgres" /\ twice /\ j.updateCols # <<>>
               \/ j.dialect = "sqlserver" /\ twice /\ (j.updateCols # <<>> \/ t[k] = Absent)
  IN IF acc.clash \/ clash THEN [clash |-> TRUE, t |-> acc.t]
     ELSE [clash |-> FALSE,
           t |-> [acc.t EXCEPT ![k] = IF @ = Absent THEN Data(row) ELSE Updated(@, row, j.updateCols)]]

(* SET c = CASE WHEN k = ? THEN ? ... ELSE c END WHERE k IN (...): the first *)
(* WHEN that matches.                                                        *)
Cased(j, s, t, k, p) ==
  LET C == {c \in DOMAIN j.updateCols : j.updateCols[c] = Columns[p + 1]}
      Arg(c, i, which) == s.args[(c - 1) * 2 * s.n + 2 * (i - 1) + which]
      First(c) == CHOOSE i \in 1 .. s.n : Arg(c, i, 1) = k /\ \A h \in 1 .. i - 1 : Arg(c, h, 1) # k
  IN IF C = {} THEN t[k][p]
     ELSE LET c == CHOOSE d \in C : TRUE
          IN IF \E i \in 1 .. s.n : Arg(c, i, 1) = k THEN Arg(c, First(c), 2) ELSE t[k][p]

Listed(s) == ToSet(SubSeq(s.args, Len(s.args) - s.n + 1, Len(s.args)))

Effect(j, s, t) ==
  IF j.op = "update"
  THEN [clash |-> FALSE,
        t |-> [k \in Keys |-> IF t[k] = Absent \/ k \notin Listed(s) THEN t[k]
                              ELSE [p \in 1 .. 2 |-> Cased(j, s, t, k, p)]]]
  ELSE LET after[i \in 0 .. s.n] ==
             IF i = 0 THEN [clash |-> FALSE, t |-> t] ELSE Put(j, s, t, after[i - 1], i)
       IN after[s.n]

(* execBatches: one statement alone, or the next one of the transaction.     *)
(* When one clashes with what the table holds, all are rolled back.          *)
Execute ==
  /\ pc = "run" /\ ran < Len(stmts)
  /\ LET result == Effect(job, stmts[ran + 1], table) IN
     IF result.clash
     THEN table' = before /\ answer' = "failed" /\ pc' = "done" /\ UNCHANGED ran
     ELSE table' = result.t /\ ran' = ran + 1 /\ UNCHANGED <<answer, pc>>
  /\ UNCHANGED <<job, before, stmts>>

(* A statement or the commit fails, or the connection breaks. *)
Fails ==
  /\ pc = "run"
  /\ Len(stmts) = 1 => ran = 0
  /\ table' = before /\ answer' = "failed" /\ pc' = "done"
  /\ UNCHANGED <<job, before, stmts, ran>>

Commit ==
  /\ pc = "run" /\ ran = Len(stmts)
  /\ answer' = "ok" /\ pc' = "done"
  /\ UNCHANGED <<job, table, before, stmts, ran>>

Next == Build \/ Execute \/ Fails \/ Commit

Spec == Init /\ [][Next]_vars

-----------------------------------------------------------------------------
(* What the call means: its rows, one after another. *)
Single(j, t, row) ==
  IF t[row[1]] = Absent
  THEN IF j.op = "update" THEN t ELSE [t EXCEPT ![row[1]] = Data(row)]
  ELSE [t EXCEPT ![row[1]] = Updated(@, row, j.updateCols)]

RowByRow(j, t) ==
  LET after[i \in 0 .. Len(j.rows)] == IF i = 0 THEN t ELSE Single(j, after[i - 1], j.rows[i])
  IN after[Len(j.rows)]

KeysDiffer(j) == \A i, h \in DOMAIN j.rows : j.rows[i][1] = j.rows[h][1] => i = h

(* However the rows are cut into statements, and whatever the database: a    *)
(* call that succeeds has done what its rows say one by one (an update whose *)
(* keys differ), a call that fails has done nothing, and one refused has     *)
(* shown the database nothing.  No statement has more parameters than the    *)
(* database takes.                                                           *)
BulkIsRowByRow ==
  /\ answer = "ok" /\ ~job.noColumns /\ (job.op = "update" => KeysDiffer(job)) =>
       table = RowByRow(job, before)
  /\ answer \in {"failed", "invalid"} => table = before
  /\ answer = "invalid" => stmts = <<>>
  /\ \A b \in DOMAIN stmts : stmts[b].params <= MaxParamsFor(job.dialect)
=============================================================================
