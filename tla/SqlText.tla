------------------------------- MODULE SqlText -------------------------------
(***************************************************************************)
(* The text of a WHERE clause as pkg/q and pkg/db write it and as a        *)
(* database reads it: a sequence of tokens, each a parenthesis, a          *)
(* connective, a constant predicate ("1=1", "1=0"), or one predicate with  *)
(* its placeholders.  The wording of a predicate is the database's.        *)
(***************************************************************************)
EXTENDS Integers, FiniteSets, SequencesExt

CONSTANT NULL   \* the value of SQL; the other values are integers

Token(what, field, phs) == [what |-> what, field |-> field, phs |-> phs]
Word(w) == <<Token(w, "", <<>>)>>

(* Placeholder: numbered for two of the databases, "?" (0) for the others.   *)
Placeholder(d, n) == IF d \in {"postgres", "sqlserver"} THEN n ELSE 0

(* A placeholder's place taken by the literal NULL. *)
NullLiteral == -1

Parens(text) == Word("(") \o text \o Word(")")

(* The text so far and the arguments that belong to it. *)
Part(text, args) == [err |-> FALSE, text |-> text, args |-> args]
Error(args) == [err |-> TRUE, text |-> <<>>, args |-> args]

Bind(d, what, field, args, vals) ==
  Part(<<Token(what, field, [i \in 1 .. Len(vals) |-> Placeholder(d, Len(args) + i)])>>, args \o vals)

-----------------------------------------------------------------------------
(* SQL's three truth values.                                                 *)
Truth == {"true", "false", "unknown"}
Not3(a) == IF a = "true" THEN "false" ELSE IF a = "false" THEN "true" ELSE "unknown"
And3(A) == IF "false" \in A THEN "false" ELSE IF "unknown" \in A THEN "unknown" ELSE "true"
Or3(A) == IF "true" \in A THEN "true" ELSE IF "unknown" \in A THEN "unknown" ELSE "false"
Say(b) == IF b THEN "true" ELSE "false"

(* LIKE stands for any other test of a column against a pattern. *)
Compare(op, x, y) ==
  IF x = NULL \/ y = NULL THEN "unknown"
  ELSE Say(\/ op \in {"=", "LIKE"} /\ x = y
           \/ op \in {"!=", "NOT LIKE"} /\ x # y
           \/ op = "<" /\ x < y
           \/ op = "<=" /\ x <= y
           \/ op = ">" /\ x > y
           \/ op = ">=" /\ x >= y)

(* A predicate of column value x against values. *)
Test(op, x, values) ==
  IF op = "IS NULL" THEN Say(x = NULL)
  ELSE IF op = "IS NOT NULL" THEN Say(x # NULL)
  ELSE IF op = "IN" THEN Or3({Compare("=", x, values[i]) : i \in DOMAIN values})
  ELSE IF op = "NOT IN" THEN Not3(Or3({Compare("=", x, values[i]) : i \in DOMAIN values}))
  ELSE IF op \in {"+ 1=1", "+ 1=0"} THEN Compare("=", IF x = NULL THEN NULL ELSE x + 1, IF op = "+ 1=1" THEN 1 ELSE 0)
  ELSE Compare(op, x, values[1])

(* What a database makes of a text whose placeholders hold values: OR binds  *)
(* less than AND, AND less than NOT, NOT less than a predicate.              *)
Depth(text, i) ==
  LET Opened(w) == {j \in 1 .. i : text[j].what = w}
  IN Cardinality(Opened("(")) - Cardinality(Opened(")"))
Cuts(text, w) == {i \in DOMAIN text : text[i].what = w /\ Depth(text, i) = 0}
FirstCut(text, w) == CHOOSE i \in Cuts(text, w) : \A j \in Cuts(text, w) : i <= j

RECURSIVE Read(_, _)
Read(text, row) ==
  LET Split(w) == LET i == FirstCut(text, w)
                  IN {Read(SubSeq(text, 1, i - 1), row), Read(SubSeq(text, i + 1, Len(text)), row)}
      first == text[1]
  IN IF Cuts(text, "OR") # {} THEN Or3(Split("OR"))
     ELSE IF Cuts(text, "AND") # {} THEN And3(Split("AND"))
     ELSE IF first.what = "NOT" THEN Not3(Read(Tail(text), row))
     ELSE IF first.what = "(" THEN Read(SubSeq(text, 2, Len(text) - 1), row)
     ELSE IF first.what \in {"1=1", "1=0"} THEN Say(first.what = "1=1")
     ELSE Test(first.what, row[first.field], first.phs)

(* The driver gives the n-th argument to the placeholder numbered n, or to   *)
(* the n-th "?" of the text.                                                 *)
Marks(phs) == Len(SelectSeq(phs, LAMBDA n : n # NullLiteral))
Placeholders(text) == FoldLeft(LAMBDA n, t : n + Marks(t.phs), 0, text)

Bound(text, args) ==
  LET Order(i, j) == Placeholders(SubSeq(text, 1, i - 1)) + Marks(SubSeq(text[i].phs, 1, j))
      Given(i, j) == LET n == text[i].phs[j]
                     IN IF n = NullLiteral THEN NULL ELSE args[IF n = 0 THEN Order(i, j) ELSE n]
  IN [i \in DOMAIN text |->
        [text[i] EXCEPT !.phs = [j \in DOMAIN text[i].phs |-> Given(i, j)]]]
=============================================================================
