------------------------------ MODULE Condition ------------------------------
(***************************************************************************)
(* pkg/q: a tree of conditions (Q) becomes the text of a WHERE clause and  *)
(* its arguments.  A tree is built, and what the database makes of the     *)
(* result, row by row, is compared with what the tree says.                *)
(***************************************************************************)
EXTENDS SqlText

CONSTANTS
  Trees,      \* the conditions built: records [kind, field, op, value, subs]
  Dialects,   \* of sqlutil
  Fields,     \* the columns of the table
  Rows        \* the rows it may hold: functions from Fields to values

VARIABLES tree, dialect, built

vars == <<tree, dialect, built>>

Nothing == [done |-> FALSE, err |-> FALSE, text |-> <<>>, args |-> <<>>]

Init == tree \in Trees /\ dialect \in Dialects /\ built = Nothing

-----------------------------------------------------------------------------
(* ParseOp, with the case and the blanks already normalised. *)
AllowedOps == {"=", "!=", ">", ">=", "<", "<=", "IN", "NOT IN", "LIKE", "NOT LIKE",
               "IS NULL", "IS NOT NULL"}
ParseOp(op) == IF op = "<>" THEN "!=" ELSE op

(* A value is nil (<<>>), one value, or a list; expand and the wrapping of   *)
(* what is no list leave its elements.                                       *)
IsNil(value) == ~value.list /\ value.vs = <<>>

(* Mutant: a list nobody is in excludes like it includes. *)
EmptyListAlike(op) == "1=0"

(* IN of no value holds for no row, NOT IN of none for every row. *)
EmptyList(op) == IF op = "IN" THEN "1=0" ELSE "1=1"

Leaf(d, args, q) ==
  LET op == ParseOp(q.op) IN
  IF q.field \notin Fields \/ op \notin AllowedOps THEN Error(args)
  ELSE IF op \in {"IS NULL", "IS NOT NULL"} THEN Part(<<Token(op, q.field, <<>>)>>, args)
  ELSE IF op \in {"IN", "NOT IN"}
  THEN IF q.value.vs = <<>> THEN Part(Word(EmptyList(op)), args)
                            ELSE Bind(d, op, q.field, args, q.value.vs)
  ELSE IF IsNil(q.value) /\ op \in {"=", "!="}
  THEN Part(<<Token(IF op = "=" THEN "IS NULL" ELSE "IS NOT NULL", q.field, <<>>)>>, args)
  ELSE Bind(d, op, q.field, args, IF IsNil(q.value) THEN <<NULL>> ELSE q.value.vs)

(* A nil member of a group is skipped; a group of none is neutral.           *)
RECURSIVE BuildTree(_, _, _)

Group(d, args, q) ==
  LET Add(acc, sub) ==
        IF acc.err \/ sub.kind = "nil" THEN acc
        ELSE LET part == BuildTree(d, acc.args, sub)
                 glue == IF acc.text = <<>> THEN <<>> ELSE Word(IF q.kind = "and" THEN "AND" ELSE "OR")
             IN [part EXCEPT !.text = acc.text \o glue \o Parens(part.text)]
      all == FoldLeft(Add, Part(<<>>, args), q.subs)
  IN IF ~all.err /\ all.text = <<>> THEN Part(Word(IF q.kind = "and" THEN "1=1" ELSE "1=0"), args)
     ELSE all

BuildTree(d, args, q) ==
  IF q.kind = "nil" THEN Part(Word("1=1"), args)
  ELSE IF q.kind = "not"
  THEN LET part == BuildTree(d, args, q.subs[1])
       IN [part EXCEPT !.text = Word("NOT") \o Parens(@)]
  ELSE IF q.kind = "leaf" THEN Leaf(d, args, q) ELSE Group(d, args, q)

Build ==
  /\ ~built.done
  /\ LET part == BuildTree(dialect, <<>>, tree) IN
     built' = IF part.err THEN [Nothing EXCEPT !.done = TRUE, !.err = TRUE]
              ELSE [done |-> TRUE, err |-> FALSE, text |-> part.text, args |-> part.args]
  /\ UNCHANGED <<tree, dialect>>

Next == Build

Spec == Init /\ [][Next]_vars

-----------------------------------------------------------------------------
(* What the tree says of a row. *)
RECURSIVE Meaning(_, _)
Meaning(q, row) ==
  IF q.kind = "nil" THEN "true"
  ELSE IF q.kind = "not" THEN Not3(Meaning(q.subs[1], row))
  ELSE IF q.kind = "leaf"
  THEN IF IsNil(q.value) /\ ParseOp(q.op) = "=" THEN Say(row[q.field] = NULL)
       ELSE IF IsNil(q.value) /\ ParseOp(q.op) = "!=" THEN Say(row[q.field] # NULL)
       ELSE Test(ParseOp(q.op), row[q.field],
                 IF IsNil(q.value) /\ q.op \notin {"IN", "NOT IN"} THEN <<NULL>> ELSE q.value.vs)
  ELSE LET said == {Meaning(q.subs[i], row) : i \in {j \in DOMAIN q.subs : q.subs[j].kind # "nil"}}
       IN IF q.kind = "and" THEN And3(said) ELSE Or3(said)

RECURSIVE Valid(_)
Valid(q) ==
  /\ q.kind = "leaf" => q.field \in Fields /\ ParseOp(q.op) \in AllowedOps
  /\ \A i \in DOMAIN q.subs : Valid(q.subs[i])

(* The clause keeps exactly the rows the tree describes, in every dialect,   *)
(* NULLs and empty lists included, and has one argument for each of its      *)
(* placeholders; a tree with a name or an operator that is not allowed       *)
(* becomes an error and no text.                                             *)
ConditionMeans ==
  built.done =>
    /\ built.err = ~Valid(tree)
    /\ ~built.err =>
         /\ Placeholders(built.text) = Len(built.args)
         /\ \A row \in Rows : Read(Bound(built.text, built.args), row) = Meaning(tree, row)
=============================================================================
