----------------------------- MODULE NamedParams -----------------------------
(***************************************************************************)
(* pkg/db, bindNamed: the ${name} parameters of a statement become         *)
(* placeholders, a list as many as it has values.  An empty list has no    *)
(* text of its own: "column IN ()" is no SQL.                              *)
(*                                                                         *)
(* A template is the predicates of a WHERE clause, joined by AND: a        *)
(* column, a call or a sum, compared with one parameter or tested against  *)
(* a list of them.  Binding is what bindNamed does on meeting them from    *)
(* left to right.                                                          *)
(***************************************************************************)
EXTENDS SqlText

CONSTANTS
  Templates,   \* sequences of [expr, op, names]
  ParamSets,   \* functions from names to values; a value is [list, vs]
  Dialects,
  Column(_),   \* an expression's last column, where it has one
  Shape(_),    \* "column", "call", or "sum" (a column and another)
  Rows         \* functions from expressions and columns to values

VARIABLES template, params, dialect, built

vars == <<template, params, dialect, built>>

Init ==
  /\ template \in Templates /\ params \in ParamSets /\ dialect \in Dialects
  /\ built = [done |-> FALSE, err |-> FALSE, text |-> <<>>, args |-> <<>>]

-----------------------------------------------------------------------------
(* emptyListRe, and what follows up to the parenthesis: the list is all      *)
(* there is between the parentheses, and the text before them ends in a      *)
(* column.  A call ends in none.                                             *)
Replaces(pred) == Len(pred.names) = 1 /\ Shape(pred.expr) # "call"

(* The predicate in place of a test against an empty list.  What stood       *)
(* before the column stays.                                                  *)
Constant(pred) ==
  LET holds == IF pred.op = "NOT IN" THEN "1=1" ELSE "1=0"
  IN IF Shape(pred.expr) = "sum"
     THEN Token(IF holds = "1=1" THEN "+ 1=1" ELSE "+ 1=0", Column(pred.expr), <<>>)
     ELSE Token(holds, "", <<>>)

(* The k-th parameter of the predicate that acc holds last. *)
Parameter(pred, acc, k) ==
  LET name == pred.names[k]
      vals == params[name].vs
      last == acc.text[Len(acc.text)]
      With(token) == Append(Front(acc.text), token)
      phs == [i \in DOMAIN vals |-> Placeholder(dialect, Len(acc.args) + i)]
  IN IF acc.err THEN acc
     ELSE IF name \notin DOMAIN params THEN Error(acc.args)
     ELSE IF vals # <<>> THEN Part(With([last EXCEPT !.phs = @ \o phs]), acc.args \o vals)
     ELSE IF Replaces(pred) THEN Part(With(Constant(pred)), acc.args)
     ELSE IF k = 1 /\ pred.op = "NOT IN" THEN Error(acc.args)
     ELSE Part(With([last EXCEPT !.phs = Append(@, NullLiteral)]), acc.args)

Predicate(acc, pred) ==
  IF acc.err THEN acc
  ELSE LET glue == IF acc.text = <<>> THEN <<>> ELSE Word("AND")
           opened == Part(acc.text \o glue \o <<Token(pred.op, pred.expr, <<>>)>>, acc.args)
       IN FoldLeft(LAMBDA a, k : Parameter(pred, a, k), opened, [k \in DOMAIN pred.names |-> k])

BindNamed ==
  /\ ~built.done
  /\ LET part == FoldLeft(Predicate, Part(<<>>, <<>>), template)
     IN built' = [done |-> TRUE, err |-> part.err, text |-> part.text, args |-> part.args]
  /\ UNCHANGED <<template, params, dialect>>

Next == BindNamed

Spec == Init /\ [][Next]_vars

-----------------------------------------------------------------------------
(* What the template says of a row: a list means all its values. *)
Values(pred) == FlattenSeq([k \in DOMAIN pred.names |-> params[pred.names[k]].vs])
Meaning(row) == And3({Test(template[i].op, row[template[i].expr], Values(template[i])) : i \in DOMAIN template})

KeepsMeaning ==
  /\ Placeholders(built.text) = Len(built.args)
  /\ \A row \in Rows : Read(Bound(built.text, built.args), row) = "true" <=> Meaning(row) = "true"

Missing == \E i \in DOMAIN template : \E k \in DOMAIN template[i].names : template[i].names[k] \notin DOMAIN params

(* Where each list is one parameter tested against a column or a call, the   *)
(* bound statement finds the rows the template describes, empty lists and    *)
(* NULLs included; it is refused when a parameter is missing, or when an     *)
(* empty list would have made NOT IN find nothing.                           *)
NamedMeans ==
  built.done /\ (\A i \in DOMAIN template : Len(template[i].names) = 1 /\ Shape(template[i].expr) # "sum") =>
    /\ ~built.err => ~Missing /\ KeepsMeaning
    /\ built.err => \/ Missing
                    \/ \E i \in DOMAIN template : template[i].op = "NOT IN" /\ Values(template[i]) = <<>>

(* "karmaşık ifadeli NOT IN => hata (NOT IN (NULL) hiçbir satır döndürmez)": *)
(* whatever the template, an empty list either keeps its meaning or is       *)
(* refused.                                                                  *)
EmptyListsHarmless == built.done /\ ~built.err => KeepsMeaning
=============================================================================
