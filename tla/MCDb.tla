--------------------------------- MODULE MCDb ---------------------------------
(* Db with two administrators racing a caller, two goroutines that render,  *)
(* bulk writes of up to three rows, and two parts more, the makers of       *)
(* conditions, which are one step of much data.                             *)
EXTENDS Db, TLC

CONSTANTS c1, a1, a2, x1, x2, x3, x4, g1, g2

VARIABLES
  tree, template, params, dialect, built

MCCallers == {c1}
MCAdmins == {a1, a2}
MCRuntimes == {x1, x2, x3, x4}
Symmetry == Permutations(MCAdmins) \cup Permutations(MCRuntimes)

textVars == <<tree, template, params, dialect, built>>
mcvars == <<dbVars, textVars>>

-----------------------------------------------------------------------------
(* Conditions: every leaf, every group of up to two of some of them, and     *)
(* those groups again beside a leaf or under a NOT.                          *)
Null == 9
Listing(xs) == [list |-> TRUE, vs |-> xs]
Only(x) == [list |-> FALSE, vs |-> <<x>>]
Nil == [list |-> FALSE, vs |-> <<>>]
Leaf(f, op, v) == [kind |-> "leaf", field |-> f, op |-> op, value |-> v, subs |-> <<>>]
Node(k, subs) == [kind |-> k, field |-> "", op |-> "", value |-> Nil, subs |-> subs]

Leaves ==
  {Leaf("a", "=", Only(0)), Leaf("a", "<>", Only(0)), Leaf("b", "=", Nil), Leaf("a", "!=", Nil),
   Leaf("b", ">=", Only(1)), Leaf("a", "<", Nil), Leaf("a", "IN", Listing(<<>>)),
   Leaf("a", "NOT IN", Listing(<<>>)), Leaf("a", "NOT IN", Listing(<<0, 1>>)),
   Leaf("b", "NOT IN", Listing(<<1, Null>>)), Leaf("b", "IN", Listing(<<0, Null, 1>>)),
   Leaf("a", "IN", Only(1)), Leaf("b", "IN", Nil), Leaf("b", "IS NULL", Nil),
   Leaf("a", "IS NOT NULL", Nil), Leaf("a", "NOT LIKE", Only(1)), Leaf("b", "<=", Only(0)),
   Leaf("1x", "=", Only(1)), Leaf("a", ";", Only(1)), Node("nil", <<>>)}
Some == {Leaf("a", "=", Only(0)), Leaf("a", "NOT IN", Listing(<<0, 1>>)), Leaf("b", "<", Nil),
         Leaf("b", "IN", Listing(<<>>)), Leaf("1x", "=", Only(1)), Node("nil", <<>>)}
Groups == {Node(k, s) : k \in {"and", "or"}, s \in UNION {[1 .. n -> Some] : n \in 0 .. 2}}
            \cup {Node("not", <<q>>) : q \in Leaves}
MCTrees == Leaves \cup Groups \cup {Node("not", <<q>>) : q \in Groups}
             \cup {Node(k, s) : k \in {"and", "or"}, s \in (Groups \X Some) \cup (Some \X Groups)}

C == INSTANCE Condition WITH Trees <- MCTrees, Dialects <- {"postgres", "sqlite"}, Fields <- {"a", "b"},
       Rows <- [{"a", "b"} -> {0, 1, Null}], NULL <- Null

(* Templates of two predicates; x may be missing, a list, one value, NULL.   *)
Exprs == {"a", "abs(a)", "b + a"}
Tested == {[expr |-> e, op |-> o, names |-> n] : e \in Exprs, o \in {"IN", "NOT IN"}, n \in {<<"x">>, <<"y">>, <<"x", "y">>}}
MCTemplates == {<<p>> : p \in Tested} \cup (Tested \X {[expr |-> "a", op |-> "=", names |-> <<"z">>]})
                 \cup {<<[expr |-> "a", op |-> "<=", names |-> <<"z">>], p>> : p \in Tested}
Lists == {Listing(<<>>), Listing(<<0>>), Listing(<<0, 1>>), Listing(<<1, Null>>), Only(1)}
MCParams == {[n \in {"x", "y", "z"} |-> IF n = "x" THEN x ELSE IF n = "y" THEN y ELSE Only(1)] : x \in Lists, y \in Lists}
              \cup {[n \in {"y", "z"} |-> Only(0)]}
MCColumn(e) == "a"
MCShape(e) == IF e = "b + a" THEN "sum" ELSE IF e = "abs(a)" THEN "call" ELSE "column"
Plus(x, y) == IF x = Null \/ y = Null THEN Null ELSE x + y
MCRows == {[e \in Exprs |-> IF e = "b + a" THEN Plus(a, b) ELSE a] : a \in {0, 1, 2, Null}, b \in {0, 1, Null}}

N == INSTANCE NamedParams WITH Templates <- MCTemplates, ParamSets <- MCParams, Dialects <- {"sqlserver", "mysql"},
       Column <- MCColumn, Shape <- MCShape, Rows <- MCRows, NULL <- Null

(* Two goroutines render two files between them. *)
MCFiles == {"find", "change"}
MCCalls(f) == IF f = "find"
              THEN <<<<"param", "">>, <<"inList", "a">>, <<"ident", "b">>, <<"in", "">>>>
              ELSE <<<<"setList", "">>, <<"notInList", "b">>, <<"spOutDecls", "">>, <<"spOutVals", "">>>>
Out(name, type, alias) == [name |-> name, type |-> type, alias |-> alias]
MCDatas == {[one |-> 5, list |-> <<>>, map |-> [c \in {"b", "a"} |-> IF c = "a" THEN 1 ELSE 2], outs |-> <<>>],
            [one |-> 6, list |-> <<7>>, map |-> [c \in {"b"} |-> 3], outs |-> <<Out("a", "INT", ""), Out("b", "", "")>>],
            [one |-> 8, list |-> <<9, 10>>, map |-> [c \in {} |-> 0], outs |-> <<Out("a", "INT", "b"), Out("b", "bad", "")>>],
            [one |-> 8, list |-> <<9, 10>>, map |-> [c \in {"1x"} |-> 0], outs |-> <<Out("b", "INT", "1x")>>]}
MCSortCols(S) == IF S = {"a", "b"} THEN <<"a", "b">> ELSE IF S = {} THEN <<>> ELSE <<CHOOSE c \in S : TRUE>>
MCValues == 0 .. 10

(* Bulk writes of up to three rows; wide tables reach the parameter limits   *)
(* with them (333 columns: three rows are all SQLite takes).                 *)
KeySeqs == UNION {[1 .. n -> 1 .. 3] : n \in 0 .. 2}
             \cup {<<1, 2, 3>>, <<2, 1, 3>>, <<1, 2, 1>>, <<1, 1, 1>>, <<3, 1, 1>>}
RowsOf(ks) == [i \in DOMAIN ks |-> <<ks[i], 10 * i, 10 * i + 1>>]
Insert == [op |-> "insert", dialect |-> "sqlite", rows |-> <<>>, noColumns |-> FALSE, updateCols |-> <<>>,
           conflictCols |-> TRUE, more |-> 0, requested |-> 0, names |-> TRUE, hint |-> {}, output |-> {}]
UpdateColss == {<<>>, <<"v">>, <<"w", "v">>}
Servers == {"", "sqlite", "postgres", "sqlserver", "mysql"}
Inserts == {[Insert EXCEPT !.dialect = d, !.rows = RowsOf(k), !.requested = r] :
              d \in {"sqlite", "sqlserver"}, k \in KeySeqs, r \in {0, 1, 2}}
Upserts == {[Insert EXCEPT !.op = "upsert", !.dialect = d, !.rows = RowsOf(k), !.requested = r, !.updateCols = u] :
              d \in Servers, k \in KeySeqs, r \in {1, 2, 4}, u \in UpdateColss}
Updates == {[Insert EXCEPT !.op = "update", !.rows = RowsOf(k), !.requested = r, !.updateCols = u] :
              k \in KeySeqs, r \in {0, 1, 2}, u \in UpdateColss}
Wide == {[Insert EXCEPT !.op = o, !.dialect = d, !.rows = RowsOf(<<1, 2, 3>>), !.requested = r, !.more = m, !.updateCols = <<"v">>] :
           o \in {"insert", "update"}, d \in Servers, r \in {0, 3},
           m \in {5, 165, 330, 331, 497, 663, 664, 996, 997, 21842, 21843, 32766, 65533}}
Odd == {[Insert EXCEPT !.op = "upsert", !.rows = RowsOf(<<1, 2>>), !.conflictCols = FALSE, !.dialect = d] : d \in Servers}
         \cup {[Insert EXCEPT !.op = "upsert", !.rows = RowsOf(<<1, 2>>), !.hint = h, !.output = o, !.dialect = d] :
                  d \in {"sqlserver", "mysql"}, h \in {{"HOLDLOCK"}, {"NOLOCK"}}, o \in {{"$action"}, {"SELECT"}}}
         \cup {[Insert EXCEPT !.op = o, !.rows = <<<<1, 5, 6>>, <<2, 7>>>>, !.requested = 1, !.updateCols = u] :
                  o \in {"insert", "update"}, u \in UpdateColss}
         \cup {[Insert EXCEPT !.rows = RowsOf(<<1>>), !.names = FALSE], [Insert EXCEPT !.rows = RowsOf(<<1>>), !.noColumns = TRUE]}
MCTables == {[k \in 1 .. 3 |-> Absent], [k \in 1 .. 3 |-> IF k = 1 THEN <<0, 1>> ELSE Absent],
             [k \in 1 .. 3 |-> IF k = 3 THEN Absent ELSE <<2, k>>]}
MCJobs == Inserts \cup Upserts \cup Updates \cup Wide \cup Odd
MCKeys == 1 .. 3
MCCells == 0 .. 40

-----------------------------------------------------------------------------
(* Where a part has several initial states, the other scenes see one.        *)
MCInit ==
  /\ DbInit
  /\ IF scene = "condition" THEN tree \in MCTrees ELSE tree = Node("nil", <<>>)
  /\ IF scene = "named" THEN template \in MCTemplates /\ params \in MCParams
     ELSE template = <<>> /\ params = [n \in {} |-> Nil]
  /\ dialect \in (CASE scene = "condition" -> {"postgres", "sqlite"}
                    [] scene = "named" -> {"sqlserver", "mysql"}
                    [] OTHER -> {"sqlite"})
  /\ built = [done |-> FALSE, err |-> FALSE, text |-> <<>>, args |-> <<>>]

Parts == DbNext /\ UNCHANGED textVars
Conditions == scene = "condition" /\ C!Next /\ UNCHANGED <<dbVars, template, params>>
Named == scene = "named" /\ N!Next /\ UNCHANGED <<dbVars, tree>>

MCNext == Parts \/ Conditions \/ Named

MCSpec == MCInit /\ [][MCNext]_mcvars

-----------------------------------------------------------------------------
(* A statement finds the rows that were described (Condition, NamedParams).  *)
StatementMeans == /\ scene = "condition" => C!ConditionMeans
                  /\ scene = "named" => N!NamedMeans
(* An empty list keeps its meaning or is refused (NamedParams). *)
EmptyListsHarmless == scene = "named" => N!EmptyListsHarmless
=============================================================================
