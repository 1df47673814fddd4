---------------------------------- MODULE Db ----------------------------------
(***************************************************************************)
(* The database layer as far as it has state: the runtime of pkg/db, whose *)
(* names are this module's own, its bulk writes, and the loader of         *)
(* pkg/sqlutil.  They share no state: one of them runs in each behaviour   *)
(* (scene), the others keep their initial states.                          *)
(***************************************************************************)
EXTENDS DbRuntime, Sequences

CONSTANTS
  Scenes,                                                           \* which part runs
  Renderers, Files, Calls(_), Datas, Dialect, Identifiers, SortCols(_), \* SqlLoader
  Bindables,                                                            \* what may be bound to a place
  Jobs, Tables, Keys, Cells, Absent                                     \* BulkWrite; Cells are what a row holds

VARIABLES
  scene,
  cached, functions, renderAt, file, data, mode, executes, calls, text, args, failed,
  job, table, before, bulkAt, stmts, ran, reply

loaderVars == <<cached, functions, renderAt, file, data, mode, executes, calls, text, args, failed>>
bulkVars == <<job, table, before, bulkAt, stmts, ran, reply>>
dbVars == <<scene, vars, loaderVars, bulkVars>>

R == INSTANCE SqlLoader WITH Columns <- Identifiers, pc <- renderAt, template <- executes, at <- calls
W == INSTANCE BulkWrite WITH pc <- bulkAt, answer <- reply

-----------------------------------------------------------------------------
(* The functions the loader gives a template, and what it may be rendered    *)
(* with; the columns of a set come in an order of their own.                 *)
FunctionNames == {"param", "in", "inList", "notInList", "setList", "ident", "spOutDecls", "spOutVals"}

ASSUME LoaderAssumption ==
  /\ None \notin Renderers \cup R!Instances
  /\ \A f \in Files : Calls(f) \in Seq(FunctionNames \X STRING)
  /\ \A d \in Datas :
       /\ d.one \in Bindables /\ d.list \in Seq(Bindables)
       /\ \A c \in DOMAIN d.map : d.map[c] \in Bindables
       /\ SortCols(DOMAIN d.map) \in Seq(DOMAIN d.map)

(* A row begins with its key; a table has a place for every key.             *)
ASSUME BulkAssumption ==
  /\ \A j \in Jobs :
       /\ j.op \in {"insert", "upsert", "update"} /\ j.more \in Nat /\ j.requested \in Int
       /\ j.rows \in Seq(Seq(Cells)) /\ j.updateCols \in Seq({"v", "w"})
       /\ \A i \in DOMAIN j.rows : j.rows[i] # <<>> => j.rows[i][1] \in Keys
  /\ \A t \in Tables : t \in [Keys -> [1 .. 2 -> Cells] \cup {Absent}]

-----------------------------------------------------------------------------
(* Where a part has several initial states, the other scenes see one.        *)
AnyFile == CHOOSE f \in Files : TRUE
AnyData == CHOOSE d \in Datas : TRUE
AnyJob == CHOOSE j \in Jobs : TRUE
AnyTable == CHOOSE t \in Tables : TRUE

DbInit ==
  /\ scene \in Scenes
  /\ Init /\ R!Init
  /\ scene = "loader" \/ (/\ file = [g \in Renderers |-> AnyFile]
                          /\ data = [g \in Renderers |-> AnyData]
                          /\ mode = [g \in Renderers |-> "load"])
  /\ scene = "bulk" \/ (job = AnyJob /\ table = AnyTable)
  /\ W!Init

Runtime == scene = "runtime" /\ Next /\ UNCHANGED <<scene, loaderVars, bulkVars>>
Loading == scene = "loader" /\ R!Next /\ UNCHANGED <<scene, vars, bulkVars>>
Bulk == scene = "bulk" /\ W!Next /\ UNCHANGED <<scene, vars, loaderVars>>

DbNext == Runtime \/ Loading \/ Bulk

DbSpec == DbInit /\ [][DbNext]_dbVars

-----------------------------------------------------------------------------
(* Renders do not mix (SqlLoader). *)
RenderBinds == R!RenderBinds

(* However a bulk write is cut, all of it or nothing (BulkWrite). *)
BulkIsRowByRow == W!BulkIsRowByRow
=============================================================================
