------------------------------- MODULE Seeder -------------------------------
(***************************************************************************)
(* pkg/seeder: concurrent runs over one history table, without a lock      *)
(* between them.  A seed's function and its record share a transaction;    *)
(* the primary key of the table is all that keeps two runs apart.          *)
(***************************************************************************)
EXTENDS Naturals, Sequences, SequencesExt

CONSTANTS
  Runs,      \* calls of Run and RunForce
  Names,     \* seeds the program may register
  Forcings   \* [mode, names]: run, or RunForce for all seeds or for names

VARIABLES
  seeds,     \* Seeder.seeds: names in the order of registration
  history,   \* rows of the history table
  effect,    \* how often the function of a seed was committed
  repeats,   \* history: commits by runs that knew the seed was applied
  at,        \* start, snapshot, loop, record, commit, returned
  force,     \* each run's mode
  done,      \* the applied names it has read
  list,      \* its copy of seeds, what is left of it
  ran        \* the names it will return, in order

vars == <<seeds, history, effect, repeats, at, force, done, list, ran>>

Init ==
  /\ seeds = <<>> /\ history = {}
  /\ effect = [n \in Names |-> 0] /\ repeats = [n \in Names |-> 0]
  /\ at = [r \in Runs |-> "start"]
  /\ force \in [Runs -> Forcings]
  /\ done = [r \in Runs |-> {}] /\ list = [r \in Runs |-> <<>>] /\ ran = [r \in Runs |-> <<>>]

Go(r, step) == at' = [at EXCEPT ![r] = step]
tables == <<history, effect, repeats>>
mine == <<force, done, list, ran>>

-----------------------------------------------------------------------------
(* Register, and RegisterSQLDir for each file: a name once.                  *)
Register(n) ==
  /\ n \notin ToSet(seeds)
  /\ seeds' = Append(seeds, n)
  /\ UNCHANGED <<tables, at, mine>>

(* RunForce refuses unknown names; the table is made if it is missing.       *)
Start(r) ==
  /\ at[r] = "start"
  /\ force[r].names \subseteq ToSet(seeds)
  /\ Go(r, "snapshot")
  /\ UNCHANGED <<seeds, tables, mine>>

Snapshot(r) ==
  /\ at[r] = "snapshot"
  /\ done' = [done EXCEPT ![r] = history]
  /\ Go(r, "copy")
  /\ UNCHANGED <<seeds, tables, force, list, ran>>

Copy(r) ==
  /\ at[r] = "copy"
  /\ list' = [list EXCEPT ![r] = seeds]
  /\ Go(r, "loop")
  /\ UNCHANGED <<seeds, tables, force, done, ran>>

RunIt(r, n) ==
  \/ force[r].mode = "run" /\ n \notin done[r]
  \/ force[r].mode = "all"
  \/ force[r].mode = "names" /\ n \in force[r].names

Skip(r) ==
  /\ at[r] = "loop" /\ list[r] # <<>> /\ ~RunIt(r, Head(list[r]))
  /\ list' = [list EXCEPT ![r] = Tail(@)]
  /\ UNCHANGED <<seeds, tables, at, force, done, ran>>

(* runOne: begin, and the function of the seed; what it does is visible to   *)
(* others when the transaction commits.                                      *)
RunFn(r) ==
  /\ at[r] = "loop" /\ list[r] # <<>> /\ RunIt(r, Head(list[r]))
  /\ Go(r, "record")
  /\ UNCHANGED <<seeds, tables, mine>>

LoopEnds(r) ==
  /\ at[r] = "loop" /\ list[r] = <<>>
  /\ Go(r, "returned")
  /\ UNCHANGED <<seeds, tables, mine>>

Already(r) == Head(list[r]) \in done[r]

(* A row another transaction has written waits for its end.                  *)
RowFree(r) == \A q \in Runs \ {r} : at[q] = "commit" => Head(list[q]) # Head(list[r])

(* Mutant: the row is written whether or not it is there. *)
RecordUpserts(r) ==
  /\ at[r] = "record" /\ RowFree(r)
  /\ Go(r, "commit")
  /\ UNCHANGED <<seeds, tables, mine>>

(* UPDATE for a seed that was applied when the run began, INSERT otherwise.  *)
Record(r) ==
  /\ at[r] = "record" /\ RowFree(r)
  /\ Already(r) \/ Head(list[r]) \notin history
  /\ Go(r, "commit")
  /\ UNCHANGED <<seeds, tables, mine>>

DuplicateKey(r) ==
  /\ at[r] = "record" /\ RowFree(r)
  /\ ~Already(r) /\ Head(list[r]) \in history
  /\ Go(r, "returned")
  /\ UNCHANGED <<seeds, tables, mine>>

(* The answer of COMMIT may be lost: the run then stops with an error.       *)
Commit(r, answered) ==
  /\ at[r] = "commit"
  /\ LET n == Head(list[r]) IN
     /\ history' = history \cup {n}
     /\ effect' = [effect EXCEPT ![n] = @ + 1]
     /\ repeats' = IF Already(r) THEN [repeats EXCEPT ![n] = @ + 1] ELSE repeats
     /\ IF answered
        THEN /\ ran' = [ran EXCEPT ![r] = Append(@, n)]
             /\ list' = [list EXCEPT ![r] = Tail(@)]
             /\ Go(r, "loop")
        ELSE Go(r, "returned") /\ UNCHANGED <<ran, list>>
  /\ UNCHANGED <<seeds, force, done>>

(* An error of any statement ends the run; a transaction is rolled back.     *)
Fails(r) ==
  /\ at[r] \notin {"returned"} /\ (at[r] = "loop" => list[r] # <<>>)
  /\ Go(r, "returned")
  /\ UNCHANGED <<seeds, tables, mine>>

Next ==
  \/ \E n \in Names : Register(n)
  \/ \E r \in Runs :
       \/ Start(r) \/ Snapshot(r) \/ Copy(r) \/ Skip(r) \/ RunFn(r) \/ LoopEnds(r)
       \/ Record(r) \/ DuplicateKey(r) \/ Fails(r)
       \/ \E answered \in BOOLEAN : Commit(r, answered)

Spec == Init /\ [][Next]_vars

-----------------------------------------------------------------------------
(* The history says what happened: a seed is recorded exactly when its       *)
(* function took effect, which it does once and then only for runs that were *)
(* told to repeat it; each run reports nothing it did not commit, and seeds  *)
(* take effect in the order of registration while nobody picks them by name. *)
RecordedIffApplied ==
  \A n \in Names : effect[n] = repeats[n] + (IF n \in history THEN 1 ELSE 0)

NobodyPicks == \A r \in Runs : force[r].mode # "names"

HistoryExact ==
  /\ RecordedIffApplied
  /\ \A n \in Names : repeats[n] > 0 => \E r \in Runs : force[r].mode # "run"
  /\ \A r \in Runs : ToSet(ran[r]) \subseteq history
  /\ NobodyPicks => \A i, j \in DOMAIN seeds : i < j /\ seeds[j] \in history => seeds[i] \in history
=============================================================================
