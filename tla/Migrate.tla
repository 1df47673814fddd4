------------------------------- MODULE Migrate -------------------------------
(***************************************************************************)
(* The migration runner of pkg/migrate: Up and Down by several processes   *)
(* against one database, each with a pool of connections.  The advisory    *)
(* lock lives on a connection of its own, held from acquireLock to         *)
(* release; every statement of the run needs another connection of the     *)
(* same pool.  Any statement may fail, a commit may succeed although its   *)
(* answer is lost, and a process may crash anywhere.                       *)
(***************************************************************************)
EXTENDS Integers, FiniteSets

CONSTANTS
  Runners,    \* processes (or goroutines) calling Up / Down
  Versions,   \* migration versions, as numbers (versionLess compares them so)
  NoTx,       \* versions whose files carry the no-transaction marker
  HasDown,    \* versions with a .down.sql file
  Steps,      \* the steps arguments tried (DownAll: at least all versions)
  Ops,        \* operations tried, a subset of {"up", "down"}
  UseLock,    \* WithLock and a dialect that has an advisory lock
  Timeout,    \* WithLockTimeout is set
  PoolOf,     \* the *sql.DB each runner was given
  MaxOpen,    \* MaxOpenConns of each pool, 0 for unlimited
  NoRunner

ASSUME MigrateAssumption ==
  /\ Versions \subseteq Nat /\ IsFiniteSet(Versions)
  /\ IsFiniteSet(Runners) /\ NoRunner \notin Runners
  /\ NoTx \subseteq Versions /\ HasDown \subseteq Versions
  /\ Steps \subseteq Nat \ {0} /\ Ops \subseteq {"up", "down"}
  /\ UseLock \in BOOLEAN /\ Timeout \in BOOLEAN /\ MaxOpen \in Nat

VARIABLES
  recorded,   \* rows of schema_migrations (committed)
  effect,     \* net number of times each version's up body is in force
  lock,       \* the session holding the advisory lock
  pc, op,     \* where each runner is, and in which operation
  todo,       \* versions of its snapshot not yet looked at
  left,       \* steps a Down may still take
  ran,        \* whether the body of the current file has had its effect
  torn        \* history: no-transaction files cut off between body and record

dbVars == <<recorded, effect>>
vars == <<recorded, effect, lock, pc, op, todo, left, ran, torn>>

Init ==
  /\ recorded = {}
  /\ effect = [v \in Versions |-> 0]
  /\ lock = NoRunner
  /\ pc = [r \in Runners |-> "idle"]
  /\ op = [r \in Runners |-> "up"]
  /\ todo = [r \in Runners |-> {}]
  /\ left = [r \in Runners |-> 0]
  /\ ran = [r \in Runners |-> FALSE]
  /\ torn = {}

-----------------------------------------------------------------------------
Goto(r, label) == pc' = [pc EXCEPT ![r] = label]

(* Connections: one for the lock while waiting for it and holding it, one    *)
(* more inside a transaction.                                                *)
LockConn == {r \in Runners : UseLock /\ pc[r] \notin {"idle", "conn"}}
TxConn   == {r \in Runners : pc[r] \in {"txBody", "txRecord", "txCommit"}}
InUse(p) == Cardinality({r \in LockConn : PoolOf[r] = p})
          + Cardinality({r \in TxConn : PoolOf[r] = p})
ConnFree(r) == MaxOpen = 0 \/ InUse(PoolOf[r]) < MaxOpen

(* Up walks pending versions upwards, Down recorded versions downwards.      *)
IsNext(r, v) ==
  /\ v \in todo[r]
  /\ \A w \in todo[r] : IF op[r] = "up" THEN v <= w ELSE w <= v

(* Counting repeated effects stops at two either way.                        *)
EffectBound == 2
Apply(o, e) ==
  IF o = "up" THEN IF e < EffectBound THEN e + 1 ELSE e
              ELSE IF e > -EffectBound THEN e - 1 ELSE e
Bookkeep(o, v) == IF o = "up" THEN recorded \cup {v} ELSE recorded \ {v}

-----------------------------------------------------------------------------
(* Load has succeeded.                                                       *)
Start(r, o, n) ==
  /\ pc[r] = "idle"
  /\ op' = [op EXCEPT ![r] = o]
  /\ left' = [left EXCEPT ![r] = n]
  /\ Goto(r, IF UseLock THEN "conn" ELSE "snapshot")
  /\ UNCHANGED <<recorded, effect, lock, todo, ran, torn>>

(* acquireLock: db.Conn, then lockOn on that connection.                     *)
OpenLockConn(r) ==
  /\ pc[r] = "conn"
  /\ ConnFree(r)
  /\ Goto(r, "lock")
  /\ UNCHANGED <<recorded, effect, lock, op, todo, left, ran, torn>>

(* Mutant: the answer of the lock function is not looked at. *)
LockUnchecked(r) ==
  /\ pc[r] = "lock"
  /\ lock' = r
  /\ Goto(r, "snapshot")
  /\ UNCHANGED <<recorded, effect, op, todo, left, ran, torn>>

Lock(r) ==
  /\ pc[r] = "lock"
  /\ lock = NoRunner
  /\ lock' = r
  /\ Goto(r, "snapshot")
  /\ UNCHANGED <<recorded, effect, op, todo, left, ran, torn>>

(* Mutant: GET_LOCK's "0, timed out" is taken for success. *)
LockTimeoutProceeds(r) ==
  /\ pc[r] = "lock" /\ Timeout
  /\ Goto(r, "snapshot")
  /\ UNCHANGED <<recorded, effect, lock, op, todo, left, ran, torn>>

LockTimeout(r) ==
  /\ pc[r] = "lock" /\ Timeout
  /\ Goto(r, "idle")
  /\ UNCHANGED <<recorded, effect, lock, op, todo, left, ran, torn>>

(* ensureTable and applied: two statements of the pool, the second reads.    *)
ReadApplied(r) ==
  /\ pc[r] = "snapshot"
  /\ ConnFree(r)
  /\ todo' = [todo EXCEPT ![r] = IF op[r] = "up" THEN Versions \ recorded ELSE recorded]
  /\ Goto(r, "next")
  /\ UNCHANGED <<recorded, effect, lock, op, left, ran, torn>>

(* The loop of Up / down: done, out of steps, or ErrNoDownFile.              *)
LoopEnds(r) ==
  /\ pc[r] = "next"
  /\ \/ todo[r] = {}
     \/ op[r] = "down" /\ left[r] = 0
     \/ op[r] = "down" /\ \E v \in todo[r] \ HasDown : IsNext(r, v)
  /\ Goto(r, "release")
  /\ UNCHANGED <<recorded, effect, lock, op, todo, left, ran, torn>>

Runnable(r, v) ==
  /\ pc[r] = "next"
  /\ IsNext(r, v)
  /\ op[r] = "down" => left[r] > 0 /\ v \in HasDown

(* runFile within a transaction.                                             *)
Begin(r) ==
  /\ \E v \in Versions \ NoTx : Runnable(r, v)
  /\ ConnFree(r)
  /\ Goto(r, "txBody")
  /\ UNCHANGED <<recorded, effect, lock, op, todo, left, ran, torn>>

(* Mutant: the body runs on the pool, not in the transaction. *)
TxBodyOutside(r) ==
  /\ pc[r] = "txBody"
  /\ effect' = [v \in Versions |-> IF IsNext(r, v) THEN Apply(op[r], effect[v]) ELSE effect[v]]
  /\ Goto(r, "txRecord")
  /\ UNCHANGED <<recorded, lock, op, todo, left, ran, torn>>

TxBody(r) ==
  /\ pc[r] = "txBody"
  /\ Goto(r, "txRecord")
  /\ UNCHANGED <<recorded, effect, lock, op, todo, left, ran, torn>>

(* Mutant: the record is an upsert. *)
TxRecordUpserts(r) ==
  /\ pc[r] = "txRecord"
  /\ Goto(r, "txCommit")
  /\ UNCHANGED <<recorded, effect, lock, op, todo, left, ran, torn>>

(* INSERT waits for an uncommitted row with the same key, and fails (see     *)
(* Fails) on a committed one; DELETE of a missing row is no error.           *)
TxRecord(r) ==
  /\ pc[r] = "txRecord"
  /\ \E v \in Versions :
       /\ IsNext(r, v)
       /\ op[r] = "up" => /\ v \notin recorded
                          /\ \A q \in Runners \ {r} : ~(pc[q] = "txCommit" /\ IsNext(q, v))
  /\ Goto(r, "txCommit")
  /\ UNCHANGED <<recorded, effect, lock, op, todo, left, ran, torn>>

(* Commit; when answered is FALSE the server committed but the runner gets   *)
(* an error.                                                                 *)
TxCommit(r, answered) ==
  /\ pc[r] = "txCommit"
  /\ \E v \in Versions :
       /\ IsNext(r, v)
       /\ recorded' = Bookkeep(op[r], v)
       /\ effect' = [effect EXCEPT ![v] = Apply(op[r], @)]
       /\ todo' = [todo EXCEPT ![r] = @ \ {v}]
  /\ left' = [left EXCEPT ![r] = IF op[r] = "down" THEN @ - 1 ELSE @]
  /\ Goto(r, IF answered THEN "next" ELSE "release")
  /\ UNCHANGED <<lock, op, ran, torn>>

(* Mutant: the body is retried although it had run. *)
RunBodyTwice(r) ==
  /\ \E v \in NoTx : /\ Runnable(r, v)
                     /\ effect' = [effect EXCEPT ![v] = Apply(op[r], Apply(op[r], @))]
  /\ ConnFree(r)
  /\ ran' = [ran EXCEPT ![r] = TRUE]
  /\ Goto(r, "record")
  /\ UNCHANGED <<recorded, lock, op, todo, left, torn>>

(* runFile without a transaction: the body, then the record, each on its own.*)
RunBody(r) ==
  /\ \E v \in NoTx : /\ Runnable(r, v)
                     /\ effect' = [effect EXCEPT ![v] = Apply(op[r], @)]
  /\ ConnFree(r)
  /\ ran' = [ran EXCEPT ![r] = TRUE]
  /\ Goto(r, "record")
  /\ UNCHANGED <<recorded, lock, op, todo, left, torn>>

Record(r) ==
  /\ pc[r] = "record"
  /\ ConnFree(r)
  /\ \E v \in Versions :
       /\ IsNext(r, v)
       /\ op[r] = "up" => v \notin recorded
       /\ recorded' = Bookkeep(op[r], v)
       /\ todo' = [todo EXCEPT ![r] = @ \ {v}]
  /\ left' = [left EXCEPT ![r] = IF op[r] = "down" THEN @ - 1 ELSE @]
  /\ ran' = [ran EXCEPT ![r] = FALSE]
  /\ Goto(r, "next")
  /\ UNCHANGED <<effect, lock, op, torn>>

(* The file a runner is in the middle of, when it does not run in a          *)
(* transaction.                                                              *)
TornBy(r) == IF ran[r] THEN {v \in NoTx : IsNext(r, v)} ELSE {}

(* A statement fails or the context ends: an open transaction rolls back and *)
(* Up / down returns through the deferred release.                           *)
Fails(r) ==
  /\ \/ pc[r] \in {"snapshot", "txBody", "txRecord", "txCommit", "record"}
     \/ \E v \in Versions : Runnable(r, v)
  /\ torn' = torn \cup TornBy(r)
  /\ ran' = [ran EXCEPT ![r] = FALSE]
  /\ Goto(r, "release")
  /\ UNCHANGED <<recorded, effect, lock, op, todo, left>>

(* The one failure that is certain: the primary key is already there.        *)
DuplicateKey(r) ==
  /\ pc[r] \in {"txRecord", "record"} /\ op[r] = "up"
  /\ \E v \in recorded : IsNext(r, v)
  /\ Fails(r)

(* A no-transaction body fails half-way, part of its effect in force.        *)
BodyFailsHalfway(r) ==
  /\ \E v \in NoTx : /\ Runnable(r, v)
                     /\ effect' = [effect EXCEPT ![v] = Apply(op[r], @)]
                     /\ torn' = torn \cup {v}
  /\ ConnFree(r)
  /\ Goto(r, "release")
  /\ UNCHANGED <<recorded, lock, op, todo, left, ran>>

(* The context ends while waiting for the lock or for its connection.        *)
CancelWait(r) ==
  /\ pc[r] \in {"conn", "lock"}
  /\ Goto(r, "idle")
  /\ UNCHANGED <<recorded, effect, lock, op, todo, left, ran, torn>>

(* Mutant: the connection goes back to the pool still holding the lock. *)
ReleaseStillLocked(r) ==
  /\ pc[r] = "release"
  /\ todo' = [todo EXCEPT ![r] = {}]
  /\ Goto(r, "idle")
  /\ UNCHANGED <<recorded, effect, lock, op, left, ran, torn>>

(* release: unlockOn and conn.Close.  When unlocking fails the connection is *)
(* broken, which ends the session and the lock with it.                      *)
Release(r) ==
  /\ pc[r] = "release"
  /\ lock' = IF lock = r THEN NoRunner ELSE lock
  /\ todo' = [todo EXCEPT ![r] = {}]
  /\ Goto(r, "idle")
  /\ UNCHANGED <<recorded, effect, op, left, ran, torn>>

(* The process dies; the database drops its sessions, their transactions and *)
(* locks.                                                                    *)
Crash(r) ==
  /\ pc[r] # "idle"
  /\ torn' = torn \cup TornBy(r)
  /\ ran' = [ran EXCEPT ![r] = FALSE]
  /\ lock' = IF lock = r THEN NoRunner ELSE lock
  /\ todo' = [todo EXCEPT ![r] = {}]
  /\ Goto(r, "idle")
  /\ UNCHANGED <<recorded, effect, op, left>>

Progress(r) ==
  \/ OpenLockConn(r) \/ ReadApplied(r) \/ LoopEnds(r)
  \/ Begin(r) \/ TxBody(r) \/ TxRecord(r) \/ TxCommit(r, TRUE)
  \/ RunBody(r) \/ Record(r) \/ DuplicateKey(r) \/ Release(r)

Next ==
  \E r \in Runners :
    \/ \E o \in Ops, n \in Steps : Start(r, o, n)
    \/ Progress(r) \/ Lock(r) \/ LockTimeout(r)
    \/ TxCommit(r, FALSE) \/ Fails(r) \/ BodyFailsHalfway(r)
    \/ CancelWait(r) \/ Crash(r)

Spec == Init /\ [][Next]_vars

(* A runner keeps executing statements; database/sql serves requests for a   *)
(* connection, and the server those for the advisory lock, in arrival order, *)
(* which strong fairness stands for.                                         *)
FairSpec ==
  Spec /\ \A r \in Runners : SF_vars(Progress(r)) /\ SF_vars(Lock(r))

-----------------------------------------------------------------------------
Labels == {"idle", "conn", "lock", "snapshot", "next", "txBody", "txRecord",
           "txCommit", "record", "release"}

TypeOK ==
  /\ recorded \subseteq Versions
  /\ effect \in [Versions -> -EffectBound .. EffectBound]
  /\ lock \in Runners \cup {NoRunner}
  /\ pc \in [Runners -> Labels]
  /\ op \in [Runners -> {"up", "down"}]
  /\ todo \in [Runners -> SUBSET Versions]
  /\ left \in [Runners -> Nat]
  /\ ran \in [Runners -> BOOLEAN]
  /\ torn \subseteq NoTx
(* A runner in the part of Up / down that the advisory lock protects.        *)
Critical(r) == pc[r] \notin {"idle", "conn", "lock"}

(* With a lock no two runners ever work on the schema at the same time,      *)
(* whatever fails, times out or crashes.                                     *)
MutualExclusion ==
  UseLock => \A r, q \in Runners : Critical(r) /\ Critical(q) => r = q

(* The set of applied versions a runner read before its loop is still what   *)
(* the table says while it works through it: "ikinci koşucu bekler ve        *)
(* bekleyen dosya kalmadığını görüp hiçbir şey yapmadan döner".              *)
SnapshotFresh ==
  UseLock => \A r \in Runners :
    pc[r] \in Labels \ {"idle", "conn", "lock", "snapshot", "release"} =>
      todo[r] = IF op[r] = "up" THEN Versions \ recorded ELSE recorded

(* A file that runs in a transaction is in force exactly when it is          *)
(* recorded, never twice, never half: with a lock, and without one for       *)
(* concurrent Ups, which the primary key of the table keeps apart.           *)
TxAtomic ==
  \A v \in Versions \ NoTx : effect[v] = IF v \in recorded THEN 1 ELSE 0

(* So is a no-transaction file, except between its body and its record, and  *)
(* for ever after a run that was cut off just there.                         *)
NoTxExactUnlessTorn ==
  \A v \in NoTx \ torn :
    (\A r \in Runners : v \notin TornBy(r))
      => effect[v] = IF v \in recorded THEN 1 ELSE 0

(* With a lock the runner implements SchemaVersion: whatever fails           *)
(* or crashes, the files in force are always the first n, a change           *)
(* counts when it is recorded, and a file that runs in a transaction is in   *)
(* force exactly when it is recorded.  Of a no-transaction file only the     *)
(* record is promised.                                                       *)
Promise == INSTANCE SchemaVersion WITH effect <-
  [v \in Versions |-> IF v \notin NoTx THEN effect[v] ELSE IF v \in recorded THEN 1 ELSE 0]
ImplementsSchemaVersion == Promise!Spec

(* "ikinci koşucu bekler ve bekleyen dosya kalmadığını görüp hiçbir şey       *)
(* yapmadan döner": every Up and Down returns.                               *)
RunReturns == \A r \in Runners : pc[r] # "idle" ~> pc[r] = "idle"
=============================================================================
