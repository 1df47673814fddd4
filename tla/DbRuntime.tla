------------------------------ MODULE DbRuntime ------------------------------
(***************************************************************************)
(* pkg/db: the global runtime that Init and Close replace while calls run, *)
(* and the way a call runs on the runtime it found: breaker, then retries  *)
(* (doWithPolicies over resilience.RetryPolicy), then one statement or one *)
(* transaction of several.  The breaker is module CircuitBreaker; here it  *)
(* may refuse any call.                                                    *)
(***************************************************************************)
EXTENDS Integers

CONSTANTS
  Callers,        \* goroutines calling Exec*, Query*, Bulk*, Tx
  Admins,         \* goroutines calling Init and Close
  Runtimes,       \* runtimes; one nobody refers to is free to be opened anew
  None,
  RetryAttempts,  \* Config.RetryAttempts
  Statements      \* statements of a transaction, rows of a query

ASSUME DbRuntimeAssumption ==
  /\ None \notin Runtimes
  /\ RetryAttempts \in Int /\ Statements \in Nat \ {0}

VARIABLES
  cur,         \* the global runtime
  pool,        \* "open" or "closed": its *sql.DB
  apc, mine, old,   \* each admin: where it is, its new and its replaced runtime
  pc, rt,      \* each caller: where it is, the runtime it took
  kind, optIn, \* opRead, opWrite or opTx; writeRetryAllowed
  tries,       \* attempts begun
  at,          \* statements the current attempt has executed
  rows,        \* statements whose rows the call has counted (rows, total)
  answer,      \* what the call returned
  applied,     \* history: how often the database has applied the call
  overlapped   \* history: an Init or Close replaced the runtime meanwhile

adminVars == <<cur, pool, apc, mine, old>>
callVars == <<pc, rt, kind, optIn, tries, at, rows, answer, applied, overlapped>>
vars == <<adminVars, callVars>>

Kinds == {"read", "write", "tx"}

Init ==
  /\ cur = None
  /\ pool = [r \in Runtimes |-> "closed"]
  /\ apc = [a \in Admins |-> "idle"]
  /\ mine = [a \in Admins |-> None]
  /\ old = [a \in Admins |-> None]
  /\ pc = [c \in Callers |-> "idle"]
  /\ rt = [c \in Callers |-> None]
  /\ kind = [c \in Callers |-> "read"]
  /\ optIn = [c \in Callers |-> FALSE]
  /\ tries = [c \in Callers |-> 0]
  /\ at = [c \in Callers |-> 0]
  /\ rows = [c \in Callers |-> 0]
  /\ answer = [c \in Callers |-> "none"]
  /\ applied = [c \in Callers |-> 0]
  /\ overlapped = [c \in Callers |-> FALSE]

-----------------------------------------------------------------------------
(* Init opens before it replaces, and closes what it replaced afterwards,    *)
(* outside the lock.                                                         *)
Unused(r) ==
  /\ r # cur
  /\ \A a \in Admins : mine[a] # r /\ old[a] # r
  /\ \A c \in Callers : rt[c] # r

InitOpen(a) ==
  /\ apc[a] = "idle"
  /\ \E r \in Runtimes :
       /\ Unused(r)
       /\ pool' = [pool EXCEPT ![r] = "open"]
       /\ mine' = [mine EXCEPT ![a] = r]
  /\ apc' = [apc EXCEPT ![a] = "opened"]
  /\ UNCHANGED <<cur, old, callVars>>

(* The write-locked swap of Init and of Close. *)
Swap(a, new) ==
  /\ old' = [old EXCEPT ![a] = cur]
  /\ cur' = new
  /\ apc' = [apc EXCEPT ![a] = "swapped"]
  /\ overlapped' = [c \in Callers |-> TRUE]
  /\ UNCHANGED <<pool, pc, rt, kind, optIn, tries, at, rows, answer, applied>>

InitSwap(a) ==
  /\ apc[a] = "opened"
  /\ Swap(a, mine[a])
  /\ mine' = [mine EXCEPT ![a] = None]

CloseSwap(a) ==
  /\ apc[a] = "idle"
  /\ Swap(a, None)
  /\ UNCHANGED mine

(* Mutant: the replaced pool is not closed. *)
ShutdownKeepsPool(a) ==
  /\ apc[a] = "swapped"
  /\ old' = [old EXCEPT ![a] = None]
  /\ apc' = [apc EXCEPT ![a] = "idle"]
  /\ UNCHANGED <<cur, mine, pool, callVars>>

Shutdown(a) ==
  /\ apc[a] = "swapped"
  /\ pool' = [r \in Runtimes |-> IF r = old[a] THEN "closed" ELSE pool[r]]
  /\ old' = [old EXCEPT ![a] = None]
  /\ apc' = [apc EXCEPT ![a] = "idle"]
  /\ UNCHANGED <<cur, mine, callVars>>

-----------------------------------------------------------------------------
(* Mutant: writes are repeated like reads. *)
AttemptsAlways(c) == IF RetryAttempts <= 1 THEN 1 ELSE RetryAttempts

(* Writes and transactions are repeated only when asked to. *)
Attempts(c) ==
  IF RetryAttempts <= 1 \/ (kind[c] # "read" /\ ~optIn[c]) THEN 1 ELSE RetryAttempts

(* errors.go, as far as retrying tells errors apart: transient ones,         *)
(* timeouts, and the rest (constraints, no rows, context, closed pool).      *)
Errors == {"transient", "timeout", "other"}
Retryable(c, e) == e = "transient" \/ (kind[c] = "read" /\ e = "timeout")

(* What a call has to do and to report when it succeeds: the rows of a query, *)
(* one statement, the statements of a transaction.                            *)
Due(c) == IF kind[c] = "write" THEN 1 ELSE Statements

(* current(); without a runtime the call returns at once.                    *)
Begin(c, k, o) ==
  /\ pc[c] = "idle" /\ cur # None
  /\ rt' = [rt EXCEPT ![c] = cur]
  /\ kind' = [kind EXCEPT ![c] = k]
  /\ optIn' = [optIn EXCEPT ![c] = o]
  /\ pc' = [pc EXCEPT ![c] = "admission"]
  /\ overlapped' = [overlapped EXCEPT ![c] = FALSE]
  /\ UNCHANGED <<adminVars, tries, at, rows, answer, applied>>

Answer(c, what) ==
  /\ answer' = [answer EXCEPT ![c] = what]
  /\ pc' = [pc EXCEPT ![c] = "answered"]

(* The breaker is open, or the context is over: fn is not called. *)
Refused(c) ==
  /\ pc[c] = "admission"
  /\ Answer(c, "refused")
  /\ UNCHANGED <<adminVars, rt, kind, optIn, tries, at, rows, applied, overlapped>>

(* Mutant: the total of a failed attempt is kept. *)
AttemptKeepsRows(c) ==
  /\ pc[c] = "admission" \/ pc[c] = "backoff"
  /\ tries' = [tries EXCEPT ![c] = @ + 1]
  /\ at' = [at EXCEPT ![c] = 0]
  /\ pc' = [pc EXCEPT ![c] = "running"]
  /\ UNCHANGED <<adminVars, rt, kind, optIn, rows, answer, applied, overlapped>>

(* An attempt starts with nothing executed and nothing counted.              *)
Attempt(c) ==
  /\ pc[c] = "admission" \/ pc[c] = "backoff"
  /\ tries' = [tries EXCEPT ![c] = @ + 1]
  /\ at' = [at EXCEPT ![c] = 0]
  /\ rows' = [rows EXCEPT ![c] = 0]
  /\ pc' = [pc EXCEPT ![c] = "running"]
  /\ UNCHANGED <<adminVars, rt, kind, optIn, answer, applied, overlapped>>

(* fn returns e: again, or give up. *)
Fail(c, e) ==
  IF tries[c] < Attempts(c) /\ Retryable(c, e)
  THEN pc' = [pc EXCEPT ![c] = "backoff"] /\ UNCHANGED answer
  ELSE Answer(c, "error")

(* A connection of the pool, which then outlives the closing of the pool.    *)
TakeConn(c) ==
  /\ pc[c] = "running" /\ pool[rt[c]] = "open"
  /\ pc' = [pc EXCEPT ![c] = "conn"]
  /\ UNCHANGED <<adminVars, rt, kind, optIn, tries, at, rows, answer, applied, overlapped>>

(* A statement, or a row of a query; a write is in the database at once.     *)
Statement(c) ==
  /\ pc[c] = "conn"
  /\ at[c] < Due(c)
  /\ at' = [at EXCEPT ![c] = @ + 1]
  /\ rows' = [rows EXCEPT ![c] = @ + 1]
  /\ IF kind[c] = "tx" \/ at[c] + 1 < Due(c)
     THEN UNCHANGED <<pc, answer, applied>>
     ELSE /\ applied' = [applied EXCEPT ![c] = IF kind[c] = "write" THEN @ + 1 ELSE @]
          /\ Answer(c, "ok")
  /\ UNCHANGED <<adminVars, rt, kind, optIn, tries, overlapped>>

Commit(c) ==
  /\ pc[c] = "conn" /\ kind[c] = "tx"
  /\ at[c] = Due(c)
  /\ applied' = [applied EXCEPT ![c] = @ + 1]
  /\ Answer(c, "ok")
  /\ UNCHANGED <<adminVars, rt, kind, optIn, tries, at, rows, overlapped>>

(* Getting the connection, a statement or the commit fails.  When only the   *)
(* answer was lost (the connection broke, timed out, or the context ended)   *)
(* the database has applied it all the same, a transaction by its commit.    *)
Fails(c, e, lost) ==
  /\ pc[c] \in {"running", "conn"}
  /\ pc[c] = "running" /\ pool[rt[c]] = "closed" => e = "other"
  /\ lost => /\ pc[c] = "conn" /\ kind[c] # "read"
             /\ kind[c] = "tx" => at[c] = Due(c)
  /\ applied' = [applied EXCEPT ![c] = IF lost THEN @ + 1 ELSE @]
  /\ Fail(c, e)
  /\ UNCHANGED <<adminVars, rt, kind, optIn, tries, at, rows, overlapped>>

(* The context ends while waiting between two attempts.                      *)
BackoffCancelled(c) ==
  /\ pc[c] = "backoff"
  /\ Answer(c, "error")
  /\ UNCHANGED <<adminVars, rt, kind, optIn, tries, at, rows, applied, overlapped>>

(* The caller goes on; its variables are as before the call.                 *)
Return(c) ==
  /\ pc[c] = "answered"
  /\ pc' = [pc EXCEPT ![c] = "idle"]
  /\ rt' = [rt EXCEPT ![c] = None]
  /\ kind' = [kind EXCEPT ![c] = "read"]
  /\ optIn' = [optIn EXCEPT ![c] = FALSE]
  /\ tries' = [tries EXCEPT ![c] = 0]
  /\ at' = [at EXCEPT ![c] = 0]
  /\ rows' = [rows EXCEPT ![c] = 0]
  /\ answer' = [answer EXCEPT ![c] = "none"]
  /\ applied' = [applied EXCEPT ![c] = 0]
  /\ UNCHANGED <<adminVars, overlapped>>

Next ==
  \/ \E a \in Admins : InitOpen(a) \/ InitSwap(a) \/ CloseSwap(a) \/ Shutdown(a)
  \/ \E c \in Callers :
       \/ \E k \in Kinds, o \in BOOLEAN : Begin(c, k, o)
       \/ \E e \in Errors, lost \in BOOLEAN : Fails(c, e, lost)
       \/ Refused(c) \/ Attempt(c) \/ TakeConn(c) \/ Statement(c)
       \/ Commit(c) \/ BackoffCancelled(c) \/ Return(c)

Spec == Init /\ [][Next]_vars

-----------------------------------------------------------------------------
TypeOK ==
  /\ cur \in Runtimes \cup {None}
  /\ pool \in [Runtimes -> {"open", "closed"}]
  /\ apc \in [Admins -> {"idle", "opened", "swapped"}]
  /\ mine \in [Admins -> Runtimes \cup {None}]
  /\ old \in [Admins -> Runtimes \cup {None}]
  /\ pc \in [Callers -> {"idle", "admission", "running", "conn", "backoff", "answered"}]
  /\ rt \in [Callers -> Runtimes \cup {None}]
  /\ kind \in [Callers -> Kinds]
  /\ optIn \in [Callers -> BOOLEAN]
  /\ tries \in [Callers -> Nat] /\ at \in [Callers -> Nat]
  /\ \A c \in Callers : tries[c] \in 0 .. Attempts(c) /\ at[c] \in 0 .. Due(c)
  /\ rows \in [Callers -> Nat]
  /\ answer \in [Callers -> {"none", "ok", "error", "refused"}]
  /\ applied \in [Callers -> Nat]
  /\ overlapped \in [Callers -> BOOLEAN]

(* However Init and Close interleave, a pool is open only while it is the    *)
(* current one, about to become it, or about to be closed by the one call    *)
(* that replaced it.                                                         *)
NoPoolLeaks ==
  \A r \in Runtimes : pool[r] = "open" =>
    \/ r = cur
    \/ \E a \in Admins : mine[a] = r \/ old[a] = r

(* A call that no Init and no Close overlapped never meets a closed pool.    *)
PoolOpenUnlessReplaced ==
  \A c \in Callers : pc[c] # "idle" /\ ~overlapped[c] => pool[rt[c]] = "open"

(* Both: each pool lives as long as it is needed and no longer.              *)
PoolLifetime == NoPoolLeaks /\ PoolOpenUnlessReplaced

(* "Yazma işlemi sayılır: varsayılan olarak yeniden denenmez": unless it     *)
(* opted in, a write or a transaction is applied at most once, whatever      *)
(* answers are lost; a read never.                                           *)
AppliedOnce ==
  \A c \in Callers :
    /\ kind[c] = "read" => applied[c] = 0
    /\ ~optIn[c] => applied[c] <= 1

(* The answer is true: success means applied (once, unless opted in) and     *)
(* reports the rows of exactly one complete attempt, however many failed     *)
(* half-way before; a call that was refused has not touched the database.    *)
AnswerIsTrue ==
  \A c \in Callers :
    /\ answer[c] = "ok" => /\ rows[c] = Due(c)
                           /\ kind[c] # "read" => applied[c] >= 1
    /\ answer[c] = "refused" => applied[c] = 0
=============================================================================
