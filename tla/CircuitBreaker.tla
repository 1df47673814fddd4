--------------------------- MODULE CircuitBreaker ---------------------------
(***************************************************************************)
(* The circuit breaker of pkg/resilience (CircuitBreaker): a mutex-guarded *)
(* state machine shared by any number of goroutines.  Execute is two       *)
(* critical sections with the wrapped function running between them,       *)
(* outside the lock; everything interesting happens because the state may  *)
(* have moved on by the time a call reports its result.                    *)
(*                                                                         *)
(* The clock is modelled as the time left until openUntil, so that time    *)
(* is unbounded and the state space is not: now.After(openUntil) holds     *)
(* exactly when timeLeft < 0.                                              *)
(***************************************************************************)
EXTENDS Integers

CONSTANTS
  Callers,        \* goroutines calling Execute
  FailThreshold,  \* failThreshold after NewCircuitBreaker's defaulting
  OpenTimeout     \* openTimeout after NewCircuitBreaker's defaulting

\* NewCircuitBreaker replaces a threshold or a timeout <= 0 by its default.
ASSUME BreakerAssumption ==
  /\ FailThreshold \in Nat \ {0}
  /\ OpenTimeout \in Nat \ {0}

VARIABLES
  state,         \* "closed" | "open" | "halfOpen"
  failureCount,
  timeLeft,      \* openUntil - now
  allowProbe,
  call,          \* what each goroutine is running: nothing, fn, or fn as the probe
  streak         \* history: consecutive real failures returned so far, saturating

vars == <<state, failureCount, timeLeft, allowProbe, call, streak>>

(* What fn may do.  "benign" is an error that WithFailurePredicate does not  *)
(* count, "panic" a panic (or Goexit) caught by Execute's deferred function. *)
Results == {"ok", "ctxErr", "benign", "fault", "panic"}

Init ==
  /\ state = "closed"
  /\ failureCount = 0
  /\ timeLeft = -1
  /\ allowProbe = FALSE
  /\ call = [c \in Callers |-> "none"]
  /\ streak = 0

-----------------------------------------------------------------------------
(* The three outcomes record() distinguishes. *)
Classify(r) ==
  IF r \in {"ok", "benign"} THEN "success"
  ELSE IF r = "ctxErr" THEN "neutral" ELSE "failure"

Expired == state = "open" /\ timeLeft < 0

(* currentStateLocked: the open period ends lazily, when somebody looks. *)
CurrentState == IF Expired THEN "halfOpen" ELSE state
ProbeFree    == Expired \/ allowProbe

(* State(): only the lazy transition. *)
State ==
  /\ Expired
  /\ state' = "halfOpen"
  /\ allowProbe' = TRUE
  /\ UNCHANGED <<failureCount, timeLeft, call, streak>>

(* Execute's first critical section, when it lets the call through.  When it *)
(* does not (ctx done, ErrBreakerOpen) nothing changes: a stuttering step.   *)
ExecuteClosed(c) ==
  /\ call[c] = "none"
  /\ CurrentState = "closed"
  /\ call' = [call EXCEPT ![c] = "normal"]
  /\ UNCHANGED <<state, failureCount, timeLeft, allowProbe, streak>>

ExecuteProbe(c) ==
  /\ call[c] = "none"
  /\ CurrentState = "halfOpen"
  /\ ProbeFree
  /\ state' = "halfOpen"
  /\ allowProbe' = FALSE
  /\ call' = [call EXCEPT ![c] = "probe"]
  /\ UNCHANGED <<failureCount, timeLeft, streak>>

-----------------------------------------------------------------------------
(* Mutants: a success does not reset the count; a success of any call closes *)
(* a half-open breaker.                                                      *)
RecordSuccessKeepsCount(probe) ==
  IF state = "halfOpen" /\ ~probe
  THEN UNCHANGED <<state, failureCount, timeLeft, allowProbe>>
  ELSE /\ state' = "closed"
       /\ allowProbe' = FALSE
       /\ UNCHANGED <<failureCount, timeLeft>>

RecordSuccessOfAnybody(probe) ==
  /\ state' = "closed"
  /\ failureCount' = 0
  /\ allowProbe' = FALSE
  /\ UNCHANGED timeLeft

RecordSuccess(probe) ==
  IF state = "halfOpen" /\ ~probe
  THEN UNCHANGED <<state, failureCount, timeLeft, allowProbe>>
  ELSE /\ state' = "closed"
       /\ failureCount' = 0
       /\ allowProbe' = FALSE
       /\ UNCHANGED timeLeft

(* Mutant: a probe cut off by its context does not give the right back. *)
RecordNeutralKeepsRight(probe) ==
  UNCHANGED <<state, failureCount, timeLeft, allowProbe>>

RecordNeutral(probe) ==
  /\ allowProbe' = (allowProbe \/ (probe /\ state = "halfOpen"))
  /\ UNCHANGED <<state, failureCount, timeLeft>>

(* A failure counts while closed, reopens when it is the probe's, and is     *)
(* ignored otherwise.                                                        *)
Trip ==
  /\ state' = "open"
  /\ timeLeft' = OpenTimeout

RecordFailure(probe) ==
  \/ /\ state = "closed"
     /\ failureCount' = failureCount + 1
     /\ IF failureCount + 1 >= FailThreshold THEN Trip ELSE UNCHANGED <<state, timeLeft>>
     /\ UNCHANGED allowProbe
  \/ /\ state = "halfOpen" /\ probe
     /\ Trip
     /\ allowProbe' = FALSE
     /\ UNCHANGED failureCount
  \/ /\ state = "open" \/ (state = "halfOpen" /\ ~probe)
     /\ UNCHANGED <<state, failureCount, timeLeft, allowProbe>>

Record(o, probe) ==
  \/ o = "success" /\ RecordSuccess(probe)
  \/ o = "neutral" /\ RecordNeutral(probe)
  \/ o = "failure" /\ RecordFailure(probe)

(* The history of results, kept independently of failureCount. *)
NextStreak(r) ==
  IF r \in {"ok", "benign"} THEN 0
  ELSE IF r \in {"fault", "panic"} /\ streak < FailThreshold THEN streak + 1
  ELSE streak

(* fn returns r (or panics) and Execute's second critical section records it. *)
Return(c, r) ==
  /\ call[c] # "none"
  /\ Record(Classify(r), call[c] = "probe")
  /\ call' = [call EXCEPT ![c] = "none"]
  /\ streak' = NextStreak(r)

(* Time passes; before openUntil it matters, afterwards it does not. *)
Tick ==
  /\ timeLeft >= 0
  /\ timeLeft' = timeLeft - 1
  /\ UNCHANGED <<state, failureCount, allowProbe, call, streak>>

Next ==
  \/ State
  \/ Tick
  \/ \E c \in Callers : ExecuteClosed(c) \/ ExecuteProbe(c)
  \/ \E c \in Callers, r \in Results : Return(c, r)

Spec == Init /\ [][Next]_vars

(* Time passes and fn returns.  Nothing obliges anybody to call Execute. *)
Fairness ==
  /\ WF_vars(Tick)
  /\ \A c \in Callers : WF_vars(\E r \in Results : Return(c, r))

FairSpec == Spec /\ Fairness

-----------------------------------------------------------------------------
TypeOK ==
  /\ state \in {"closed", "open", "halfOpen"}
  /\ failureCount \in 0 .. FailThreshold
  /\ timeLeft \in -1 .. OpenTimeout
  /\ allowProbe \in BOOLEAN
  /\ call \in [Callers -> {"none", "normal", "probe"}]
  /\ streak \in 0 .. FailThreshold

Probing(c) == call[c] = "probe"

(* The probe right is neither duplicated nor lost: a probe runs only while   *)
(* half-open, never two at once, and a half-open breaker either offers the   *)
(* right or has exactly one call running with it.  Losing it would wedge the *)
(* breaker in half-open for ever; duplicating it would send a herd at a      *)
(* service that has just failed.                                             *)
ProbeRight ==
  /\ \A c, d \in Callers : Probing(c) /\ Probing(d) => c = d
  /\ \A c \in Callers : Probing(c) => state = "halfOpen" /\ ~allowProbe
  /\ state = "halfOpen" => (allowProbe \/ \E c \in Callers : Probing(c))
  /\ allowProbe => state = "halfOpen"

(* "failThreshold ardışık başarısızlık": while closed, failureCount is       *)
(* exactly the number of real failures since the last real success, whatever *)
(* calls of earlier periods report late, and the breaker is closed exactly   *)
(* as long as that number is below the threshold.                            *)
CountsConsecutiveFailures ==
  /\ state = "closed" => failureCount = streak
  /\ state = "closed" <=> failureCount < FailThreshold

(* What comes back late decides nothing but what it may: a half-open breaker *)
(* leaves that state only on the word of its probe; while it is open and its *)
(* timeout has not passed it lets nothing through, and closing early takes   *)
(* the success of a call that was already running.                           *)
LateResultsDecideNothing ==
  [][/\ state = "halfOpen" /\ state' # "halfOpen"
          => \E c \in Callers : Probing(c) /\ call'[c] = "none"
     /\ state = "open" /\ timeLeft >= 0 =>
          /\ \A c \in Callers : call[c] = "none" => call'[c] = "none"
          /\ state' # "open" => /\ state' = "closed"
                                /\ \E c \in Callers : call[c] = "normal" /\ call'[c] = "none"]_vars

(* Whatever happened, the breaker again and again reaches a state in which   *)
(* the next Execute is let through.                                          *)
WouldAdmit == CurrentState = "closed" \/ (CurrentState = "halfOpen" /\ ProbeFree)
NeverWedged == []<>WouldAdmit

(* What the comment of NewCircuitBreaker promises: once tripped, the breaker *)
(* stays open for openTimeout.                                               *)
OpenForTimeout ==
  [][state = "open" /\ state' # "open" => timeLeft < 0]_vars
=============================================================================
