------------------------ MODULE CircuitBreakerProofs ------------------------
(***************************************************************************)
(* Proofs about CircuitBreaker, for any set of callers, any threshold and  *)
(* any timeout.  The type invariant, ProbeRight and                        *)
(* CountsConsecutiveFailures are inductive together: ProbeRight needs the  *)
(* types, CountsConsecutiveFailures needs to know that only the probe's    *)
(* result can move a half-open breaker.                                    *)
(***************************************************************************)
EXTENDS CircuitBreaker, TLAPS

IInv == TypeOK /\ ProbeRight /\ CountsConsecutiveFailures

LEMMA InitIInv == Init => IInv
<1> SUFFICES ASSUME Init PROVE IInv
  OBVIOUS
<1>1. TypeOK
  <2>1. timeLeft \in -1 .. OpenTimeout /\ failureCount \in 0 .. FailThreshold
                                       /\ streak \in 0 .. FailThreshold
    BY BreakerAssumption DEF Init
  <2>2. QED  BY <2>1 DEF Init, TypeOK
<1>2. ProbeRight
  BY DEF Init, ProbeRight, Probing
<1>3. CountsConsecutiveFailures
  BY BreakerAssumption DEF Init, CountsConsecutiveFailures
<1>4. QED  BY <1>1, <1>2, <1>3 DEF IInv

LEMMA StateStep == IInv /\ State => IInv'
<1> SUFFICES ASSUME IInv, State PROVE IInv'
  OBVIOUS
<1>1. TypeOK'
  BY DEF IInv, TypeOK, State
<1>2. ProbeRight'
  BY DEF IInv, ProbeRight, Probing, State, Expired
<1>3. CountsConsecutiveFailures'
  BY DEF IInv, CountsConsecutiveFailures, State, Expired
<1>4. QED  BY <1>1, <1>2, <1>3 DEF IInv

LEMMA TickStep == IInv /\ Tick => IInv'
<1> SUFFICES ASSUME IInv, Tick PROVE IInv'
  OBVIOUS
<1>1. TypeOK'
  BY BreakerAssumption DEF IInv, TypeOK, Tick
<1>2. ProbeRight'
  BY DEF IInv, ProbeRight, Probing, Tick
<1>3. CountsConsecutiveFailures'
  BY DEF IInv, CountsConsecutiveFailures, Tick
<1>4. QED  BY <1>1, <1>2, <1>3 DEF IInv

LEMMA ExecuteStep ==
  ASSUME IInv, NEW c \in Callers, ExecuteClosed(c) \/ ExecuteProbe(c)
  PROVE  IInv'
<1>1. CASE ExecuteClosed(c)
  <2>1. TypeOK'
    BY <1>1 DEF IInv, TypeOK, ExecuteClosed
  <2>2. ProbeRight'
    <3>1. \A d \in Callers : Probing(d)' <=> Probing(d)
      BY <1>1 DEF IInv, TypeOK, Probing, ExecuteClosed
    <3>2. QED
      BY <1>1, <3>1 DEF IInv, ProbeRight, ExecuteClosed
  <2>3. CountsConsecutiveFailures'
    BY <1>1 DEF IInv, CountsConsecutiveFailures, ExecuteClosed
  <2>4. QED  BY <2>1, <2>2, <2>3 DEF IInv
<1>2. CASE ExecuteProbe(c)
  <2>1. ~ \E d \in Callers : Probing(d)
    BY <1>2 DEF IInv, ProbeRight, ExecuteProbe, ProbeFree, Expired
  <2>2. TypeOK'
    BY <1>2 DEF IInv, TypeOK, ExecuteProbe
  <2>3. ProbeRight'
    <3>1. \A d \in Callers : Probing(d)' <=> d = c
      BY <1>2, <2>1 DEF IInv, TypeOK, Probing, ExecuteProbe
    <3>2. QED
      BY <1>2, <3>1 DEF ProbeRight, ExecuteProbe
  <2>4. CountsConsecutiveFailures'
    BY <1>2 DEF IInv, CountsConsecutiveFailures, ExecuteProbe, CurrentState, Expired
  <2>5. QED  BY <2>2, <2>3, <2>4 DEF IInv
<1>3. QED  BY <1>1, <1>2

(* After a return only the other callers may be probing, and if the caller   *)
(* itself was, none is.                                                      *)
LEMMA ReturnProbing ==
  ASSUME IInv, NEW c \in Callers, NEW r \in Results, Return(c, r)
  PROVE  /\ \A d \in Callers : Probing(d)' <=> (d # c /\ Probing(d))
         /\ Probing(c) => \A d \in Callers : ~ Probing(d)'
         /\ Probing(c) => state = "halfOpen" /\ ~allowProbe
<1>1. \A d \in Callers : Probing(d)' <=> (d # c /\ Probing(d))
  BY DEF IInv, TypeOK, Probing, Return
<1>2. Probing(c) => state = "halfOpen" /\ ~allowProbe
  BY DEF IInv, ProbeRight
<1>3. Probing(c) => \A d \in Callers : ~ Probing(d)'
  BY <1>1 DEF IInv, ProbeRight
<1>4. QED  BY <1>1, <1>2, <1>3

LEMMA ReturnStep ==
  ASSUME IInv, NEW c \in Callers, NEW r \in Results, Return(c, r)
  PROVE  IInv'
<1>1. /\ call' = [call EXCEPT ![c] = "none"]
      /\ streak' = NextStreak(r)
      /\ Record(Classify(r), Probing(c))
  BY DEF Return, Probing
<1>2. call' \in [Callers -> {"none", "normal", "probe"}]
  BY <1>1 DEF IInv, TypeOK
<1>3. CASE r \in {"ok", "benign"}
  <2>1. RecordSuccess(Probing(c)) /\ streak' = 0
    BY <1>1, <1>3 DEF Record, Classify, NextStreak
  <2>2. TypeOK'
    <3>1. /\ state' \in {"closed", "open", "halfOpen"}
          /\ failureCount' \in 0 .. FailThreshold
          /\ timeLeft' \in -1 .. OpenTimeout
          /\ streak' \in 0 .. FailThreshold
      BY <2>1, BreakerAssumption DEF IInv, TypeOK, RecordSuccess
    <3>2. allowProbe' \in BOOLEAN
      BY <2>1 DEF IInv, TypeOK, RecordSuccess
    <3>3. QED  BY <3>1, <3>2, <1>2 DEF TypeOK
  <2>3. CountsConsecutiveFailures'
    BY <2>1, BreakerAssumption DEF IInv, CountsConsecutiveFailures, RecordSuccess
  <2>4. ProbeRight'
    <3>1. CASE state = "halfOpen" /\ ~Probing(c)
      BY <3>1, <2>1, ReturnProbing DEF IInv, ProbeRight, RecordSuccess
    <3>2. CASE ~(state = "halfOpen" /\ ~Probing(c))
      <4>1. \A d \in Callers : ~ Probing(d)'
        BY <3>2, ReturnProbing DEF IInv, ProbeRight
      <4>2. state' = "closed" /\ allowProbe' = FALSE
        BY <3>2, <2>1 DEF RecordSuccess
      <4>3. QED  BY <4>1, <4>2 DEF ProbeRight
    <3>3. QED  BY <3>1, <3>2
  <2>5. QED  BY <2>2, <2>3, <2>4 DEF IInv
<1>4. CASE r = "ctxErr"
  <2>1. RecordNeutral(Probing(c)) /\ streak' = streak
    BY <1>1, <1>4 DEF Record, Classify, NextStreak
  <2>2. TypeOK'
    BY <2>1, <1>2 DEF IInv, TypeOK, RecordNeutral
  <2>3. CountsConsecutiveFailures'
    BY <2>1 DEF IInv, CountsConsecutiveFailures, RecordNeutral
  <2>4. ProbeRight'
    BY <2>1, ReturnProbing DEF IInv, ProbeRight, RecordNeutral
  <2>5. QED  BY <2>2, <2>3, <2>4 DEF IInv
<1>5. CASE r \in {"fault", "panic"}
  <2>1. /\ RecordFailure(Probing(c))
        /\ streak' = IF streak < FailThreshold THEN streak + 1 ELSE streak
    BY <1>1, <1>5 DEF Record, Classify, NextStreak
  <2>2. TypeOK'
    <3>1. /\ state' \in {"closed", "open", "halfOpen"}
          /\ failureCount' \in 0 .. FailThreshold
          /\ timeLeft' \in -1 .. OpenTimeout
          /\ streak' \in 0 .. FailThreshold
      BY <2>1, BreakerAssumption
         DEF IInv, TypeOK, CountsConsecutiveFailures, RecordFailure, Trip
    <3>2. allowProbe' \in BOOLEAN
      BY <2>1 DEF IInv, TypeOK, RecordFailure
    <3>3. QED  BY <3>1, <3>2, <1>2 DEF TypeOK
  <2>3. CountsConsecutiveFailures'
    BY <2>1, BreakerAssumption
       DEF IInv, TypeOK, CountsConsecutiveFailures, RecordFailure, Trip
  <2>4. ProbeRight'
    <3>1. CASE state = "closed"
      <4>1. state' # "halfOpen" /\ allowProbe' = allowProbe
        BY <3>1, <2>1 DEF RecordFailure, Trip
      <4>2. QED  BY <3>1, <4>1, ReturnProbing DEF IInv, ProbeRight
    <3>2. CASE state = "halfOpen" /\ Probing(c)
      <4>1. state' = "open" /\ allowProbe' = FALSE
        BY <3>2, <2>1 DEF RecordFailure, Trip
      <4>2. QED  BY <3>2, <4>1, ReturnProbing DEF ProbeRight
    <3>3. CASE state # "closed" /\ ~(state = "halfOpen" /\ Probing(c))
      <4>1. state' = state /\ allowProbe' = allowProbe
        BY <3>3, <2>1 DEF RecordFailure, Trip
      <4>2. QED  BY <3>3, <4>1, ReturnProbing DEF IInv, ProbeRight
    <3>4. QED  BY <3>1, <3>2, <3>3
  <2>5. QED  BY <2>2, <2>3, <2>4 DEF IInv
<1>6. QED  BY <1>3, <1>4, <1>5 DEF Results

LEMMA NextIInv == IInv /\ [Next]_vars => IInv'
<1> SUFFICES ASSUME IInv, [Next]_vars PROVE IInv'
  OBVIOUS
<1>1. CASE State  BY <1>1, StateStep
<1>2. CASE Tick  BY <1>2, TickStep
<1>3. CASE \E c \in Callers : ExecuteClosed(c) \/ ExecuteProbe(c)
  BY <1>3, ExecuteStep
<1>4. CASE \E c \in Callers, r \in Results : Return(c, r)
  BY <1>4, ReturnStep
<1>5. CASE UNCHANGED vars
  <2>1. TypeOK'  BY <1>5 DEF vars, IInv, TypeOK
  <2>2. ProbeRight'  BY <1>5 DEF vars, IInv, ProbeRight, Probing
  <2>3. CountsConsecutiveFailures'
    BY <1>5 DEF vars, IInv, CountsConsecutiveFailures
  <2>4. QED  BY <2>1, <2>2, <2>3 DEF IInv
<1>6. QED  BY <1>1, <1>2, <1>3, <1>4, <1>5 DEF Next

LEMMA IInvHolds == Spec => []IInv
BY InitIInv, NextIInv, PTL DEF Spec

(* Type correctness of every reachable state: in particular failureCount     *)
(* never exceeds the threshold.                                              *)
THEOREM TypeCorrect == Spec => []TypeOK
BY IInvHolds, PTL DEF IInv

(* Never two probes, never a half-open breaker whose probe right is lost.    *)
THEOREM ProbeRightHolds == Spec => []ProbeRight
BY IInvHolds, PTL DEF IInv

(* While closed, failureCount is the number of consecutive real failures.    *)
THEOREM CountsHold == Spec => []CountsConsecutiveFailures
BY IInvHolds, PTL DEF IInv

-----------------------------------------------------------------------------
(* What a step may do to a half-open breaker and to an open one: the two     *)
(* conjuncts of LateResultsDecideNothing.                                    *)
ProbeDecides ==
  state = "halfOpen" /\ state' # "halfOpen" => \E c \in Callers : Probing(c) /\ call'[c] = "none"

OpenDrains ==
  state = "open" /\ timeLeft >= 0 =>
    /\ \A c \in Callers : call[c] = "none" => call'[c] = "none"
    /\ state' # "open" => /\ state' = "closed"
                          /\ \E c \in Callers : call[c] = "normal" /\ call'[c] = "none"

LEMMA ReturnDecides ==
  ASSUME IInv, NEW c \in Callers, NEW r \in Results, Return(c, r)
  PROVE  ProbeDecides /\ OpenDrains
<1>1. /\ call[c] # "none" /\ call' = [call EXCEPT ![c] = "none"]
      /\ Record(Classify(r), Probing(c))
  BY DEF Return, Probing
<1>2. call'[c] = "none" /\ \A d \in Callers : d # c => call'[d] = call[d]
  BY <1>1 DEF IInv, TypeOK
<1>3. Probing(c) => state = "halfOpen"
  BY DEF IInv, ProbeRight
<1>4. call[c] = "normal" \/ Probing(c)
  BY <1>1 DEF IInv, TypeOK, Probing
<1>5. state = "halfOpen" /\ ~Probing(c) => state' = "halfOpen"
  BY <1>1 DEF Record, RecordSuccess, RecordNeutral, RecordFailure
<1>6. state = "open" => state' \in {"open", "closed"}
  BY <1>1, <1>3 DEF Record, RecordSuccess, RecordNeutral, RecordFailure
<1>7. ProbeDecides
  BY <1>2, <1>5 DEF ProbeDecides
<1>8. OpenDrains
  BY <1>2, <1>3, <1>4, <1>6 DEF OpenDrains
<1>9. QED  BY <1>7, <1>8

(* A result of an earlier period neither ends half-open nor lets anything    *)
(* through an open breaker; only a success of a call already running closes  *)
(* it before its time.                                                       *)
THEOREM LateResultsHold == Spec => LateResultsDecideNothing
<1>1. IInv /\ [Next]_vars => [ProbeDecides /\ OpenDrains]_vars
  <2> SUFFICES ASSUME IInv, Next PROVE ProbeDecides /\ OpenDrains
    BY DEF vars
  <2>1. CASE State
    BY <2>1 DEF IInv, TypeOK, State, Expired, ProbeDecides, OpenDrains
  <2>2. CASE Tick
    BY <2>2 DEF Tick, ProbeDecides, OpenDrains
  <2>3. ASSUME NEW c \in Callers, ExecuteClosed(c) \/ ExecuteProbe(c)
        PROVE  ProbeDecides /\ OpenDrains
    <3>1. ~(state = "open" /\ timeLeft >= 0)
      BY <2>3 DEF IInv, TypeOK, ExecuteClosed, ExecuteProbe, CurrentState, Expired
    <3>2. state = "halfOpen" => state' = "halfOpen"
      BY <2>3 DEF ExecuteClosed, ExecuteProbe
    <3>3. QED  BY <3>1, <3>2 DEF ProbeDecides, OpenDrains
  <2>4. QED  BY <2>1, <2>2, <2>3, ReturnDecides DEF Next
<1>2. QED
  BY <1>1, IInvHolds, PTL DEF Spec, LateResultsDecideNothing, ProbeDecides, OpenDrains
=============================================================================
