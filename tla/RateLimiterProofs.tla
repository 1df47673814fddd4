-------------------------- MODULE RateLimiterProofs --------------------------
(***************************************************************************)
(* Proofs about RateLimiter, for every rate, burst and set of callers.     *)
(* WithinRate follows from NoTokenLost, which says that the lazily         *)
(* refilled bucket and the meter are mirror images; that, with the bounds  *)
(* of the two amounts, is inductive.                                       *)
(***************************************************************************)
EXTENDS RateLimiter, TLAPS

Amounts ==
  /\ tokens \in 0 .. Capacity
  /\ accrued \in 0 .. Capacity
  /\ debt \in Int

IInv == Amounts /\ NoTokenLost

LEMMA CapacityFact == Capacity \in Nat /\ Token <= Capacity /\ Token \in Nat /\ Rate \in Nat
BY RateLimiterAssumption DEF Capacity

LEMMA InitIInv == Init => IInv
<1> SUFFICES ASSUME Init PROVE IInv
  OBVIOUS
<1>1. tokens = Capacity /\ accrued = 0 /\ debt = 0
  BY DEF Init
<1>2. QED
  BY <1>1, CapacityFact DEF IInv, Amounts, NoTokenLost, Refilled, Capped

(* A grant takes the same amount from the bucket as it adds to the debt; a   *)
(* refusal only moves what accrued into the bucket.                          *)
LEMMA GrantRefuseStep == IInv /\ (Grant \/ Refuse) => IInv'
<1> SUFFICES ASSUME IInv, Grant \/ Refuse PROVE IInv'
  OBVIOUS
<1>1. Capacity' = Capacity
  BY DEF Capacity
<1>2. CASE Grant
  BY <1>1, <1>2, CapacityFact DEF Grant, IInv, Amounts, NoTokenLost, Refilled, Capped
<1>3. CASE Refuse
  BY <1>1, <1>3, CapacityFact DEF Refuse, IInv, Amounts, NoTokenLost, Refilled, Capped
<1>4. QED  BY <1>2, <1>3

LEMMA TickStep == IInv /\ Tick => IInv'
<1> SUFFICES ASSUME IInv, Tick PROVE IInv'
  OBVIOUS
<1>1. /\ tokens' = tokens
      /\ accrued' = Capped(accrued + Rate)
      /\ debt' = IF debt > Rate THEN debt - Rate ELSE 0
  BY DEF Tick
<1>2. QED
  BY <1>1, CapacityFact DEF IInv, Amounts, NoTokenLost, Refilled, Capped, Capacity

LEMMA NextIInv == IInv /\ [Next]_vars => IInv'
<1> SUFFICES ASSUME IInv, [Next]_vars PROVE IInv'
  OBVIOUS
<1> DEFINE Same == UNCHANGED <<tokens, accrued, debt>>
<1>1. Same => IInv'
  BY DEF IInv, Amounts, NoTokenLost, Refilled, Capped, Capacity
<1>2. CASE Tick  BY <1>2, TickStep
<1>3. CASE Close  BY <1>3, <1>1 DEF Close
<1>4. ASSUME NEW c \in Callers,
             Allow(c) \/ Wait(c) \/ Reserve(c) \/ TimerFires(c) \/ Cancelled(c) \/ WokenByClose(c)
      PROVE  Grant \/ Refuse \/ Same
  BY <1>4 DEF Allow, Wait, Reserve, TimerFires, Cancelled, WokenByClose
<1>5. CASE UNCHANGED vars  BY <1>5, <1>1 DEF vars
<1>6. QED  BY <1>1, <1>2, <1>3, <1>4, <1>5, GrantRefuseStep DEF Next

LEMMA IInvHolds == Spec => []IInv
BY InitIInv, NextIInv, PTL DEF Spec

(* No token is lost to lazy refilling or to truncated sleeps.                *)
THEOREM NoTokenLostHolds == Spec => []NoTokenLost
BY IInvHolds, PTL DEF IInv

(* In every window, at most the burst plus the rate is handed out.           *)
THEOREM WithinRateHolds == Spec => []WithinRate
<1>1. IInv => WithinRate
  BY CapacityFact DEF IInv, Amounts, NoTokenLost, WithinRate, Refilled, Capped
<1>2. QED  BY <1>1, IInvHolds, PTL

-----------------------------------------------------------------------------
(* The sleepers.  A timer longer than the shortest sleep never runs beyond   *)
(* the moment the bucket holds a token, because the bucket gains at most     *)
(* Rate units in the tick in which the timer loses one.                      *)
Sleepers ==
  /\ closed \in BOOLEAN
  /\ pc \in [Callers -> {"idle", "loop", "sleep"}]
  /\ timer \in [Callers -> Nat]
  /\ \A c \in Callers : pc[c] = "sleep" /\ timer[c] > MinSleep => timer[c] * Rate <= Token - Refilled

LEMMA RefilledFact == IInv => Refilled \in 0 .. Capacity
BY CapacityFact DEF IInv, Amounts, Refilled, Capped

LEMMA RefilledFactNext == IInv' => Refilled' \in Int
BY CapacityFact DEF IInv, Amounts, Refilled, Capped, Capacity

(* No step but a tick adds to what the bucket holds. *)
LEMMA RefilledGrowsOnlyByTicks ==
  ASSUME IInv, Grant \/ Refuse \/ UNCHANGED <<tokens, accrued, debt>>
  PROVE  Refilled' <= Refilled
<1>1. Capacity' = Capacity
  BY DEF Capacity
<1>2. QED
  BY <1>1, CapacityFact DEF IInv, Amounts, Grant, Refuse, Refilled, Capped

LEMMA TickRefills == IInv /\ Tick => Refilled' <= Refilled + Rate
BY CapacityFact DEF IInv, Amounts, Tick, Refilled, Capped, Capacity

(* A sleep just begun is truncated, never rounded up.                        *)
LEMMA SleepForFact ==
  ASSUME NEW missing \in Nat
  PROVE  SleepFor(missing) \in Nat
         /\ (SleepFor(missing) > MinSleep => SleepFor(missing) * Rate <= missing)
<1>1. Rate \in Nat \ {0} /\ MinSleep \in Nat
  BY RateLimiterAssumption
<1>2. missing \div Rate \in Nat /\ (missing \div Rate) * Rate <= missing
  BY <1>1
<1>3. QED  BY <1>1, <1>2 DEF SleepFor

LEMMA SleepersTick == IInv /\ Sleepers /\ Tick => Sleepers'
<1> SUFFICES ASSUME IInv, Sleepers, Tick PROVE Sleepers'
  OBVIOUS
<1>1. timer' = [c \in Callers |-> IF timer[c] > 0 THEN timer[c] - 1 ELSE 0]
      /\ UNCHANGED <<closed, pc>>
  BY DEF Tick
<1>2. timer' \in [Callers -> Nat]
  BY <1>1 DEF Sleepers
<1>3. ASSUME NEW c \in Callers, pc'[c] = "sleep", timer'[c] > MinSleep
      PROVE  timer'[c] * Rate <= Token - Refilled'
  <2>1. timer[c] \in Nat /\ MinSleep \in Nat \ {0} /\ Rate \in Nat /\ Token \in Nat
    BY RateLimiterAssumption DEF Sleepers
  <2>2. timer'[c] = timer[c] - 1 /\ timer[c] > MinSleep
    BY <1>1, <1>3, <2>1
  <2>3. timer[c] * Rate <= Token - Refilled
    BY <1>1, <1>3, <2>2 DEF Sleepers
  <2>4. timer'[c] * Rate = timer[c] * Rate - Rate
    BY <2>1, <2>2
  <2>5. Refilled \in Int /\ Refilled' \in Int /\ Refilled' <= Refilled + Rate
    BY TickRefills, TickStep, RefilledFact, RefilledFactNext, CapacityFact
  <2>6. timer[c] * Rate \in Int
    BY <2>1
  <2>7. QED  BY <2>1, <2>3, <2>4, <2>5, <2>6
<1>4. QED  BY <1>1, <1>2, <1>3 DEF Sleepers

LEMMA SleepersReserve ==
  ASSUME IInv, Sleepers, NEW c \in Callers, Reserve(c)
  PROVE  Sleepers'
<1>1. closed' = closed /\ pc' \in [Callers -> {"idle", "loop", "sleep"}]
  BY DEF Sleepers, Reserve, Return
<1>2. Refilled' <= Refilled /\ Refilled \in Int /\ Refilled' \in Int
  <2>1. Grant \/ Refuse \/ UNCHANGED <<tokens, accrued, debt>>
    BY DEF Reserve
  <2>2. IInv'
    BY <2>1, GrantRefuseStep DEF IInv, Amounts, NoTokenLost, Refilled, Capped, Capacity
  <2>3. QED  BY <2>1, <2>2, RefilledGrowsOnlyByTicks, RefilledFact, RefilledFactNext, CapacityFact
<1>3. \/ pc'[c] = "idle" /\ timer' = [timer EXCEPT ![c] = 0]
      \/ Refuse /\ timer' = [timer EXCEPT ![c] = SleepFor(Token - Refilled)]
  BY DEF Reserve, Return, Sleepers
<1>4. Refuse => Token - Refilled \in Nat /\ Refilled' = Refilled
  BY <1>2, CapacityFact DEF Refuse, IInv, Amounts, Refilled, Capped, Capacity
<1>5. timer' \in [Callers -> Nat]
  BY <1>3, <1>4, SleepForFact DEF Sleepers
<1>6. ASSUME NEW d \in Callers, pc'[d] = "sleep", timer'[d] > MinSleep
      PROVE  timer'[d] * Rate <= Token - Refilled'
  <2>1. CASE d = c
    <3>1. Refuse /\ timer'[c] = SleepFor(Token - Refilled)
      BY <1>3, <1>6, <2>1 DEF Sleepers
    <3>2. QED  BY <1>4, <1>6, <2>1, <3>1, SleepForFact
  <2>2. CASE d # c
    <3>1. timer'[d] = timer[d] /\ pc[d] = "sleep" /\ timer[d] \in Nat
      BY <1>3, <1>6, <2>2 DEF Sleepers, Reserve, Return
    <3>2. timer[d] * Rate <= Token - Refilled
      BY <1>6, <3>1 DEF Sleepers
    <3>3. timer[d] * Rate \in Int /\ Token \in Int
      BY <3>1, CapacityFact
    <3>4. QED  BY <1>2, <3>1, <3>2, <3>3
  <2>3. QED  BY <2>1, <2>2
<1>7. QED  BY <1>1, <1>5, <1>6 DEF Sleepers

(* Every other step leaves the sleepers' timers alone or ends a sleep.       *)
LEMMA SleepersOther ==
  ASSUME IInv, Sleepers, NEW c \in Callers,
         Allow(c) \/ Wait(c) \/ TimerFires(c) \/ Cancelled(c) \/ WokenByClose(c)
  PROVE  Sleepers'
<1>1. closed' = closed /\ closed' \in BOOLEAN
  BY DEF Sleepers, Allow, Wait, TimerFires, Cancelled, WokenByClose
<1>2. pc' \in [Callers -> {"idle", "loop", "sleep"}] /\ timer' \in [Callers -> Nat]
  BY DEF Sleepers, Allow, Wait, TimerFires, Cancelled, WokenByClose, Return
<1>3. Refilled' <= Refilled /\ Refilled \in Int /\ Refilled' \in Int
  <2>1. Grant \/ Refuse \/ UNCHANGED <<tokens, accrued, debt>>
    BY DEF Allow, Wait, TimerFires, Cancelled, WokenByClose
  <2>2. IInv'
    BY <2>1, GrantRefuseStep DEF IInv, Amounts, NoTokenLost, Refilled, Capped, Capacity
  <2>3. QED  BY <2>1, <2>2, RefilledGrowsOnlyByTicks, RefilledFact, RefilledFactNext, CapacityFact
<1>4. ASSUME NEW d \in Callers, pc'[d] = "sleep" PROVE pc[d] = "sleep" /\ timer'[d] = timer[d]
  BY <1>4 DEF Sleepers, Allow, Wait, TimerFires, Cancelled, WokenByClose, Return
<1>5. ASSUME NEW d \in Callers, pc'[d] = "sleep", timer'[d] > MinSleep
      PROVE  timer'[d] * Rate <= Token - Refilled'
  <2>1. timer[d] * Rate <= Token - Refilled /\ timer'[d] = timer[d]
    BY <1>4, <1>5 DEF Sleepers
  <2>2. timer[d] * Rate \in Int /\ Token \in Int
    BY CapacityFact DEF Sleepers
  <2>3. QED  BY <1>3, <2>1, <2>2
<1>6. QED  BY <1>1, <1>2, <1>5 DEF Sleepers

LEMMA SleepersSame ==
  IInv /\ Sleepers /\ (Close \/ UNCHANGED vars) => Sleepers'
<1> SUFFICES ASSUME IInv, Sleepers, Close \/ UNCHANGED vars PROVE Sleepers'
  OBVIOUS
<1>1. closed' \in BOOLEAN
  BY DEF Sleepers, Close, vars
<1>2. Refilled' = Refilled
  BY DEF Close, vars, Refilled, Capped, Capacity
<1>3. UNCHANGED <<pc, timer>>
  BY DEF Close, vars
<1>4. QED  BY <1>1, <1>2, <1>3 DEF Sleepers

LEMMA SleepersHold == Spec => []Sleepers
<1>1. Init => Sleepers
  <2> SUFFICES ASSUME Init PROVE Sleepers
    OBVIOUS
  <2>1. closed \in BOOLEAN
    BY DEF Init
  <2>2. pc = [c \in Callers |-> "idle"] /\ timer = [c \in Callers |-> 0]
    BY DEF Init
  <2>3. QED  BY <2>1, <2>2 DEF Sleepers
<1>2. IInv /\ Sleepers /\ [Next]_vars => Sleepers'
  BY SleepersTick, SleepersReserve, SleepersOther, SleepersSame DEF Next
<1>3. QED  BY <1>1, <1>2, IInvHolds, PTL DEF Spec

(* The limiter's fields and every waiter's place and timer keep their types. *)
THEOREM TypeCorrect == Spec => []TypeOK
<1>1. IInv /\ Sleepers => TypeOK
  BY DEF IInv, Amounts, Sleepers, TypeOK
<1>2. QED  BY <1>1, IInvHolds, SleepersHold, PTL

(* For every rate, burst and number of waiters: while the bucket holds a     *)
(* token nobody sleeps longer than the shortest sleep.                       *)
THEOREM NoSleepBesideATokenHolds == Spec => []NoSleepBesideAToken
<1>1. IInv /\ Sleepers => NoSleepBesideAToken
  <2> SUFFICES ASSUME IInv, Sleepers, NEW c \in Callers, pc[c] = "sleep", Refilled >= Token,
                      timer[c] > MinSleep
               PROVE  FALSE
    BY RateLimiterAssumption DEF NoSleepBesideAToken, Sleepers
  <2>1. timer[c] \in Nat /\ Rate \in Nat \ {0} /\ MinSleep \in Nat
    BY RateLimiterAssumption DEF Sleepers
  <2>2. timer[c] * Rate <= Token - Refilled
    BY DEF Sleepers
  <2>3. timer[c] * Rate > 0 /\ timer[c] * Rate \in Int
    BY <2>1
  <2>4. Token \in Int /\ Refilled \in Int
    BY CapacityFact, RefilledFact
  <2>5. QED  BY <2>2, <2>3, <2>4
<1>2. QED  BY <1>1, IInvHolds, SleepersHold, PTL
=============================================================================
