----------------------------- MODULE RateLimiter -----------------------------
(***************************************************************************)
(* The token bucket of pkg/ratelimit (Limiter): refilled lazily from the   *)
(* time elapsed, never by a goroutine of its own.  Wait is a loop that     *)
(* reserves, sleeps until the next token should be there and tries again,  *)
(* racing every other caller, the context and Close.                       *)
(*                                                                         *)
(* Amounts are whole units: a token is Token units and a tick of the clock *)
(* is worth Rate of them, so Rate / Token is ratePerN exactly (the float64 *)
(* arithmetic of the code is not modelled).  now - last is kept as what it *)
(* is worth, accrued, and stops at a full bucket: more changes nothing.    *)
(***************************************************************************)
EXTENDS Integers

CONSTANTS
  Callers,  \* goroutines using the limiter
  Rate,     \* units refilled in one tick
  Token,    \* units in one token
  Burst,    \* burst after NewLimiter's defaulting
  MinSleep  \* the shortest sleep, in ticks (one microsecond)

ASSUME RateLimiterAssumption ==
  /\ Rate \in Nat \ {0} /\ Token \in Nat \ {0}
  /\ Burst \in Nat \ {0} /\ MinSleep \in Nat \ {0}

VARIABLES
  tokens,   \* l.tokens, in units
  accrued,  \* what refill would add, in units
  closed,
  pc,       \* "idle", "loop" (top of Wait's loop) or "sleep"
  timer,    \* ticks left on each sleeper's timer
  debt      \* history: units handed out, draining at Rate

vars == <<tokens, accrued, closed, pc, timer, debt>>

Capacity == Burst * Token
Capped(x) == IF x > Capacity THEN Capacity ELSE x

(* The bucket starts full. *)
Init ==
  /\ tokens = Capacity
  /\ accrued = 0
  /\ closed = FALSE
  /\ pc = [c \in Callers |-> "idle"]
  /\ timer = [c \in Callers |-> 0]
  /\ debt = 0

-----------------------------------------------------------------------------
Refilled == Capped(tokens + accrued)

(* Mutant: a grant does not advance l.last. *)
GrantKeepsLast ==
  /\ ~closed
  /\ Refilled >= Token
  /\ tokens' = Refilled - Token
  /\ debt' = debt + Token
  /\ UNCHANGED accrued

Grant ==
  /\ ~closed
  /\ Refilled >= Token
  /\ tokens' = Refilled - Token
  /\ accrued' = 0
  /\ debt' = debt + Token

(* Mutant: the fraction of a token gained so far is dropped. *)
RefuseRoundsDown ==
  /\ ~closed
  /\ Refilled < Token
  /\ accrued' = 0
  /\ UNCHANGED <<tokens, debt>>

Refuse ==
  /\ ~closed
  /\ Refilled < Token
  /\ tokens' = Refilled
  /\ accrued' = 0
  /\ UNCHANGED debt

(* Allow; on a closed limiter it only returns false. *)
Allow(c) ==
  /\ pc[c] = "idle"
  /\ Grant \/ Refuse
  /\ UNCHANGED <<closed, pc, timer>>

Wait(c) ==
  /\ pc[c] = "idle"
  /\ pc' = [pc EXCEPT ![c] = "loop"]
  /\ UNCHANGED <<tokens, accrued, closed, timer, debt>>

Return(c) ==
  /\ pc' = [pc EXCEPT ![c] = "idle"]
  /\ timer' = [timer EXCEPT ![c] = 0]

(* Mutant: sleeps for a whole token, not for what is missing. *)
SleepForWholeToken(missing) == Token \div Rate

(* The duration is truncated, so a sleeper may wake a fraction of a tick     *)
(* before its token is complete.                                             *)
SleepFor(missing) ==
  IF missing \div Rate < MinSleep THEN MinSleep ELSE missing \div Rate

(* Mutant: a closed limiter is taken for an empty one. *)
ReserveIgnoresClose(c) ==
  /\ pc[c] = "loop"
  /\ \/ Grant /\ Return(c)
     \/ /\ Refuse \/ (closed /\ UNCHANGED <<tokens, accrued, debt>>)
        /\ pc' = [pc EXCEPT ![c] = "sleep"]
        /\ timer' = [timer EXCEPT ![c] = SleepFor(Token - Refilled)]
  /\ UNCHANGED closed

Reserve(c) ==
  /\ pc[c] = "loop"
  /\ \/ closed /\ Return(c) /\ UNCHANGED <<tokens, accrued, debt>>
     \/ Grant /\ Return(c)
     \/ /\ Refuse
        /\ pc' = [pc EXCEPT ![c] = "sleep"]
        /\ timer' = [timer EXCEPT ![c] = SleepFor(Token - Refilled)]
  /\ UNCHANGED closed

TimerFires(c) ==
  /\ pc[c] = "sleep" /\ timer[c] = 0
  /\ pc' = [pc EXCEPT ![c] = "loop"]
  /\ UNCHANGED <<tokens, accrued, closed, timer, debt>>

(* ctx.Err at the top of the loop, ctx.Done in the select.                   *)
Cancelled(c) ==
  /\ pc[c] # "idle"
  /\ Return(c)
  /\ UNCHANGED <<tokens, accrued, closed, debt>>

(* The select's closeCh case. *)
WokenByClose(c) ==
  /\ pc[c] = "sleep" /\ closed
  /\ Return(c)
  /\ UNCHANGED <<tokens, accrued, closed, debt>>

Close ==
  /\ ~closed
  /\ closed' = TRUE
  /\ UNCHANGED <<tokens, accrued, pc, timer, debt>>

Tick ==
  /\ accrued' = Capped(accrued + Rate)
  /\ timer' = [c \in Callers |-> IF timer[c] > 0 THEN timer[c] - 1 ELSE 0]
  /\ debt' = IF debt > Rate THEN debt - Rate ELSE 0
  /\ UNCHANGED <<tokens, closed, pc>>

Next ==
  \/ Tick \/ Close
  \/ \E c \in Callers : \/ Allow(c) \/ Wait(c) \/ Reserve(c) \/ TimerFires(c)
                        \/ Cancelled(c) \/ WokenByClose(c)

Spec == Init /\ [][Next]_vars

(* Time passes and a runnable goroutine runs. *)
FairSpec ==
  /\ Spec
  /\ WF_vars(Tick)
  /\ \A c \in Callers : WF_vars(Reserve(c) \/ TimerFires(c) \/ WokenByClose(c))

-----------------------------------------------------------------------------
TypeOK ==
  /\ tokens \in 0 .. Capacity
  /\ accrued \in 0 .. Capacity
  /\ closed \in BOOLEAN
  /\ pc \in [Callers -> {"idle", "loop", "sleep"}]
  /\ timer \in [Callers -> Nat]
  /\ debt \in Int

(* In no window of time are more than Burst + rate * window tokens handed    *)
(* out: the debt of a meter that charges every grant and drains at Rate      *)
(* never exceeds the burst.  Neither lazy refilling nor concurrent callers   *)
(* mint tokens.                                                              *)
WithinRate == debt <= Capacity

(* Nor are any lost: what the bucket holds or is owed is exactly the burst   *)
(* less the debt ("hız bozulmaz"), so a refusal means the rate really is     *)
(* exhausted.                                                                *)
NoTokenLost == Refilled = Capacity - debt

(* Nobody sleeps on beside an available token: once the bucket holds one,    *)
(* a sleeper wakes within the shortest sleep, whoever else came and went.    *)
NoSleepBesideAToken ==
  \A c \in Callers : pc[c] = "sleep" /\ Refilled >= Token => timer[c] <= MinSleep

(* As long as somebody is in Wait, tokens keep being handed out or waiters   *)
(* keep returning: truncated sleeps never make the waiters spin for ever.    *)
Throughput ==
  \A c \in Callers : <>[](pc[c] # "idle") => []<><<debt' > debt>>_vars

(* Close wakes everybody. *)
CloseFrees == \A c \in Callers : closed ~> (closed /\ pc[c] = "idle")
=============================================================================
