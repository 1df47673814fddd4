----------------------------- MODULE LoginLimit -----------------------------
(***************************************************************************)
(* cmd/crm/middleware, LoginRateLimit: a token bucket for each address,    *)
(* made on its first POST and swept when it has been idle.  Time is in     *)
(* ticks, tokens in units: a token is Window units and Attempts units are added *)
(* each tick.                                                              *)
(***************************************************************************)
EXTENDS Integers

CONSTANTS
  Addresses,
  Requests,  \* requests being served
  Attempts,       \* attempts per window, and the burst
  Window,
  Idle,      \* an entry idle for longer is swept
  None

VARIABLES
  byIP,      \* address -> [units, seen], or None; seen is the ticks since
  lastSweep, \* ticks since the last sweep
  holds,     \* the limiter a request has looked up: [ip, closed], or None
  unswept,   \* history: the bucket the address would have without sweeping
  stalled    \* history: a request took its token long after its look-up

vars == <<byIP, lastSweep, holds, unswept, stalled>>

Full == Attempts * Window

Init ==
  /\ byIP = [a \in Addresses |-> None] /\ lastSweep = 0
  /\ holds = [r \in Requests |-> None]
  /\ unswept = [a \in Addresses |-> Full]
  /\ stalled = FALSE

-----------------------------------------------------------------------------
(* Mutant: the sweep forgets everybody. *)
SweptAll == IF lastSweep > Idle THEN {a \in Addresses : byIP[a] # None} ELSE {}

Swept == IF lastSweep > Idle THEN {a \in Addresses : byIP[a] # None /\ byIP[a].seen > Idle} ELSE {}

Fresh == [units |-> Full, seen |-> 0]

(* get, under mu: the sweep closes limiters others may hold; then the entry  *)
(* of the address, a new one if there is none (any more).                    *)
Get(r, ip) ==
  /\ holds[r] = None
  /\ LET kept == [a \in Addresses |-> IF a \in Swept THEN None ELSE byIP[a]] IN
     byIP' = [kept EXCEPT ![ip] = IF @ = None THEN Fresh ELSE [@ EXCEPT !.seen = 0]]
  /\ lastSweep' = IF lastSweep > Idle THEN 0 ELSE lastSweep
  /\ holds' = [q \in Requests |->
                 IF q = r THEN [ip |-> ip, closed |-> FALSE]
                 ELSE IF holds[q] # None /\ holds[q].ip \in Swept THEN [holds[q] EXCEPT !.closed = TRUE]
                 ELSE holds[q]]
  /\ UNCHANGED <<unswept, stalled>>

Done(r) == holds' = [holds EXCEPT ![r] = None]

(* Allow takes a token; a limiter that was closed meanwhile refuses.         *)
HasToken(r) == ~holds[r].closed /\ byIP[holds[r].ip].units >= Window

Granted(r) ==
  /\ holds[r] # None /\ HasToken(r)
  /\ byIP' = [byIP EXCEPT ![holds[r].ip].units = @ - Window]
  /\ unswept' = [unswept EXCEPT ![holds[r].ip] = @ - Window]
  /\ stalled' = (stalled \/ byIP[holds[r].ip].seen + Window > Idle)
  /\ Done(r)
  /\ UNCHANGED lastSweep

Refused(r) ==
  /\ holds[r] # None /\ ~HasToken(r)
  /\ Done(r)
  /\ UNCHANGED <<byIP, lastSweep, unswept, stalled>>

Refill(units) == IF units + Attempts < Full THEN units + Attempts ELSE Full
Later(t) == IF t > Idle THEN t ELSE t + 1

Tick ==
  /\ lastSweep' = Later(lastSweep)
  /\ byIP' = [a \in Addresses |-> IF byIP[a] = None THEN None
                                  ELSE [units |-> Refill(byIP[a].units), seen |-> Later(byIP[a].seen)]]
  /\ unswept' = [a \in Addresses |-> Refill(unswept[a])]
  /\ UNCHANGED <<holds, stalled>>

Next ==
  \/ \E r \in Requests : (\E ip \in Addresses : Get(r, ip)) \/ Granted(r) \/ Refused(r)
  \/ Tick

Spec == Init /\ [][Next]_vars

-----------------------------------------------------------------------------
(* The sweep gives nobody an attempt more or less: each address has just the *)
(* tokens of a bucket that is never thrown away.  (A window longer than the  *)
(* idle time is the exception, for a swept address starts anew with a full   *)
(* bucket, and so is a request that reaches Allow later than the difference  *)
(* of both.)                                                                 *)
SweepGivesNothing ==
  \/ Window > Idle \/ stalled
  \/ \A a \in Addresses : (IF byIP[a] = None THEN Full ELSE byIP[a].units) = unswept[a]
=============================================================================
