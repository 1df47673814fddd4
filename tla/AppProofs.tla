------------------------------ MODULE AppProofs ------------------------------
(***************************************************************************)
(* Proofs about the parts of App, for any callers, emitters, objects and   *)
(* durations.  Each part has an inductive invariant of its own: none of    *)
(* the properties is inductive as it stands, for they speak of the ends of *)
(* calls, and say nothing of those in between.  A step of App is a step of *)
(* one part, and leaves the others' variables alone (the lemmas ...Run).   *)
(***************************************************************************)
EXTENDS App, Sequences, FiniteSetTheorems, WellFoundedInduction, SequenceTheorems, TLAPS

-----------------------------------------------------------------------------
(* The bus.  TopicDelivers says nothing of a goroutine that has found a      *)
(* Signal and not yet subscribed; what each user's look-up means later       *)
(* (LookupMeans) does, given that nobody is a member of a Signal he does not *)
(* hold.                                                                     *)
(* A Signal held and not removed is the topic's; one removed is not, and     *)
(* never becomes it again while it is held.                                  *)
LookupMeans(u) ==
  /\ removal[u] = "no" /\ sig[u] # None => sig[u] = topic
  /\ removal[u] = "no" /\ pc[u] = "in" => u \in members[sig[u]]
  /\ removal[u] # "no" => sig[u] # None /\ sig[u] # topic
  /\ removal[u] = "after" => pc[u] = "in" /\ \A s \in Signals : u \notin members[s]
  /\ \A s \in Signals : u \in members[s] => pc[u] = "in" /\ sig[u] = s

IInv == TypeOK /\ \A u \in Users : LookupMeans(u)

LEMMA InitIInv == Init => IInv
BY SignalBusAssumption DEF Init, IInv, TypeOK, LookupMeans

LEMMA LookupStep == ASSUME IInv, NEW u \in Users, Lookup(u) PROVE IInv'
<1>1. TypeOK'
  BY DEF IInv, TypeOK, Lookup, Goto
<1>2. ASSUME NEW v \in Users PROVE LookupMeans(v)'
  BY DEF IInv, TypeOK, Lookup, Goto, LookupMeans
<1>3. QED  BY <1>1, <1>2 DEF IInv

(* The Signal made for the topic is new to everybody, so no removal that a   *)
(* user remembers can be of it.                                              *)
LEMMA CreateOrFindStep == ASSUME IInv, NEW u \in Users, CreateOrFind(u) PROVE IInv'
<1>1. CASE topic # None /\ sig' = [sig EXCEPT ![u] = topic] /\ UNCHANGED <<topic, members>>
  <2>1. TypeOK'
    BY <1>1 DEF IInv, TypeOK, CreateOrFind, Goto
  <2>2. ASSUME NEW v \in Users PROVE LookupMeans(v)'
    BY <1>1 DEF IInv, TypeOK, CreateOrFind, Goto, LookupMeans
  <2>3. QED  BY <2>1, <2>2 DEF IInv
<1>2. CASE topic = None /\ \E s \in Signals : /\ Unreachable(s)
                                              /\ topic' = s
                                              /\ members' = [members EXCEPT ![s] = {}]
                                              /\ sig' = [sig EXCEPT ![u] = s]
  <2> PICK s \in Signals : /\ Unreachable(s)
                           /\ topic' = s
                           /\ members' = [members EXCEPT ![s] = {}]
                           /\ sig' = [sig EXCEPT ![u] = s]
    BY <1>2
  <2>1. TypeOK'
    BY SignalBusAssumption DEF IInv, TypeOK, CreateOrFind, Goto
  <2>2. \A v \in Users : v # u => sig'[v] = sig[v] /\ sig[v] # s
    BY DEF IInv, TypeOK, Unreachable
  <2>3. ASSUME NEW v \in Users PROVE LookupMeans(v)'
    BY <1>2, <2>1, <2>2, SignalBusAssumption
       DEF IInv, TypeOK, CreateOrFind, Goto, LookupMeans
  <2>4. QED  BY <2>1, <2>3 DEF IInv
<1>3. QED  BY <1>1, <1>2 DEF CreateOrFind

LEMMA SubscribeStep == ASSUME IInv, NEW u \in Users, Subscribe(u) PROVE IInv'
<1>1. sig[u] \in Signals
  BY DEF IInv, TypeOK, Subscribe
<1>2. TypeOK'
  BY <1>1 DEF IInv, TypeOK, Subscribe, Goto
<1>3. ASSUME NEW v \in Users PROVE LookupMeans(v)'
  BY <1>1 DEF IInv, TypeOK, Subscribe, Goto, LookupMeans
<1>4. QED  BY <1>2, <1>3 DEF IInv

LEMMA UnsubscribeStep == ASSUME IInv, NEW u \in Users, Unsubscribe(u) PROVE IInv'
<1>1. sig[u] \in Signals
  BY DEF IInv, TypeOK, Unsubscribe
<1>2. TypeOK'
  BY <1>1 DEF IInv, TypeOK, Unsubscribe, Goto
<1>3. ASSUME NEW v \in Users PROVE LookupMeans(v)'
  BY <1>1 DEF IInv, TypeOK, Unsubscribe, Goto, LookupMeans
<1>4. QED  BY <1>2, <1>3 DEF IInv

LEMMA RemoveTopicStep == IInv /\ RemoveTopic => IInv'
<1> SUFFICES ASSUME IInv, RemoveTopic PROVE IInv'
  OBVIOUS
<1>1. topic \in Signals
  BY DEF IInv, TypeOK, RemoveTopic
<1>2. TypeOK'
  BY <1>1 DEF IInv, TypeOK, RemoveTopic
<1>3. ASSUME NEW v \in Users PROVE LookupMeans(v)'
  BY <1>1, SignalBusAssumption DEF IInv, TypeOK, RemoveTopic, LookupMeans
<1>4. QED  BY <1>2, <1>3 DEF IInv

LEMMA EmitStep == ASSUME IInv, NEW e \in Emitters, EmitLookup(e) \/ EmitSignal(e) PROVE IInv'
<1>1. TypeOK'
  BY DEF IInv, TypeOK, EmitLookup, EmitSignal
<1>2. ASSUME NEW v \in Users PROVE LookupMeans(v)'
  BY DEF IInv, TypeOK, EmitLookup, EmitSignal, LookupMeans
<1>3. QED  BY <1>1, <1>2 DEF IInv

LEMMA NextIInv == IInv /\ [Next]_vars => IInv'
<1> SUFFICES ASSUME IInv, [Next]_vars PROVE IInv'
  OBVIOUS
<1>1. CASE UNCHANGED vars
  <2>1. TypeOK'
    BY <1>1 DEF IInv, TypeOK, vars
  <2>2. ASSUME NEW v \in Users PROVE LookupMeans(v)'
    BY <1>1 DEF IInv, LookupMeans, vars
  <2>3. QED  BY <2>1, <2>2 DEF IInv
<1>2. QED
  BY <1>1, LookupStep, CreateOrFindStep, SubscribeStep, UnsubscribeStep, RemoveTopicStep,
     EmitStep DEF Next

LEMMA BusRuns == AppSpec => Init /\ [][Next]_vars
<1>1. AppInit => Init
  BY DEF AppInit
<1>2. [AppNext]_appVars => [Next]_vars
  BY DEF AppNext, Bus, Emitting, Policies, Seeding, Menus, Logins, Sessions, Requests, Routing, appVars
<1>3. QED  BY <1>1, <1>2, PTL DEF AppSpec

LEMMA Invariance == AppSpec => []IInv
BY InitIInv, NextIInv, BusRuns, PTL

(* The topic, the Signals and every user's place keep their types.           *)
THEOREM TypeCorrect == AppSpec => []TypeOK
<1>1. IInv => TypeOK
  BY DEF IInv
<1>2. QED  BY <1>1, Invariance, PTL

(* However Subscribe, Unsubscribe, Emit and RemoveTopic interleave: whoever  *)
(* subscribed hears the topic until he or it is removed, and not afterwards. *)
THEOREM TopicDeliversHolds == AppSpec => []TopicDelivers
<1>1. IInv => TopicDelivers
  <2> SUFFICES ASSUME IInv PROVE TopicDelivers
    OBVIOUS
  <2>1. SubscribersReachable
    BY SignalBusAssumption DEF IInv, TypeOK, LookupMeans, SubscribersReachable
  <2>2. RemovedHearNothing
    BY Zenon DEF IInv, TypeOK, LookupMeans, RemovedHearNothing
  <2>3. QED  BY <2>1, <2>2 DEF TopicDelivers
<1>2. QED  BY <1>1, Invariance, PTL

-----------------------------------------------------------------------------
(* The login limit.  An entry that has been idle for n ticks has been filled *)
(* for as long: counted from the latest moment at which it may have lost a   *)
(* token, it has Attempts units a tick, and so all of them when it is swept. *)
Entry == [units : 0 .. L!Full, seen : Nat]

LoginTypes ==
  /\ byIP \in [Addresses -> Entry \cup {None}]
  /\ holds \in [Callers -> [ip : Addresses, closed : BOOLEAN] \cup {None}]
  /\ unswept \in [Addresses -> Int]
  /\ stalled \in BOOLEAN

(* A limiter that is held and not closed is in the table.                    *)
HeldAreKept ==
  \A r \in Callers : holds[r] # None /\ holds[r].closed = FALSE => byIP[holds[r].ip] # None

Budget(a) == IF byIP[a] = None THEN L!Full ELSE byIP[a].units

FilledSince(e) == e.units = L!Full \/ e.units >= (e.seen - IdleTime + Window) * Attempts

BudgetsKept ==
  Window <= IdleTime /\ stalled = FALSE =>
    \A a \in Addresses : Budget(a) = unswept[a] /\ (byIP[a] # None => FilledSince(byIP[a]))

LoginInv == LoginTypes /\ HeldAreKept /\ BudgetsKept

LEMMA Products ==
  ASSUME NEW k \in Int, NEW j \in Int, NEW a \in Nat
  PROVE  /\ k * a \in Int /\ (k + 1) * a = k * a + a
         /\ k <= j => k * a <= j * a
OBVIOUS

LEMMA Units == L!Full \in Nat /\ L!Full >= Window /\ Attempts \in Nat \ {0} /\ Window \in Nat \ {0}
<1>1. \A x, y \in Nat \ {0} : x * y \in Nat /\ x * y >= y
  OBVIOUS
<1>2. QED  BY <1>1, LoginAssumption DEF L!Full

LEMMA LoginInit == L!Init => LoginInv
<1> SUFFICES ASSUME L!Init PROVE LoginInv
  OBVIOUS
<1>1. stalled \in BOOLEAN
  BY DEF L!Init
<1>2. LoginTypes
  BY <1>1, Units DEF L!Init, LoginTypes
<1>3. QED  BY <1>2 DEF L!Init, LoginInv, HeldAreKept, BudgetsKept, Budget

(* What is swept is full.                                                    *)
LEMMA SweptAreFull ==
  ASSUME LoginInv, Window <= IdleTime, stalled = FALSE, NEW a \in L!Swept
  PROVE  a \in Addresses /\ byIP[a].units = L!Full
<1>1. a \in Addresses /\ byIP[a] \in Entry /\ byIP[a].seen > IdleTime
  BY DEF L!Swept, LoginInv, LoginTypes
<1>2. FilledSince(byIP[a])
  BY <1>1, LoginAssumption DEF LoginInv, BudgetsKept, L!Swept
<1>3. byIP[a].units \in 0 .. L!Full /\ byIP[a].seen \in Nat
  BY <1>1 DEF Entry
<1>4. ASSUME byIP[a].units >= (byIP[a].seen - IdleTime + Window) * Attempts
      PROVE  byIP[a].units = L!Full
  <2> DEFINE k == byIP[a].seen - IdleTime + Window
  <2>1. k \in Int /\ Window <= k /\ Window \in Int
    BY <1>1, <1>3, LoginAssumption
  <2> HIDE DEF k
  <2>2. Window * Attempts <= k * Attempts /\ Window * Attempts \in Int /\ k * Attempts \in Int
    BY <2>1, Products, LoginAssumption
  <2>3. L!Full = Window * Attempts
    BY LoginAssumption DEF L!Full
  <2>4. QED  BY <1>3, <1>4, <2>2, <2>3, Units DEF k
<1>5. QED  BY <1>1, <1>2, <1>4 DEF FilledSince

LEMMA GetStep == ASSUME LoginInv, NEW r \in Callers, NEW ip \in Addresses, L!Get(r, ip) PROVE LoginInv'
<1> DEFINE kept == [a \in Addresses |-> IF a \in L!Swept THEN None ELSE byIP[a]]
<1>1. /\ holds[r] = None /\ UNCHANGED <<unswept, stalled>>
      /\ byIP' = [kept EXCEPT ![ip] = IF @ = None THEN L!Fresh ELSE [@ EXCEPT !.seen = 0]]
      /\ holds' = [q \in Callers |->
                    IF q = r THEN [ip |-> ip, closed |-> FALSE]
                    ELSE IF holds[q] # None /\ holds[q].ip \in L!Swept THEN [holds[q] EXCEPT !.closed = TRUE]
                    ELSE holds[q]]
  BY DEF L!Get
<1>2. L!Fresh \in Entry /\ L!Fresh.units = L!Full /\ L!Fresh # None
  BY Units, LoginAssumption DEF L!Fresh, Entry
<1>3. \A a \in Addresses : kept[a] \in Entry \cup {None} /\ (kept[a] # None => kept[a] = byIP[a])
  BY DEF LoginInv, LoginTypes
<1>4. /\ byIP' \in [Addresses -> Entry \cup {None}] /\ byIP'[ip] \in Entry
      /\ byIP'[ip].units = IF kept[ip] = None THEN L!Full ELSE byIP[ip].units
      /\ byIP'[ip].seen = 0
      /\ \A a \in Addresses : a # ip => byIP'[a] = kept[a]
  BY <1>1, <1>2, <1>3 DEF Entry, L!Fresh
<1> HIDE DEF kept
<1>5. \A a \in Addresses : kept[a] = IF a \in L!Swept THEN None ELSE byIP[a]
  BY DEF kept
<1>6. \A q \in Callers : IF q = r THEN holds'[q] = [ip |-> ip, closed |-> FALSE]
                         ELSE \/ holds'[q].closed = TRUE
                              \/ holds'[q] = holds[q] /\ (holds[q] = None \/ holds[q].ip \notin L!Swept)
  BY <1>1, LoginAssumption DEF LoginInv, LoginTypes
<1>7. holds' \in [Callers -> [ip : Addresses, closed : BOOLEAN] \cup {None}]
  BY <1>1 DEF LoginInv, LoginTypes
<1>8. LoginTypes'
  BY <1>1, <1>4, <1>7 DEF LoginInv, LoginTypes, Entry, L!Full
<1>9. None \notin Entry
  BY LoginAssumption, Units DEF Entry
<1>10. HeldAreKept'
  <2> SUFFICES ASSUME NEW q \in Callers, holds'[q] # None, holds'[q].closed = FALSE
               PROVE  byIP'[holds'[q].ip] # None
    BY DEF HeldAreKept
  <2>1. CASE q = r
    BY <1>4, <1>6, <1>9, <2>1
  <2>2. CASE q # r
    <3>1. holds'[q] = holds[q] /\ holds[q].ip \notin L!Swept
      BY <1>6, <2>2
    <3>0. holds[q] \in [ip : Addresses, closed : BOOLEAN] \cup {None}
      BY DEF LoginInv, LoginTypes
    <3>5. holds[q].ip \in Addresses
      BY <3>0, <3>1
    <3>2. byIP[holds[q].ip] # None
      BY <3>1 DEF LoginInv, HeldAreKept
    <3>3. kept[holds[q].ip] = byIP[holds[q].ip]
      BY <1>5, <3>1, <3>5
    <3>4. QED  BY <1>4, <1>9, <3>1, <3>2, <3>3, <3>5
  <2>3. QED  BY <2>1, <2>2
<1>11. ASSUME Window <= IdleTime, stalled = FALSE, NEW a \in Addresses
       PROVE  Budget(a)' = unswept'[a] /\ (byIP'[a] # None => FilledSince(byIP'[a]))
  <2>1. Budget(a) = unswept[a] /\ (byIP[a] # None => FilledSince(byIP[a]))
    BY <1>11 DEF LoginInv, BudgetsKept
  <2>2. (IF kept[a] = None THEN L!Full ELSE byIP[a].units) = unswept[a]
    BY <1>5, <1>11, <2>1, SweptAreFull DEF Budget
  <2>3. Budget(a)' = unswept'[a]
    BY <1>1, <1>3, <1>4, <1>9, <2>2 DEF Budget, L!Full
  <2>4. CASE a # ip
    BY <1>4, <1>3, <2>1, <2>3, <2>4
  <2>5. CASE a = ip
    <3>1. byIP'[a].units \in Nat /\ byIP'[a].seen = 0
      BY <1>4, <2>5, Units DEF Entry
    <3>2. 0 - IdleTime + Window \in Int /\ 0 - IdleTime + Window <= 0
      BY <1>11, LoginAssumption
    <3>3. (0 - IdleTime + Window) * Attempts <= 0 * Attempts /\ (0 - IdleTime + Window) * Attempts \in Int
      BY <3>2, Products, LoginAssumption
    <3>4. byIP'[a].units >= (byIP'[a].seen - IdleTime + Window) * Attempts
      BY <3>1, <3>3, LoginAssumption
    <3>5. QED  BY <2>3, <3>4 DEF FilledSince
  <2>6. QED  BY <2>4, <2>5
<1>12. BudgetsKept'
  BY <1>1, <1>11 DEF BudgetsKept
<1>13. QED  BY <1>8, <1>10, <1>12 DEF LoginInv

LEMMA GrantedStep == ASSUME LoginInv, NEW r \in Callers, L!Granted(r) PROVE LoginInv'
<1> DEFINE ip == holds[r].ip
<1>1. /\ holds[r] # None /\ holds[r].closed = FALSE /\ ip \in Addresses /\ byIP[ip] # None
  BY DEF L!Granted, L!HasToken, LoginInv, LoginTypes, HeldAreKept
<1>2. byIP[ip] \in Entry /\ byIP[ip].units >= Window
  BY <1>1 DEF L!Granted, L!HasToken, LoginInv, LoginTypes
<1>3. /\ byIP' = [byIP EXCEPT ![ip].units = @ - Window]
      /\ unswept' = [unswept EXCEPT ![ip] = @ - Window]
      /\ holds' = [holds EXCEPT ![r] = None]
  BY DEF L!Granted, L!Done
<1>4. stalled' \in BOOLEAN
  BY DEF L!Granted
<1>5. stalled' = FALSE => stalled = FALSE /\ ~(byIP[ip].seen + Window > IdleTime)
  BY DEF L!Granted, LoginInv, LoginTypes
<1> HIDE DEF ip
<1>6. /\ byIP'[ip] = [units |-> byIP[ip].units - Window, seen |-> byIP[ip].seen]
      /\ byIP'[ip] \in Entry
      /\ \A a \in Addresses : a # ip => byIP'[a] = byIP[a] /\ unswept'[a] = unswept[a]
      /\ unswept'[ip] = unswept[ip] - Window
      /\ byIP' \in [Addresses -> Entry \cup {None}]
  BY <1>1, <1>2, <1>3, Units DEF LoginInv, LoginTypes, Entry
<1>7. LoginTypes'
  BY <1>1, <1>3, <1>4, <1>6, Units DEF LoginInv, LoginTypes, Entry, L!Full
<1>8. None \notin Entry
  BY LoginAssumption, Units DEF Entry
<1>9. HeldAreKept'
  BY <1>3, <1>6, <1>8 DEF LoginInv, LoginTypes, HeldAreKept
<1>10. ASSUME Window <= IdleTime, stalled' = FALSE, NEW a \in Addresses
       PROVE  Budget(a)' = unswept'[a] /\ (byIP'[a] # None => FilledSince(byIP'[a]))
  <2>1. Budget(a) = unswept[a] /\ (byIP[a] # None => FilledSince(byIP[a]))
    BY <1>5, <1>10 DEF LoginInv, BudgetsKept
  <2>2. CASE a # ip
    BY <1>6, <2>1, <2>2 DEF Budget, L!Full
  <2>3. CASE a = ip
    <3>1. Budget(a)' = unswept'[a]
      BY <1>1, <1>2, <1>6, <1>8, <2>1, <2>3 DEF Budget
    <3>2. byIP[ip].seen \in Nat /\ byIP[ip].units \in Nat
      BY <1>2, Units DEF Entry
    <3> DEFINE k == byIP[ip].seen - IdleTime + Window
    <3>3. k \in Int /\ k <= 0
      BY <1>5, <1>10, <3>2, LoginAssumption
    <3>4. k * Attempts <= 0 * Attempts /\ k * Attempts \in Int
      BY <3>3, Products, LoginAssumption
    <3>5. byIP'[a].units \in Nat /\ byIP'[a].seen = byIP[ip].seen
      BY <1>6, <2>3, Units DEF Entry
    <3>6. byIP'[a].units >= (byIP'[a].seen - IdleTime + Window) * Attempts
      BY <3>4, <3>5, LoginAssumption
    <3>7. QED  BY <3>1, <3>6 DEF FilledSince
  <2>4. QED  BY <2>2, <2>3
<1>11. BudgetsKept'
  BY <1>10 DEF BudgetsKept
<1>12. QED  BY <1>7, <1>9, <1>11 DEF LoginInv

LEMMA RefusedStep == ASSUME LoginInv, NEW r \in Callers, L!Refused(r) PROVE LoginInv'
<1>1. holds' = [holds EXCEPT ![r] = None] /\ UNCHANGED <<byIP, unswept, stalled>>
  BY DEF L!Refused, L!Done
<1>2. QED
  BY <1>1, LoginAssumption DEF LoginInv, LoginTypes, HeldAreKept, BudgetsKept, Budget, Entry, L!Full

(* A tick fills every bucket alike, up to the same brim.                     *)
LEMMA Refilled ==
  ASSUME NEW u \in 0 .. L!Full
  PROVE  /\ L!Refill(u) \in 0 .. L!Full
         /\ L!Refill(u) = L!Full \/ L!Refill(u) = u + Attempts
         /\ u = L!Full => L!Refill(u) = L!Full
BY Units DEF L!Refill

LEMMA LaterIs == ASSUME NEW t \in Nat PROVE L!Later(t) \in {t, t + 1} /\ L!Later(t) \in Nat
BY DEF L!Later

LEMMA TickStep == LoginInv /\ L!Tick => LoginInv'
<1> SUFFICES ASSUME LoginInv, L!Tick PROVE LoginInv'
  OBVIOUS
<1>1. /\ byIP' = [a \in Addresses |-> IF byIP[a] = None THEN None
                     ELSE [units |-> L!Refill(byIP[a].units), seen |-> L!Later(byIP[a].seen)]]
      /\ unswept' = [a \in Addresses |-> L!Refill(unswept[a])]
      /\ UNCHANGED <<holds, stalled>>
  BY DEF L!Tick
<1>4. \A a \in Addresses :
        /\ byIP[a] = None => byIP'[a] = None
        /\ byIP[a] # None => /\ byIP[a] \in Entry /\ byIP'[a] \in Entry
                            /\ byIP'[a].units = L!Refill(byIP[a].units)
                            /\ byIP'[a].seen \in {byIP[a].seen, byIP[a].seen + 1}
  <2> TAKE a \in Addresses
  <2>1. CASE byIP[a] = None
    BY <1>1, <2>1
  <2>2. CASE byIP[a] # None
    <3>1. byIP[a] \in Entry /\ byIP[a].units \in 0 .. L!Full /\ byIP[a].seen \in Nat
      BY <2>2 DEF LoginInv, LoginTypes, Entry
    <3>2. L!Refill(byIP[a].units) \in 0 .. L!Full /\ L!Later(byIP[a].seen) \in {byIP[a].seen, byIP[a].seen + 1}
      BY <3>1, Refilled, LaterIs
    <3>3. byIP'[a] = [units |-> L!Refill(byIP[a].units), seen |-> L!Later(byIP[a].seen)]
      BY <1>1, <2>2
    <3>4. QED  BY <2>2, <3>1, <3>2, <3>3 DEF Entry
  <2>3. QED  BY <2>1, <2>2
<1>5. None \notin Entry
  BY LoginAssumption, Units DEF Entry
<1>6. \A u \in Int : L!Refill(u) \in Int
  BY Units DEF L!Refill
<1>7. LoginTypes'
  BY <1>1, <1>4, <1>6 DEF LoginInv, LoginTypes, Entry, L!Full
<1>8. HeldAreKept'
  BY <1>1, <1>4, <1>5 DEF LoginInv, LoginTypes, HeldAreKept
<1>9. ASSUME Window <= IdleTime, stalled = FALSE, NEW a \in Addresses
      PROVE  Budget(a)' = unswept'[a] /\ (byIP'[a] # None => FilledSince(byIP'[a]))
  <2>1. Budget(a) = unswept[a] /\ (byIP[a] # None => FilledSince(byIP[a]))
    BY <1>9 DEF LoginInv, BudgetsKept
  <2>2. unswept'[a] = L!Refill(unswept[a])
    BY <1>1
  <2>3. CASE byIP[a] = None
    <3>1. L!Refill(L!Full) = L!Full
      BY Units DEF L!Refill
    <3>2. QED  BY <1>4, <2>1, <2>2, <2>3, <3>1 DEF Budget, L!Full
  <2>4. CASE byIP[a] # None
    <3>1. Budget(a)' = unswept'[a]
      BY <1>4, <1>5, <2>1, <2>2, <2>4 DEF Budget
    <3>2. byIP[a].units \in 0 .. L!Full /\ byIP[a].seen \in Nat /\ byIP'[a].seen \in {byIP[a].seen, byIP[a].seen + 1}
          /\ byIP'[a].units = L!Refill(byIP[a].units)
      BY <1>4, <2>4 DEF Entry
    <3> DEFINE k == byIP[a].seen - IdleTime + Window
               j == byIP'[a].seen - IdleTime + Window
    <3>3. k \in Int /\ j \in Int /\ j <= k + 1 /\ k + 1 \in Int
      BY <3>2, LoginAssumption
    <3> HIDE DEF k, j
    <3>4. /\ j * Attempts <= (k + 1) * Attempts /\ (k + 1) * Attempts = k * Attempts + Attempts
          /\ k * Attempts \in Int /\ j * Attempts \in Int
      BY <3>3, Products, LoginAssumption
    <3>5. byIP[a].units = L!Full \/ byIP[a].units >= k * Attempts
      BY <2>1, <2>4 DEF FilledSince, k
    <3>6. byIP'[a].units = L!Full \/ byIP'[a].units >= j * Attempts
      <4>1. CASE byIP[a].units = L!Full
        BY <3>2, <4>1, Refilled
      <4>2. CASE byIP[a].units # L!Full /\ byIP'[a].units # L!Full
        <5>1. byIP'[a].units = byIP[a].units + Attempts
          BY <3>2, <4>2, Refilled
        <5>2. byIP[a].units \in Nat /\ byIP[a].units >= k * Attempts
          BY <3>2, <3>5, <4>2, Units
        <5>3. QED  BY <3>4, <5>1, <5>2, Units
      <4>3. QED  BY <4>1, <4>2
    <3>7. QED  BY <3>1, <3>6 DEF FilledSince, j, L!Full
  <2>5. QED  BY <2>3, <2>4
<1>10. BudgetsKept'
  BY <1>1, <1>9 DEF BudgetsKept
<1>11. QED  BY <1>7, <1>8, <1>10 DEF LoginInv

LEMMA LoginStep == LoginInv /\ [L!Next]_(L!vars) => LoginInv'
<1>1. LoginInv /\ UNCHANGED L!vars => LoginInv'
  BY DEF L!vars, LoginInv, LoginTypes, HeldAreKept, BudgetsKept, Budget, Entry, L!Full
<1>2. QED  BY <1>1, GetStep, GrantedStep, RefusedStep, TickStep DEF L!Next

LEMMA LoginsRun == AppSpec => L!Init /\ [][L!Next]_(L!vars)
<1>1. AppInit => L!Init
  BY DEF AppInit
<1>2. [AppNext]_appVars => [L!Next]_(L!vars)
  BY DEF AppNext, Bus, Emitting, Policies, Seeding, Menus, Logins, Sessions, Requests, Routing, appVars, loginVars, L!vars
<1>3. QED  BY <1>1, <1>2, PTL DEF AppSpec

(* Sweeping changes no address's budget, for any addresses, requests, limit  *)
(* and windows no longer than the idle time.                                 *)
THEOREM SweepGivesNothingHolds == AppSpec => []SweepGivesNothing
<1>1. LoginInv => SweepGivesNothing
  <2> SUFFICES ASSUME LoginInv PROVE SweepGivesNothing
    OBVIOUS
  <2>1. stalled = TRUE \/ stalled = FALSE
    BY DEF LoginInv, LoginTypes
  <2>2. CASE Window <= IdleTime /\ stalled = FALSE
    BY <2>2 DEF LoginInv, BudgetsKept, Budget, SweepGivesNothing, L!SweepGivesNothing
  <2>3. CASE stalled = TRUE \/ ~(Window <= IdleTime)
    BY <2>3, LoginAssumption DEF SweepGivesNothing, L!SweepGivesNothing
  <2>4. QED  BY <2>1, <2>2, <2>3
<1>2. QED  BY <1>1, LoginInit, LoginStep, LoginsRun, PTL

-----------------------------------------------------------------------------
(* The menu.  What is stored was read during a load, so it is older than its *)
(* moment of storing by at most one; and a caller that has stored serves     *)
(* within the time its own load may take.                                    *)
MenuTypes ==
  /\ items \in Nat \cup {None} /\ loaded \in Nat
  /\ menuAt \in [Callers -> {"idle", "loading", "storing", "stored"}]
  /\ seen \in [Callers -> Nat \cup {None}] /\ read \in [Callers -> Nat \cup {None}]
  /\ took \in [Callers -> 0 .. LoadTime]

ReadsAreRecent ==
  \A c \in Callers : menuAt[c] = "storing" => read[c] # None /\ read[c] <= took[c]

StoredIsFresh ==
  \A c \in Callers : menuAt[c] = "stored" => items # None /\ loaded <= took[c]

ItemsAreRecent == items # None => items <= loaded + LoadTime /\ items <= M!MaxAge

MenuInv == MenuTypes /\ ReadsAreRecent /\ StoredIsFresh /\ ItemsAreRecent /\ M!MenuFreshEnough

LEMMA MenuInit == M!Init => MenuInv
BY MenuAssumption
   DEF M!Init, MenuInv, MenuTypes, ReadsAreRecent, StoredIsFresh, ItemsAreRecent, M!MenuFreshEnough

LEMMA OlderIs ==
  ASSUME NEW a \in Nat \cup {None}
  PROVE  /\ M!Older(a) \in Nat \cup {None} /\ (M!Older(a) = None <=> a = None)
         /\ a # None => M!Older(a) \in {a, a + 1} /\ (a <= M!MaxAge => M!Older(a) <= M!MaxAge)
                     /\ (M!Older(a) = a => a = M!MaxAge)
BY MenuAssumption DEF M!Older, M!MaxAge

(* What a caller's step does to the menu and to its own load.                *)
LEMMA MenuHit == ASSUME MenuInv, NEW c \in Callers, M!Hit(c) PROVE MenuInv'
<1>1. MenuTypes' /\ ReadsAreRecent' /\ StoredIsFresh' /\ ItemsAreRecent'
  BY DEF MenuInv, MenuTypes, ReadsAreRecent, StoredIsFresh, ItemsAreRecent, M!Hit, M!MaxAge
<1>2. /\ items \in Nat /\ (TTL <= 0 \/ loaded < TTL) /\ items <= loaded + LoadTime
      /\ served' = [age |-> items, failed |-> FALSE]
  BY DEF MenuInv, MenuTypes, ItemsAreRecent, M!Hit, M!Answer
<1>3. M!MenuFreshEnough'
  BY <1>2, MenuAssumption DEF M!MenuFreshEnough, MenuInv, MenuTypes
<1>4. QED  BY <1>1, <1>3 DEF MenuInv

LEMMA MenuBegin == ASSUME MenuInv, NEW c \in Callers, NEW name, M!Begin(c, name) PROVE MenuInv'
BY MenuAssumption
   DEF MenuInv, MenuTypes, ReadsAreRecent, StoredIsFresh, ItemsAreRecent, M!MaxAge, M!MenuFreshEnough, M!Begin

LEMMA MenuRead == ASSUME MenuInv, NEW c \in Callers, M!MenuRecords(c) PROVE MenuInv'
BY MenuAssumption
   DEF MenuInv, MenuTypes, ReadsAreRecent, StoredIsFresh, ItemsAreRecent, M!MaxAge, M!MenuFreshEnough, M!MenuRecords

LEMMA MenuFails == ASSUME MenuInv, NEW c \in Callers, M!LoadFails(c) PROVE MenuInv'
<1>1. MenuTypes' /\ ReadsAreRecent' /\ StoredIsFresh' /\ ItemsAreRecent'
  BY MenuAssumption
     DEF MenuInv, MenuTypes, ReadsAreRecent, StoredIsFresh, ItemsAreRecent, M!MaxAge, M!LoadFails, M!Done
<1>2. served' = served \/ served' = [age |-> seen[c], failed |-> TRUE]
  BY DEF M!LoadFails, M!Answer
<1>3. M!MenuFreshEnough'
  BY <1>2 DEF MenuInv, M!MenuFreshEnough
<1>4. QED  BY <1>1, <1>3 DEF MenuInv

LEMMA MenuStore == ASSUME MenuInv, NEW c \in Callers, M!Store(c) PROVE MenuInv'
<1>1. /\ menuAt[c] = "storing" /\ read[c] \in Nat /\ read[c] <= took[c] /\ took[c] \in 0 .. LoadTime
      /\ items' = read[c] /\ loaded' = 0 /\ served' = served
  BY DEF M!Store, MenuInv, MenuTypes, ReadsAreRecent
<1>2. MenuTypes'
  BY <1>1, MenuAssumption DEF MenuInv, MenuTypes, M!Store, M!Done
<1>3. ItemsAreRecent'
  BY <1>1, MenuAssumption DEF ItemsAreRecent, M!MaxAge
<1>4. ReadsAreRecent'
  BY MenuAssumption DEF MenuInv, MenuTypes, ReadsAreRecent, M!Store, M!Done
<1>5. StoredIsFresh'
  BY <1>1, <1>2, MenuAssumption DEF StoredIsFresh, MenuTypes
<1>6. QED  BY <1>1, <1>2, <1>3, <1>4, <1>5 DEF MenuInv, M!MenuFreshEnough

LEMMA MenuServe == ASSUME MenuInv, NEW c \in Callers, M!ServeStored(c) PROVE MenuInv'
<1>1. MenuTypes' /\ ReadsAreRecent' /\ StoredIsFresh' /\ ItemsAreRecent'
  BY MenuAssumption
     DEF MenuInv, MenuTypes, ReadsAreRecent, StoredIsFresh, ItemsAreRecent, M!MaxAge, M!ServeStored, M!Done
<1>2. /\ items \in Nat /\ items <= LoadTime + LoadTime
      /\ served' = [age |-> items, failed |-> FALSE]
  BY MenuAssumption DEF M!ServeStored, M!Answer, MenuInv, MenuTypes, StoredIsFresh, ItemsAreRecent
<1>3. M!MenuFreshEnough'
  BY <1>2, MenuAssumption DEF M!MenuFreshEnough
<1>4. QED  BY <1>1, <1>3 DEF MenuInv

LEMMA MenuTick == ASSUME MenuInv, M!Tick PROVE MenuInv'
<1>1. /\ \A c \in Callers : menuAt[c] # "idle" => took[c] < LoadTime
      /\ items' = M!Older(items)
      /\ loaded' = IF items = None \/ loaded = M!MaxAge THEN loaded ELSE loaded + 1
      /\ seen' = [c \in Callers |-> M!Older(seen[c])] /\ read' = [c \in Callers |-> M!Older(read[c])]
      /\ took' = [c \in Callers |-> IF menuAt[c] = "idle" THEN 0 ELSE took[c] + 1]
      /\ menuAt' = menuAt /\ served' = served
  BY DEF M!Tick
<1>2. M!MaxAge \in Nat /\ items \in Nat \cup {None} /\ loaded \in Nat /\ None \notin Nat
  BY MenuAssumption DEF M!MaxAge, MenuInv, MenuTypes
<1>3. \A c \in Callers : seen'[c] \in Nat \cup {None} /\ read'[c] \in Nat \cup {None}
  BY <1>1, OlderIs DEF MenuInv, MenuTypes
<1>4. \A c \in Callers : took'[c] \in 0 .. LoadTime /\ (menuAt[c] # "idle" => took'[c] = took[c] + 1)
  BY <1>1, MenuAssumption DEF MenuInv, MenuTypes
<1>5. items' \in Nat \cup {None} /\ loaded' \in Nat
  BY <1>1, <1>2, OlderIs
<1>6. MenuTypes'
  BY <1>1, <1>3, <1>4, <1>5 DEF MenuInv, MenuTypes
<1>7. ReadsAreRecent'
  <2> SUFFICES ASSUME NEW c \in Callers, menuAt[c] = "storing" PROVE read'[c] # None /\ read'[c] <= took'[c]
    BY <1>1 DEF ReadsAreRecent
  <2>1. read[c] \in Nat /\ read[c] # None /\ read[c] <= took[c] /\ took[c] \in Nat
    BY <1>2, MenuAssumption DEF MenuInv, MenuTypes, ReadsAreRecent
  <2>2. read'[c] \in {read[c], read[c] + 1} /\ read'[c] # None
    BY <1>1, <2>1, OlderIs
  <2>3. QED  BY <1>4, <2>1, <2>2
<1>8. ItemsAreRecent'
  <2> SUFFICES ASSUME items # None PROVE items' <= loaded' + LoadTime /\ items' <= M!MaxAge
    BY <1>1, <1>2, OlderIs DEF ItemsAreRecent, M!MaxAge
  <2>1. items' \in {items, items + 1} /\ items' <= M!MaxAge /\ items <= loaded + LoadTime /\ items \in Nat
    BY <1>1, <1>2, OlderIs DEF MenuInv, ItemsAreRecent
  <2>2. QED  BY <1>1, <1>2, <2>1, MenuAssumption
<1>9. StoredIsFresh'
  <2> SUFFICES ASSUME NEW c \in Callers, menuAt[c] = "stored" PROVE items' # None /\ loaded' <= took'[c]
    BY <1>1 DEF StoredIsFresh
  <2>1. items # None /\ loaded <= took[c] /\ took[c] \in Nat
    BY MenuAssumption DEF MenuInv, MenuTypes, StoredIsFresh
  <2>2. QED  BY <1>1, <1>2, <1>4, <2>1, OlderIs
<1>10. QED  BY <1>1, <1>6, <1>7, <1>8, <1>9 DEF MenuInv, M!MenuFreshEnough

LEMMA MenuStep == MenuInv /\ [M!Next]_(M!vars) => MenuInv'
<1>1. MenuInv /\ UNCHANGED M!vars => MenuInv'
  BY DEF M!vars, MenuInv, MenuTypes, ReadsAreRecent, StoredIsFresh, ItemsAreRecent, M!MaxAge, M!MenuFreshEnough
<1>2. \A c \in Callers : MenuInv /\ (M!Miss(c) \/ M!Reload(c)) => MenuInv'
  BY MenuBegin DEF M!Miss, M!Reload
<1>3. QED  BY <1>1, <1>2, MenuHit, MenuRead, MenuFails, MenuStore, MenuServe, MenuTick DEF M!Next

LEMMA MenusRun == AppSpec => M!Init /\ [][M!Next]_(M!vars)
<1>1. AppInit => M!Init
  BY DEF AppInit
<1>2. [AppNext]_appVars => [M!Next]_(M!vars)
  BY DEF AppNext, Bus, Emitting, Policies, Seeding, Menus, Logins, Sessions, Requests, Routing, appVars, menuVars, M!vars
<1>3. QED  BY <1>1, <1>2, PTL DEF AppSpec

(* No menu is served that is older than a TTL and a load, or two loads, for  *)
(* any callers and any durations of both.                                    *)
THEOREM MenuFreshEnoughHolds == AppSpec => []MenuFreshEnough
<1>1. MenuInv => MenuFreshEnough
  BY DEF MenuInv, MenuFreshEnough
<1>2. QED  BY <1>1, MenuInit, MenuStep, MenusRun, PTL

-----------------------------------------------------------------------------
(* The policy manager.  Outside of a reload, a Manager in use has the        *)
(* policies of its model, or is known to have failed to load them; and while *)
(* no Manager was replaced, every call works on the one there is.            *)
ManagerRecord == [adapter : {File, Db}, model : {0, 1}, base : {0, 1, None}, extra : BOOLEAN]

CallRecord ==
  [op : {"none", "setAdapter", "enforce", "reload", "change"}, on : Managers \cup {None},
   at : {"start", "fetched", "modelSet"}]

PolicyTypes ==
  /\ default \in Managers \cup {None} /\ pending \in {Db, None}
  /\ manager \in [Managers -> ManagerRecord] /\ writer \in [Managers -> Callers \cup {None}]
  /\ modelFile \in {0, 1} /\ stored \in BOOLEAN
  /\ \A c \in Callers : call[c] = P!Idle \/ (call[c] # P!Idle /\ call[c].on \in Managers)
  /\ call \in [Callers -> CallRecord]
  /\ given \in BOOLEAN /\ replaced \in BOOLEAN

InUse(m) == m = default \/ \E c \in Callers : call[c].on = m

BaseIsModel == \A m \in Managers : manager[m].base = None \/ manager[m].base = manager[m].model

EmptyIsBroken ==
  \A m \in Managers : InUse(m) /\ writer[m] = None /\ manager[m].base = None => m \in broken

CallsOnDefault == ~replaced => \A c \in Callers : call[c] = P!Idle \/ call[c].on = default

PolicyInv ==
  /\ PolicyTypes /\ BaseIsModel /\ EmptyIsBroken /\ CallsOnDefault
  /\ P!DecisionFromWholePolicy /\ P!AdapterNotLost

LEMMA Filled ==
  ASSUME PolicyTypes, NEW r \in ManagerRecord
  PROVE  /\ P!WithPolicies(r) \in ManagerRecord /\ P!WithPolicies(r).adapter = r.adapter
         /\ P!WithPolicies(r).base = P!WithPolicies(r).model /\ P!WithPolicies(r).base # None
<1> DEFINE x == r.adapter = Db /\ stored
<1>1. x \in BOOLEAN /\ P!WithPolicies(r) = [adapter |-> r.adapter, model |-> r.model, base |-> r.model, extra |-> x]
  BY DEF P!WithPolicies
<1> HIDE DEF x
<1>2. r.adapter \in {File, Db} /\ r.model \in {0, 1} /\ r.model # None
  BY MenuAssumption DEF ManagerRecord
<1>3. QED  BY <1>1, <1>2 DEF ManagerRecord

LEMMA Emptied ==
  ASSUME PolicyTypes, NEW a \in {File, Db}
  PROVE  P!ModelOnly(a) \in ManagerRecord /\ P!ModelOnly(a).adapter = a /\ P!ModelOnly(a).base = None
BY DEF P!ModelOnly, PolicyTypes, ManagerRecord

LEMMA PolicyInit == P!Init => PolicyInv
<1> SUFFICES ASSUME P!Init PROVE PolicyInv
  OBVIOUS
<1>1. given \in BOOLEAN /\ replaced \in BOOLEAN /\ stored \in BOOLEAN /\ given = FALSE
  BY DEF P!Init
<1>2. PolicyTypes
  BY <1>1, PolicyAssumption DEF P!Init, PolicyTypes, ManagerRecord, P!Blank, CallRecord, P!Idle
<1>3. BaseIsModel /\ EmptyIsBroken /\ CallsOnDefault
  BY PolicyAssumption DEF P!Init, BaseIsModel, EmptyIsBroken, CallsOnDefault, InUse, P!Blank, P!Idle
<1>4. QED  BY <1>1, <1>2, <1>3 DEF PolicyInv, P!Init, P!DecisionFromWholePolicy, P!AdapterNotLost

(* The Manager that Init or SetDefault makes is whole.                       *)
LEMMA InstallStep ==
  ASSUME PolicyInv, NEW m \in Managers, NEW a \in {File, Db}, P!Install(m, a), pending' \in {Db, None},
         a = Db \/ pending' = Db \/ pending = None,
         UNCHANGED <<writer, modelFile, stored, call, answer, given>>
  PROVE  PolicyInv'
<1>1. /\ m # default /\ \A c \in Callers : call[c].on # m
      /\ default' = m /\ broken' = broken \ {m}
      /\ manager' = [manager EXCEPT ![m] = P!Made(a)]
  BY DEF P!Install, P!Unused
<1>2. replaced' = (replaced \/ default # None)
  BY DEF P!Install
<1>3. /\ P!Made(a) \in ManagerRecord /\ P!Made(a).adapter = a
      /\ P!Made(a).base = P!Made(a).model /\ P!Made(a).base # None
  BY Emptied, Filled DEF P!Made, PolicyInv
<1>4. /\ manager'[m] = P!Made(a) /\ manager' \in [Managers -> ManagerRecord]
      /\ \A k \in Managers : k # m => manager'[k] = manager[k]
  BY <1>1, <1>3 DEF PolicyInv, PolicyTypes
<1>5. PolicyTypes'
  <2>1. replaced' \in BOOLEAN /\ given' \in BOOLEAN /\ stored' \in BOOLEAN
    BY <1>2 DEF PolicyInv, PolicyTypes
  <2>2. QED  BY <1>1, <1>4, <2>1 DEF PolicyInv, PolicyTypes, P!Idle, CallRecord
<1>6. BaseIsModel'
  BY <1>3, <1>4 DEF PolicyInv, BaseIsModel
<1>7. EmptyIsBroken'
  BY <1>1, <1>3, <1>4 DEF PolicyInv, EmptyIsBroken, InUse
<1>8. ~replaced' => ~replaced /\ default = None /\ \A c \in Callers : call[c] = P!Idle
  <2> SUFFICES ASSUME ~replaced' PROVE ~replaced /\ default = None /\ \A c \in Callers : call[c] = P!Idle
    OBVIOUS
  <2>1. ~replaced /\ default = None
    BY <1>2, Zenon
  <2>2. \A c \in Callers : call[c] = P!Idle \/ call[c].on = default
    BY <2>1 DEF PolicyInv, CallsOnDefault
  <2>3. QED  BY <2>1, <2>2, PolicyAssumption DEF PolicyInv, PolicyTypes
<1>9. CallsOnDefault'
  BY <1>8 DEF CallsOnDefault, P!Idle
<1>10. P!AdapterNotLost'
  <2> SUFFICES ASSUME given', ~replaced' PROVE pending' = Db \/ (default' # None /\ manager'[default'].adapter = Db)
    BY DEF P!AdapterNotLost
  <2>1. pending = Db
    BY <1>8 DEF PolicyInv, P!AdapterNotLost
  <2>2. a = Db \/ pending' = Db
    BY <2>1, PolicyAssumption
  <2>3. QED  BY <1>1, <1>3, <1>4, <2>2, PolicyAssumption
<1>11. QED  BY <1>5, <1>6, <1>7, <1>9, <1>10 DEF PolicyInv, P!DecisionFromWholePolicy

LEMMA InitStep == ASSUME PolicyInv, P!InitDefault PROVE PolicyInv'
<1>1. PICK m \in Managers : P!Install(m, IF pending = None THEN File ELSE pending)
  BY DEF P!InitDefault
<1>2. /\ pending' = None /\ UNCHANGED <<writer, modelFile, stored, call, answer, given>>
      /\ pending \in {Db, None}
  BY DEF P!InitDefault, PolicyInv, PolicyTypes
<1>3. CASE pending = None
  BY <1>1, <1>2, <1>3, InstallStep
<1>4. CASE pending = Db
  BY <1>1, <1>2, <1>4, InstallStep, PolicyAssumption
<1>5. QED  BY <1>2, <1>3, <1>4

LEMMA SetStep == ASSUME PolicyInv, P!SetDefault PROVE PolicyInv'
<1>1. PICK m \in Managers, a \in {File, Db} : P!Install(m, a)
  BY DEF P!SetDefault
<1>2. UNCHANGED <<pending, writer, modelFile, stored, call, answer, given>> /\ pending \in {Db, None}
  BY DEF P!SetDefault, PolicyInv, PolicyTypes
<1>3. QED  BY <1>1, <1>2, InstallStep

LEMMA ResetStep == ASSUME PolicyInv, P!ResetDefault PROVE PolicyInv'
<1>1. /\ default' = None /\ replaced' = TRUE
      /\ UNCHANGED <<pending, manager, writer, modelFile, stored, call, answer, broken, given>>
  BY DEF P!ResetDefault
<1>2. PolicyTypes'
  BY <1>1 DEF PolicyInv, PolicyTypes, P!Idle, CallRecord
<1>3. BaseIsModel' /\ EmptyIsBroken'
  BY <1>1, PolicyAssumption DEF PolicyInv, BaseIsModel, EmptyIsBroken, InUse
<1>4. CallsOnDefault' /\ P!AdapterNotLost'
  BY <1>1 DEF CallsOnDefault, P!AdapterNotLost
<1>5. QED  BY <1>1, <1>2, <1>3, <1>4 DEF PolicyInv, P!DecisionFromWholePolicy

LEMMA NewModelStep == ASSUME PolicyInv, P!NewModel PROVE PolicyInv'
<1>1. modelFile' = 1 /\ UNCHANGED <<default, pending, manager, writer, stored, call, answer, broken, given, replaced>>
  BY DEF P!NewModel
<1>2. QED
  BY <1>1 DEF PolicyInv, PolicyTypes, BaseIsModel, EmptyIsBroken, InUse, CallsOnDefault, P!Idle, CallRecord,
              P!DecisionFromWholePolicy, P!AdapterNotLost

LEMMA FetchStep ==
  ASSUME PolicyInv, NEW c \in Callers, NEW op \in {"setAdapter", "enforce", "reload", "change"}, P!Fetch(c, op)
  PROVE  PolicyInv'
<1>1. /\ default # None /\ default \in Managers /\ answer' = None
      /\ call' = [call EXCEPT ![c] = [op |-> op, on |-> default, at |-> "fetched"]]
      /\ UNCHANGED <<default, pending, manager, writer, modelFile, stored, broken, given, replaced>>
  BY DEF P!Fetch, PolicyInv, PolicyTypes
<1>2. /\ call'[c] = [op |-> op, on |-> default, at |-> "fetched"] /\ call'[c] # P!Idle
      /\ \A d \in Callers : d # c => call'[d] = call[d]
      /\ call' \in [Callers -> CallRecord]
  BY <1>1 DEF PolicyInv, PolicyTypes, P!Idle, CallRecord
<1>3. PolicyTypes'
  BY <1>1, <1>2 DEF PolicyInv, PolicyTypes, P!Idle, CallRecord
<1>4. EmptyIsBroken'
  BY <1>1, <1>2 DEF PolicyInv, EmptyIsBroken, InUse
<1>5. CallsOnDefault'
  BY <1>1, <1>2 DEF PolicyInv, CallsOnDefault, P!Idle
<1>6. QED
  BY <1>1, <1>3, <1>4, <1>5 DEF PolicyInv, BaseIsModel, P!DecisionFromWholePolicy, P!AdapterNotLost

LEMMA EarlyStep == ASSUME PolicyInv, NEW c \in Callers, P!SetAdapterEarly(c) PROVE PolicyInv'
<1>1. /\ pending' = Db /\ given' = TRUE
      /\ UNCHANGED <<default, manager, writer, modelFile, stored, call, answer, broken, replaced>>
  BY DEF P!SetAdapterEarly
<1>2. PolicyTypes'
  BY <1>1 DEF PolicyInv, PolicyTypes, P!Idle, CallRecord
<1>3. QED
  BY <1>1, <1>2 DEF PolicyInv, BaseIsModel, EmptyIsBroken, InUse, CallsOnDefault, P!Idle, CallRecord,
              P!DecisionFromWholePolicy, P!AdapterNotLost

(* A call that returns, or becomes the reload of InitGormAdapter, keeps what *)
(* is said of calls.                                                         *)
LEMMA CallGoesOn ==
  ASSUME PolicyInv, NEW c \in Callers, call[c] # P!Idle, default' = default, replaced' = replaced,
         \/ P!Return(c)
         \/ call' = [call EXCEPT ![c].op = "reload"]
         \/ call' = [call EXCEPT ![c].at = "modelSet"]
  PROVE  /\ \A d \in Callers : call'[d] = P!Idle \/ (call'[d] # P!Idle /\ call'[d].on \in Managers)
         /\ call' \in [Callers -> CallRecord]
         /\ CallsOnDefault' /\ \A m \in Managers : InUse(m)' => InUse(m)
<1>1. call[c].on \in Managers /\ call \in [Callers -> CallRecord]
  BY DEF PolicyInv, PolicyTypes
<1>2. /\ \A d \in Callers : d # c => call'[d] = call[d]
      /\ call'[c] = P!Idle \/ call'[c].on = call[c].on
      /\ call' \in [Callers -> CallRecord]
  <2>1. CASE P!Return(c)
    BY <1>1, <2>1 DEF P!Return, P!Idle, CallRecord
  <2>2. CASE call' = [call EXCEPT ![c].op = "reload"]
    BY <1>1, <2>2 DEF CallRecord
  <2>3. CASE call' = [call EXCEPT ![c].at = "modelSet"]
    BY <1>1, <2>3 DEF CallRecord
  <2>4. QED  BY <2>1, <2>2, <2>3
<1>3. \A d \in Callers : call'[d] = P!Idle \/ (call'[d] # P!Idle /\ call'[d].on \in Managers)
  BY <1>1, <1>2 DEF PolicyInv, PolicyTypes, P!Idle, CallRecord
<1>4. CallsOnDefault'
  BY <1>2 DEF PolicyInv, CallsOnDefault, P!Idle
<1>5. \A m \in Managers : InUse(m)' => InUse(m)
  BY <1>2, PolicyAssumption DEF InUse, P!Idle
<1>6. QED  BY <1>2, <1>3, <1>4, <1>5

LEMMA SetAdapterStep == ASSUME PolicyInv, NEW c \in Callers, P!SetAdapter(c) PROVE PolicyInv'
<1> DEFINE m == call[c].on
<1>1. call[c] # P!Idle /\ m \in Managers
  BY DEF P!SetAdapter, P!At, PolicyInv, PolicyTypes, P!Idle, CallRecord
<1>2. /\ manager' = [manager EXCEPT ![m].adapter = Db] /\ given' = TRUE
      /\ UNCHANGED <<default, pending, writer, modelFile, stored, answer, broken, replaced>>
      /\ P!Return(c) \/ call' = [call EXCEPT ![c].op = "reload"]
  BY DEF P!SetAdapter
<1>3. /\ manager' \in [Managers -> ManagerRecord] /\ manager'[m].adapter = Db
      /\ \A k \in Managers : manager'[k].base = manager[k].base /\ manager'[k].model = manager[k].model
  BY <1>1, <1>2 DEF PolicyInv, PolicyTypes, ManagerRecord
<1>4. /\ \A d \in Callers : call'[d] = P!Idle \/ (call'[d] # P!Idle /\ call'[d].on \in Managers)
      /\ call' \in [Callers -> CallRecord]
      /\ CallsOnDefault' /\ \A k \in Managers : InUse(k)' => InUse(k)
  BY <1>1, <1>2, CallGoesOn
<1>5. PolicyTypes'
  BY <1>2, <1>3, <1>4 DEF PolicyInv, PolicyTypes, P!Idle, CallRecord
<1>6. BaseIsModel' /\ EmptyIsBroken'
  BY <1>2, <1>3, <1>4 DEF PolicyInv, BaseIsModel, EmptyIsBroken
<1>7. ~replaced' => default' = m /\ default' # None
  BY <1>1, <1>2, PolicyAssumption DEF PolicyInv, CallsOnDefault
<1>8. P!AdapterNotLost'
  BY <1>3, <1>7 DEF P!AdapterNotLost
<1>9. QED  BY <1>2, <1>4, <1>5, <1>6, <1>8 DEF PolicyInv, P!DecisionFromWholePolicy

LEMMA EnforceStep == ASSUME PolicyInv, NEW c \in Callers, P!Enforce(c) PROVE PolicyInv'
<1> DEFINE m == call[c].on
<1>1. call[c] # P!Idle /\ m \in Managers /\ writer[m] = None
  BY DEF P!Enforce, P!At, P!Unlocked, PolicyInv, PolicyTypes, P!Idle, CallRecord
<1>2. /\ answer' = [was |-> manager[m], failed |-> m \in broken] /\ P!Return(c)
      /\ UNCHANGED <<default, pending, manager, writer, modelFile, stored, broken, given, replaced>>
  BY DEF P!Enforce, P!Decision
<1>3. /\ \A d \in Callers : call'[d] = P!Idle \/ (call'[d] # P!Idle /\ call'[d].on \in Managers)
      /\ call' \in [Callers -> CallRecord]
      /\ CallsOnDefault' /\ \A k \in Managers : InUse(k)' => InUse(k)
  BY <1>1, <1>2, CallGoesOn
<1>4. PolicyTypes'
  BY <1>2, <1>3 DEF PolicyInv, PolicyTypes, P!Idle, CallRecord
<1>5. BaseIsModel' /\ EmptyIsBroken' /\ P!AdapterNotLost'
  BY <1>2, <1>3 DEF PolicyInv, BaseIsModel, EmptyIsBroken, P!AdapterNotLost
<1>6. InUse(m)
  BY DEF InUse
<1>7. IF manager[m].base = None THEN m \in broken ELSE manager[m].base = manager[m].model
  BY <1>1, <1>6 DEF PolicyInv, BaseIsModel, EmptyIsBroken
<1>8. answer'.was = manager[m] /\ answer'.failed = (m \in broken)
  BY <1>2
<1>9. P!DecisionFromWholePolicy'
  BY <1>7, <1>8 DEF P!DecisionFromWholePolicy
<1>10. QED  BY <1>3, <1>4, <1>5, <1>9 DEF PolicyInv

LEMMA ReloadModelStep == ASSUME PolicyInv, NEW c \in Callers, P!ReloadModel(c) PROVE PolicyInv'
<1> DEFINE m == call[c].on
<1>1. call[c] # P!Idle /\ m \in Managers /\ c # None
  BY PolicyAssumption DEF P!ReloadModel, P!At, PolicyInv, PolicyTypes, P!Idle, CallRecord
<1>2. /\ UNCHANGED <<default, pending, modelFile, stored, answer, broken, given, replaced>>
      /\ \/ /\ writer' = [writer EXCEPT ![m] = c]
            /\ manager' = [manager EXCEPT ![m] = P!ModelOnly(@.adapter)]
            /\ call' = [call EXCEPT ![c].at = "modelSet"]
         \/ P!Return(c) /\ UNCHANGED <<writer, manager>>
  BY DEF P!ReloadModel
<1>3. /\ \A d \in Callers : call'[d] = P!Idle \/ (call'[d] # P!Idle /\ call'[d].on \in Managers)
      /\ call' \in [Callers -> CallRecord]
      /\ CallsOnDefault' /\ \A k \in Managers : InUse(k)' => InUse(k)
  BY <1>1, <1>2, CallGoesOn
<1>4. /\ manager' \in [Managers -> ManagerRecord] /\ writer' \in [Managers -> Callers \cup {None}]
      /\ \A k \in Managers : manager'[k].adapter = manager[k].adapter
      /\ \A k \in Managers : \/ writer'[k] = c /\ manager'[k].base = None
                             \/ manager'[k] = manager[k] /\ writer'[k] = writer[k]
  <2>1. CASE P!Return(c) /\ UNCHANGED <<writer, manager>>
    BY <2>1 DEF PolicyInv, PolicyTypes
  <2>2. CASE /\ writer' = [writer EXCEPT ![m] = c]
             /\ manager' = [manager EXCEPT ![m] = P!ModelOnly(@.adapter)]
    <3>1. manager[m] \in ManagerRecord /\ manager[m].adapter \in {File, Db}
      BY <1>1 DEF PolicyInv, PolicyTypes, ManagerRecord
    <3>2. /\ P!ModelOnly(manager[m].adapter) \in ManagerRecord
          /\ P!ModelOnly(manager[m].adapter).adapter = manager[m].adapter
          /\ P!ModelOnly(manager[m].adapter).base = None
      BY <3>1, Emptied DEF PolicyInv
    <3> HIDE DEF m
    <3>3. QED  BY <1>1, <2>2, <3>2 DEF PolicyInv, PolicyTypes
  <2>3. QED  BY <1>2, <2>1, <2>2
<1>5. PolicyTypes'
  BY <1>2, <1>3, <1>4 DEF PolicyInv, PolicyTypes, P!Idle, CallRecord
<1>6. BaseIsModel' /\ EmptyIsBroken'
  BY <1>1, <1>2, <1>3, <1>4 DEF PolicyInv, BaseIsModel, EmptyIsBroken
<1>7. P!AdapterNotLost'
  BY <1>2, <1>4 DEF PolicyInv, PolicyTypes, P!AdapterNotLost
<1>8. QED  BY <1>2, <1>3, <1>5, <1>6, <1>7 DEF PolicyInv, P!DecisionFromWholePolicy

LEMMA ReloadPolicyStep == ASSUME PolicyInv, NEW c \in Callers, P!ReloadPolicy(c) PROVE PolicyInv'
<1> DEFINE m == call[c].on
<1>1. call[c] # P!Idle /\ m \in Managers
  BY DEF P!ReloadPolicy, P!At, PolicyInv, PolicyTypes, P!Idle, CallRecord
<1>2. /\ UNCHANGED <<default, pending, modelFile, stored, answer, given, replaced>> /\ P!Return(c)
      /\ writer' = [writer EXCEPT ![m] = None]
      /\ \/ manager' = [manager EXCEPT ![m] = P!WithPolicies(@)] /\ broken' = broken \ {m}
         \/ broken' = broken \cup {m} /\ manager' = manager
  BY DEF P!ReloadPolicy
<1>3. /\ \A d \in Callers : call'[d] = P!Idle \/ (call'[d] # P!Idle /\ call'[d].on \in Managers)
      /\ call' \in [Callers -> CallRecord]
      /\ CallsOnDefault' /\ \A k \in Managers : InUse(k)' => InUse(k)
  BY <1>1, <1>2, CallGoesOn
<1>4. /\ manager' \in [Managers -> ManagerRecord] /\ writer' \in [Managers -> Callers \cup {None}]
      /\ \A k \in Managers : manager'[k].adapter = manager[k].adapter
      /\ \A k \in Managers : k # m => /\ manager'[k] = manager[k] /\ writer'[k] = writer[k]
                                      /\ (k \in broken' <=> k \in broken)
      /\ \/ manager'[m].base = manager'[m].model /\ manager'[m].base # None
         \/ manager'[m] = manager[m] /\ m \in broken'
  <2>1. manager[m] \in ManagerRecord
    BY <1>1 DEF PolicyInv, PolicyTypes
  <2>2. /\ P!WithPolicies(manager[m]) \in ManagerRecord
        /\ P!WithPolicies(manager[m]).adapter = manager[m].adapter
        /\ P!WithPolicies(manager[m]).base = P!WithPolicies(manager[m]).model
        /\ P!WithPolicies(manager[m]).base # None
    BY <2>1, Filled DEF PolicyInv
  <2> HIDE DEF m
  <2>3. CASE manager' = [manager EXCEPT ![m] = P!WithPolicies(@)] /\ broken' = broken \ {m}
    BY <1>1, <1>2, <2>1, <2>2, <2>3 DEF PolicyInv, PolicyTypes
  <2>4. CASE broken' = broken \cup {m} /\ manager' = manager
    BY <1>1, <1>2, <2>4 DEF PolicyInv, PolicyTypes
  <2>5. QED  BY <1>2, <2>3, <2>4 DEF m
<1>5. PolicyTypes'
  BY <1>2, <1>3, <1>4 DEF PolicyInv, PolicyTypes, P!Idle, CallRecord
<1>6. BaseIsModel' /\ EmptyIsBroken'
  BY <1>1, <1>3, <1>4 DEF PolicyInv, BaseIsModel, EmptyIsBroken
<1>7. P!AdapterNotLost'
  BY <1>2, <1>4 DEF PolicyInv, PolicyTypes, P!AdapterNotLost
<1>8. QED  BY <1>2, <1>3, <1>5, <1>6, <1>7 DEF PolicyInv, P!DecisionFromWholePolicy

LEMMA ChangeStep ==
  ASSUME PolicyInv, NEW c \in Callers, NEW present \in BOOLEAN, P!Change(c, present) PROVE PolicyInv'
<1> DEFINE m == call[c].on
<1>1. call[c] # P!Idle /\ m \in Managers
  BY DEF P!Change, P!At, PolicyInv, PolicyTypes, P!Idle, CallRecord
<1>2. /\ UNCHANGED <<default, pending, writer, modelFile, answer, broken, given, replaced>> /\ P!Return(c)
      /\ manager' = [manager EXCEPT ![m].extra = present] \/ manager' = manager
      /\ stored' \in {present, stored}
  BY DEF P!Change
<1>3. /\ \A d \in Callers : call'[d] = P!Idle \/ (call'[d] # P!Idle /\ call'[d].on \in Managers)
      /\ call' \in [Callers -> CallRecord]
      /\ CallsOnDefault' /\ \A k \in Managers : InUse(k)' => InUse(k)
  BY <1>1, <1>2, CallGoesOn
<1>4. /\ manager' \in [Managers -> ManagerRecord] /\ stored' \in BOOLEAN
      /\ \A k \in Managers : /\ manager'[k].adapter = manager[k].adapter
                             /\ manager'[k].base = manager[k].base /\ manager'[k].model = manager[k].model
  BY <1>1, <1>2 DEF PolicyInv, PolicyTypes, ManagerRecord
<1>5. PolicyTypes'
  BY <1>2, <1>3, <1>4 DEF PolicyInv, PolicyTypes, P!Idle, CallRecord
<1>6. BaseIsModel' /\ EmptyIsBroken'
  BY <1>2, <1>3, <1>4 DEF PolicyInv, BaseIsModel, EmptyIsBroken
<1>7. P!AdapterNotLost'
  BY <1>2, <1>4 DEF PolicyInv, PolicyTypes, P!AdapterNotLost
<1>8. QED  BY <1>2, <1>3, <1>5, <1>6, <1>7 DEF PolicyInv, P!DecisionFromWholePolicy

LEMMA PolicyStep == PolicyInv /\ [P!Next]_(P!vars) => PolicyInv'
<1>1. PolicyInv /\ UNCHANGED P!vars => PolicyInv'
  BY DEF P!vars, PolicyInv, PolicyTypes, BaseIsModel, EmptyIsBroken, InUse, CallsOnDefault, P!Idle, CallRecord,
         P!DecisionFromWholePolicy, P!AdapterNotLost
<1>2. QED
  BY <1>1, InitStep, SetStep, ResetStep, NewModelStep, FetchStep, EarlyStep, SetAdapterStep, EnforceStep,
     ReloadModelStep, ReloadPolicyStep, ChangeStep DEF P!Next

LEMMA PoliciesRun == AppSpec => P!Init /\ [][P!Next]_(P!vars)
<1>1. AppInit => P!Init
  BY DEF AppInit
<1>2. [AppNext]_appVars => [P!Next]_(P!vars)
  BY DEF AppNext, Bus, Emitting, Policies, Seeding, Menus, Logins, Sessions, Requests, Routing, appVars, policyVars, P!vars
<1>3. QED  BY <1>1, <1>2, PTL DEF AppSpec

(* Every decision is from a model and the policies loaded for it, or from a  *)
(* Manager that failed to load them; no adapter given is lost: for any       *)
(* callers and any number of Managers.                                       *)
THEOREM ManagerKeepsFaithHolds == AppSpec => []ManagerKeepsFaith
<1>1. PolicyInv => ManagerKeepsFaith
  BY DEF PolicyInv, ManagerKeepsFaith, P!ManagerKeepsFaith
<1>2. QED  BY <1>1, PolicyInit, PolicyStep, PoliciesRun, PTL

-----------------------------------------------------------------------------
(* The client's sessions.  While requests do not overlap there is one copy   *)
(* of the cookies at most; the messages that were neither shown nor cleared  *)
(* are in it, or in the jar while there is none, and so is the token of the  *)
(* form the client holds.                                                    *)
Cookies == [flash : Seq(Nat), old : BOOLEAN, user : SessionUsers \cup {None}, token : Nat \cup {None}]

SessionTypes ==
  /\ jar \in Cookies /\ copy \in [Callers -> Cookies \cup {None}]
  /\ saved \in [Callers -> SUBSET {"flash", "user", "token"}] /\ inputs \in [Callers -> BOOLEAN]
  /\ added \in Nat /\ consumed \in Nat /\ tokens \in Nat /\ page \in Nat \cup {None}
  /\ wrong \in BOOLEAN /\ overlapped \in BOOLEAN

AtMostOne == \A r, q \in Callers : copy[r] # None /\ copy[q] # None => r = q

Waiting(messages) ==
  Len(messages) = added - consumed /\ \A i \in 1 .. Len(messages) : messages[i] = consumed + i

CopyIsJar ==
  \A r \in Callers : copy[r] # None =>
    /\ Waiting(copy[r].flash) /\ ("flash" \notin saved[r] => jar.flash = copy[r].flash)
    /\ page # None => copy[r].token = page
    /\ "token" \notin saved[r] => jar.token = copy[r].token

AtRest ==
  (\A r \in Callers : copy[r] = None) => Waiting(jar.flash) /\ (page # None => jar.token = page)

OneAtATime == ~wrong /\ AtMostOne /\ CopyIsJar /\ AtRest

SessionInv == SessionTypes /\ S!LoginKept /\ (~overlapped => OneAtATime)

LEMMA SessionInit == S!Init => SessionInv
<1> SUFFICES ASSUME S!Init PROVE SessionInv
  OBVIOUS
<1>1. jar = [flash |-> <<>>, old |-> FALSE, user |-> None, token |-> None] /\ jar \in Cookies
  BY DEF S!Init, S!NoCookies, Cookies
<1>2. wrong \in BOOLEAN /\ overlapped \in BOOLEAN /\ ~wrong
  BY DEF S!Init
<1>3. SessionTypes
  BY <1>1, <1>2 DEF S!Init, SessionTypes
<1>4. S!LoginKept
  BY <1>1 DEF S!Init, S!LoginKept
<1>5. AtMostOne /\ CopyIsJar /\ AtRest
  BY <1>1 DEF S!Init, AtMostOne, CopyIsJar, AtRest, Waiting
<1>6. QED  BY <1>2, <1>3, <1>4, <1>5 DEF SessionInv, OneAtATime

(* A request begins with the cookies of the jar, and a token.                *)
LEMMA BeginStep ==
  ASSUME SessionInv, NEW r \in Callers, copy[r] = None, NEW cookies \in Cookies,
         NEW sessions \in SUBSET {"flash", "user", "token"}, S!Begin(r, cookies, sessions),
         cookies.flash = jar.flash, "token" \notin sessions => cookies.token = jar.token,
         tokens' \in Nat, page' \in Nat \cup {None}, wrong' \in BOOLEAN,
         page' # None => cookies.token = page' \/ (page' = page /\ cookies.token = jar.token),
         ~overlapped /\ (\A q \in Callers : copy[q] = None) => ~wrong'
  PROVE  SessionInv'
<1>1. /\ copy' = [copy EXCEPT ![r] = cookies] /\ saved' = [saved EXCEPT ![r] = sessions]
      /\ UNCHANGED <<jar, inputs, added, consumed, lastLogin>>
  BY DEF S!Begin
<1>2. overlapped' = (overlapped \/ \E q \in Callers \ {r} : copy[q] # None)
  BY DEF S!Begin
<1>3. overlapped' \in BOOLEAN
  BY <1>2
<1>4. /\ copy'[r] = cookies /\ saved'[r] = sessions /\ cookies # None
      /\ \A q \in Callers : q # r => copy'[q] = copy[q]
      /\ copy' \in [Callers -> Cookies \cup {None}]
      /\ saved' \in [Callers -> SUBSET {"flash", "user", "token"}]
  BY <1>1, SessionAssumption DEF SessionInv, SessionTypes, Cookies
<1>5. SessionTypes' /\ S!LoginKept'
  BY <1>1, <1>3, <1>4 DEF SessionInv, SessionTypes, S!LoginKept
<1>6. ASSUME ~overlapped' PROVE OneAtATime'
  <2>1. ~overlapped /\ \A q \in Callers : copy[q] = None
    BY <1>2, <1>6
  <2>2. Waiting(jar.flash) /\ (page # None => jar.token = page) /\ ~wrong'
    BY <2>1 DEF SessionInv, OneAtATime, AtRest
  <2>3. AtMostOne' /\ AtRest'
    BY <1>4, <2>1 DEF AtMostOne, AtRest
  <2>4. Waiting(cookies.flash)'
    BY <1>1, <2>2 DEF Waiting
  <2>5. CopyIsJar'
    BY <1>1, <1>4, <2>1, <2>2, <2>4 DEF CopyIsJar, Waiting
  <2>6. QED  BY <2>2, <2>3, <2>5 DEF OneAtATime
<1>7. QED  BY <1>5, <1>6 DEF SessionInv

LEMMA ProtectedStep == ASSUME SessionInv, NEW r \in Callers, NEW form \in BOOLEAN, S!Protected(r, form)
                       PROVE  SessionInv'
<1> DEFINE t == S!Token(jar)
           sessions == IF jar.token = None THEN {"token"} ELSE {}
           cookies == [jar EXCEPT !.token = t]
<1>1. /\ copy[r] = None /\ (form => page # None)
      /\ tokens' = IF t > tokens THEN t ELSE tokens
      /\ page' = IF form THEN None ELSE t
      /\ S!Begin(r, cookies, sessions)
  BY DEF S!Protected
<1>2. wrong' = (wrong \/ (~overlapped /\ form /\ page # t))
  BY DEF S!Protected
<1>3. t \in Nat /\ (jar.token # None => t = jar.token)
  BY MenuAssumption DEF S!Token, SessionInv, SessionTypes, Cookies
<1>4. /\ cookies \in Cookies /\ cookies.flash = jar.flash /\ cookies.token = t
      /\ sessions \in SUBSET {"flash", "user", "token"} /\ ("token" \notin sessions => t = jar.token)
  BY <1>3 DEF SessionInv, SessionTypes, Cookies
<1>5. wrong' \in BOOLEAN
  BY <1>2
<1>6. page' \in Nat \cup {None} /\ tokens' \in Nat /\ (page' # None => page' = t)
  BY <1>1, <1>3 DEF SessionInv, SessionTypes
<1>7. ASSUME ~overlapped, \A q \in Callers : copy[q] = None PROVE ~wrong'
  <2>1. ~wrong /\ (page # None => jar.token = page)
    BY <1>7 DEF SessionInv, OneAtATime, AtRest
  <2>2. form => page = t
    BY <1>1, <1>3, <2>1
  <2>3. QED  BY <1>2, <2>1, <2>2
<1> HIDE DEF t, sessions, cookies
<1>8. QED  BY <1>1, <1>4, <1>5, <1>6, <1>7, BeginStep

LEMMA SkippedStep == ASSUME SessionInv, NEW r \in Callers, S!Skipped(r) PROVE SessionInv'
<1>1. copy[r] = None /\ S!Begin(r, jar, {}) /\ tokens' = tokens /\ page' = page /\ wrong' = wrong
  BY DEF S!Skipped
<1>2. jar \in Cookies /\ wrong' \in BOOLEAN /\ tokens' \in Nat /\ page' \in Nat \cup {None}
  BY <1>1 DEF SessionInv, SessionTypes
<1>3. ~overlapped => ~wrong'
  BY <1>1 DEF SessionInv, OneAtATime
<1>4. QED  BY <1>1, <1>2, <1>3, BeginStep

(* What an operation does to the messages is all that matters here.          *)
LEMMA WorkStep ==
  ASSUME SessionInv, NEW r \in Callers, copy[r] # None, NEW cookies \in Cookies, cookies.token = copy[r].token,
         NEW session \in {"flash", "user", "token"}, S!Works(r, session, cookies),
         inputs' \in [Callers -> BOOLEAN], added' \in Nat, consumed' \in Nat, wrong' \in BOOLEAN,
         session # "flash" => cookies.flash = copy[r].flash,
         ~overlapped => /\ ~wrong' /\ Len(cookies.flash) = added' - consumed'
                        /\ \A i \in 1 .. Len(cookies.flash) : cookies.flash[i] = consumed' + i
  PROVE  SessionInv'
<1>1. /\ copy' = [copy EXCEPT ![r] = cookies] /\ saved' = [saved EXCEPT ![r] = @ \cup {session}]
      /\ UNCHANGED <<jar, tokens, page, overlapped, lastLogin>>
  BY DEF S!Works, S!clients
<1>2. /\ copy'[r] = cookies /\ saved'[r] = saved[r] \cup {session} /\ cookies # None
      /\ \A q \in Callers : q # r => copy'[q] = copy[q]
      /\ copy' \in [Callers -> Cookies \cup {None}]
      /\ saved' \in [Callers -> SUBSET {"flash", "user", "token"}]
  BY <1>1, SessionAssumption DEF SessionInv, SessionTypes, Cookies
<1>3. SessionTypes' /\ S!LoginKept'
  BY <1>1, <1>2 DEF SessionInv, SessionTypes, S!LoginKept
<1>4. ASSUME ~overlapped PROVE OneAtATime'
  <2>1. OneAtATime
    BY <1>4 DEF SessionInv
  <2>2. \A q \in Callers : q # r => copy[q] = None /\ copy'[q] = None
    BY <1>2, <2>1 DEF OneAtATime, AtMostOne
  <2>3. AtMostOne' /\ AtRest'
    BY <1>2, <2>2 DEF AtMostOne, AtRest
  <2>4. CopyIsJar'
    BY <1>1, <1>2, <1>4, <2>1, <2>2 DEF OneAtATime, CopyIsJar, Waiting
  <2>5. QED  BY <1>4, <2>3, <2>4 DEF OneAtATime
<1>5. QED  BY <1>1, <1>3, <1>4 DEF SessionInv

(* The copy that a request works on.                                         *)
LEMMA CopyOf ==
  ASSUME SessionInv, NEW r \in Callers, copy[r] # None
  PROVE  /\ copy[r] \in Cookies /\ copy[r].flash \in Seq(Nat) /\ copy[r].old \in BOOLEAN
         /\ added \in Nat /\ consumed \in Nat /\ wrong \in BOOLEAN /\ inputs \in [Callers -> BOOLEAN]
         /\ ~overlapped => ~wrong /\ Waiting(copy[r].flash)
BY DEF SessionInv, SessionTypes, OneAtATime, CopyIsJar, Cookies

LEMMA AddFlashStep == ASSUME SessionInv, NEW r \in Callers, S!AddFlash(r) PROVE SessionInv'
<1>1. /\ copy[r] # None /\ added' = added + 1 /\ consumed' = consumed /\ wrong' = wrong
      /\ S!Works(r, "flash", [copy[r] EXCEPT !.flash = Append(@, added + 1), !.old = @ \/ inputs[r]])
      /\ inputs' = [inputs EXCEPT ![r] = FALSE]
  BY DEF S!AddFlash
<1>2. /\ copy[r] \in Cookies /\ copy[r].flash \in Seq(Nat) /\ added \in Nat /\ consumed \in Nat
      /\ wrong \in BOOLEAN /\ inputs \in [Callers -> BOOLEAN]
      /\ ~overlapped => ~wrong /\ Waiting(copy[r].flash)
  BY <1>1, CopyOf
<1>3. PICK f \in Seq(Nat) : f = Append(copy[r].flash, added + 1)
  <2>1. Append(copy[r].flash, added + 1) \in Seq(Nat)
    BY <1>2
  <2>2. QED  BY <2>1
<1>4. PICK o \in BOOLEAN : o = (copy[r].old \/ inputs[r])
  OBVIOUS
<1>5. PICK cookies : cookies = [copy[r] EXCEPT !.flash = f, !.old = o]
  OBVIOUS
<1>6. cookies \in Cookies /\ cookies.token = copy[r].token /\ cookies.flash = f
  BY <1>2, <1>5 DEF Cookies
<1>7. S!Works(r, "flash", cookies)
  BY <1>1, <1>3, <1>4, <1>5
<1>8. /\ Len(f) = Len(copy[r].flash) + 1 /\ Len(copy[r].flash) \in Nat
      /\ \A i \in 1 .. Len(copy[r].flash) : f[i] = copy[r].flash[i]
      /\ f[Len(copy[r].flash) + 1] = added + 1
  BY <1>2, <1>3
<1>9. ASSUME ~overlapped PROVE Len(f) = added' - consumed' /\ \A i \in 1 .. Len(f) : f[i] = consumed' + i
  <2>1. Len(copy[r].flash) = added - consumed
        /\ \A i \in 1 .. Len(copy[r].flash) : copy[r].flash[i] = consumed + i
    BY <1>2, <1>9 DEF Waiting
  <2>2. Len(f) = added' - consumed'
    BY <1>1, <1>2, <1>8, <2>1
  <2>3. ASSUME NEW i \in 1 .. Len(f) PROVE f[i] = consumed' + i
    <3>1. CASE i = Len(copy[r].flash) + 1
      <4>1. f[i] = added + 1
        BY <1>8, <3>1
      <4>2. consumed' = consumed /\ i = (added - consumed) + 1 /\ added \in Nat /\ consumed \in Nat
        BY <1>1, <1>2, <2>1, <3>1
      <4>3. consumed' + i = added + 1
        BY <4>2
      <4>4. QED  BY <4>1, <4>3
    <3>2. CASE i \in 1 .. Len(copy[r].flash)
      BY <1>1, <1>8, <2>1, <3>2
    <3>3. QED  BY <1>8, <3>1, <3>2
  <2>4. QED  BY <2>2, <2>3
<1>10. ~overlapped => ~wrong'
  BY <1>1, <1>2
<1>11. inputs' \in [Callers -> BOOLEAN] /\ added' \in Nat /\ consumed' \in Nat /\ wrong' \in BOOLEAN
  BY <1>1, <1>2
<1>12. QED  BY <1>1, <1>6, <1>7, <1>9, <1>10, <1>11, WorkStep

(* Taking the first n messages out of the copy.                              *)
LEMMA TakeStep ==
  ASSUME SessionInv, NEW r \in Callers, copy[r] # None, NEW n \in 0 .. Len(copy[r].flash), S!Consume(r, n),
         NEW f \in Seq(Nat), Len(f) = Len(copy[r].flash) - n, \A i \in 1 .. Len(f) : f[i] = copy[r].flash[i + n],
         S!Works(r, "flash", [copy[r] EXCEPT !.flash = f]), inputs' = inputs, added' = added
  PROVE  SessionInv'
<1>0. PICK cookies : cookies = [copy[r] EXCEPT !.flash = f]
  OBVIOUS
<1>1. /\ copy[r] \in Cookies /\ copy[r].flash \in Seq(Nat) /\ added \in Nat /\ consumed \in Nat
      /\ wrong \in BOOLEAN /\ inputs \in [Callers -> BOOLEAN]
      /\ ~overlapped => ~wrong /\ Waiting(copy[r].flash)
  BY CopyOf
<1>2. cookies \in Cookies /\ cookies.token = copy[r].token /\ cookies.flash = f
  BY <1>0, <1>1 DEF Cookies
<1>3. CASE overlapped
  <2>1. consumed' = consumed /\ wrong' = wrong
    BY <1>3 DEF S!Consume
  <2>2. S!Works(r, "flash", cookies)
    BY <1>0
  <2>3. QED  BY <1>1, <1>2, <1>3, <2>1, <2>2, WorkStep
<1>4. CASE ~overlapped
  <2>1. consumed' = consumed + n
    BY <1>4 DEF S!Consume
  <2>2. wrong' = (wrong \/ \E i \in 1 .. n : copy[r].flash[i] # consumed + i)
    BY <1>4 DEF S!Consume
  <2>3. n \in Nat /\ Len(copy[r].flash) \in Nat /\ consumed' \in Nat
    BY <1>1, <2>1
  <2>4. \A i \in 1 .. n : copy[r].flash[i] = consumed + i
    BY <1>1, <1>4, <2>3 DEF Waiting
  <2>5. ~wrong'
    BY <1>1, <1>4, <2>2, <2>4
  <2>6. wrong' \in BOOLEAN
    BY <2>2
  <2>7. Len(f) = added' - consumed' /\ \A i \in 1 .. Len(f) : f[i] = consumed' + i
    <3>1. Len(f) = added' - consumed' /\ Len(f) \in Nat
      BY <1>1, <1>4, <2>1, <2>3 DEF Waiting
    <3>2. ASSUME NEW i \in 1 .. Len(f) PROVE f[i] = consumed' + i
      <4>1. i + n \in 1 .. Len(copy[r].flash) /\ f[i] = copy[r].flash[i + n]
        BY <2>3, <3>1
      <4>2. copy[r].flash[i + n] = consumed + (i + n)
        BY <1>1, <1>4, <4>1 DEF Waiting
      <4>3. QED  BY <1>1, <2>1, <2>3, <3>1, <4>1, <4>2
    <3>3. QED  BY <3>1, <3>2
  <2>8. S!Works(r, "flash", cookies)
    BY <1>0
  <2>9. QED  BY <1>1, <1>2, <2>3, <2>5, <2>6, <2>7, <2>8, <1>4, WorkStep
<1>5. QED  BY <1>3, <1>4

LEMMA GetFlashStep == ASSUME SessionInv, NEW r \in Callers, S!GetFlash(r) PROVE SessionInv'
<1>1. /\ copy[r] # None /\ copy[r].flash # <<>> /\ S!Consume(r, 1) /\ inputs' = inputs /\ added' = added
      /\ S!Works(r, "flash", [copy[r] EXCEPT !.flash = Tail(copy[r].flash)])
  BY DEF S!GetFlash
<1>2. copy[r].flash \in Seq(Nat)
  BY <1>1, CopyOf
<1>3. /\ Tail(copy[r].flash) \in Seq(Nat) /\ Len(Tail(copy[r].flash)) = Len(copy[r].flash) - 1
      /\ 1 \in 0 .. Len(copy[r].flash)
      /\ \A i \in 1 .. Len(Tail(copy[r].flash)) : Tail(copy[r].flash)[i] = copy[r].flash[i + 1]
  BY <1>1, <1>2
<1>4. QED  BY <1>1, <1>3, TakeStep

LEMMA ClearStep ==
  ASSUME SessionInv, NEW r \in Callers, S!GetAllFlashes(r) \/ S!ClearFlashes(r) PROVE SessionInv'
<1>1. /\ copy[r] # None /\ S!Consume(r, Len(copy[r].flash)) /\ inputs' = inputs /\ added' = added
      /\ S!Works(r, "flash", [copy[r] EXCEPT !.flash = <<>>])
  BY DEF S!GetAllFlashes, S!ClearFlashes
<1>2. copy[r].flash \in Seq(Nat) /\ Len(copy[r].flash) \in Nat
  BY <1>1, CopyOf
<1>3. PICK f \in Seq(Nat) : f = <<>> /\ Len(f) = Len(copy[r].flash) - Len(copy[r].flash)
  <2>1. <<>> \in Seq(Nat) /\ Len(<<>>) = 0 /\ Len(copy[r].flash) - Len(copy[r].flash) = 0
    BY <1>2
  <2>2. QED  BY <2>1
<1>5. Len(copy[r].flash) \in 0 .. Len(copy[r].flash) /\ 1 .. Len(f) = {}
  BY <1>2, <1>3
<1>4. QED  BY <1>1, <1>2, <1>3, <1>5, TakeStep

LEMMA SetOldStep == ASSUME SessionInv, NEW r \in Callers, S!SetOldInputs(r) PROVE SessionInv'
<1>1. /\ inputs' = [inputs EXCEPT ![r] = TRUE]
      /\ UNCHANGED <<jar, copy, saved, added, consumed, wrong, tokens, page, overlapped, lastLogin>>
  BY DEF S!SetOldInputs, S!clients
<1>2. QED
  BY <1>1 DEF SessionInv, SessionTypes, S!LoginKept, OneAtATime, AtMostOne, CopyIsJar, AtRest, Waiting

(* Operations that leave the messages alone.                                 *)
LEMMA OtherWork ==
  ASSUME SessionInv, NEW r \in Callers, copy[r] # None, NEW cookies \in Cookies, cookies.token = copy[r].token,
         cookies.flash = copy[r].flash, NEW session \in {"flash", "user", "token"}, S!Works(r, session, cookies),
         inputs' = inputs \/ inputs' = [inputs EXCEPT ![r] = FALSE], UNCHANGED <<added, consumed, wrong>>
  PROVE  SessionInv'
<1>1. /\ inputs' \in [Callers -> BOOLEAN] /\ added' \in Nat /\ consumed' \in Nat /\ wrong' \in BOOLEAN
      /\ ~overlapped => ~wrong'
  BY CopyOf
<1>2. ~overlapped => /\ Len(cookies.flash) = added' - consumed'
                     /\ \A i \in 1 .. Len(cookies.flash) : cookies.flash[i] = consumed' + i
  BY CopyOf DEF Waiting
<1>3. QED  BY <1>1, <1>2, WorkStep

LEMMA OldStep == ASSUME SessionInv, NEW r \in Callers, S!CommitOldInputs(r) \/ S!GetOldInputs(r) PROVE SessionInv'
<1>1. PICK b \in BOOLEAN :
        /\ copy[r] # None /\ S!Works(r, "flash", [copy[r] EXCEPT !.old = b])
        /\ inputs' = inputs \/ inputs' = [inputs EXCEPT ![r] = FALSE]
        /\ UNCHANGED <<added, consumed, wrong>>
  BY DEF S!CommitOldInputs, S!GetOldInputs
<1> DEFINE cookies == [copy[r] EXCEPT !.old = b]
<1>2. cookies \in Cookies /\ cookies.token = copy[r].token /\ cookies.flash = copy[r].flash
  BY <1>1, CopyOf DEF Cookies
<1>3. QED  BY <1>1, <1>2, OtherWork

LEMMA UserStep ==
  ASSUME SessionInv, NEW r \in Callers, S!ClearUser(r) \/ \E user \in SessionUsers : S!SetUser(r, user)
  PROVE  SessionInv'
<1>1. PICK u \in SessionUsers \cup {None} :
        /\ copy[r] # None /\ S!Works(r, "user", [copy[r] EXCEPT !.user = u])
        /\ UNCHANGED <<inputs, added, consumed, wrong>>
  BY DEF S!ClearUser, S!SetUser
<1> DEFINE cookies == [copy[r] EXCEPT !.user = u]
<1>2. cookies \in Cookies /\ cookies.token = copy[r].token /\ cookies.flash = copy[r].flash
  BY <1>1, CopyOf DEF Cookies
<1>3. QED  BY <1>1, <1>2, OtherWork

LEMMA DeliverStep == ASSUME SessionInv, NEW r \in Callers, S!Deliver(r) PROVE SessionInv'
<1>1. /\ copy[r] # None /\ jar' = S!Written(r)
      /\ lastLogin' = IF "user" \in saved[r] THEN copy[r].user ELSE lastLogin
      /\ copy' = [copy EXCEPT ![r] = None] /\ saved' = [saved EXCEPT ![r] = {}]
      /\ inputs' = [inputs EXCEPT ![r] = FALSE]
      /\ UNCHANGED <<added, consumed, wrong, tokens, page, overlapped>>
  BY DEF S!Deliver
<1>2. copy[r] \in Cookies /\ jar \in Cookies
  BY <1>1, CopyOf DEF SessionInv, SessionTypes
<1>3. /\ jar'.flash = IF "flash" \in saved[r] THEN copy[r].flash ELSE jar.flash
      /\ jar'.user = IF "user" \in saved[r] THEN copy[r].user ELSE jar.user
      /\ jar'.token = IF "token" \in saved[r] THEN copy[r].token ELSE jar.token
  BY <1>1 DEF S!Written
<1>4. jar' \in Cookies
  BY <1>1, <1>2 DEF S!Written, Cookies
<1>5. SessionTypes'
  BY <1>1, <1>4 DEF SessionInv, SessionTypes
<1>6. S!LoginKept'
  BY <1>1, <1>3 DEF SessionInv, S!LoginKept
<1>7. ASSUME ~overlapped PROVE OneAtATime'
  <2>1. OneAtATime
    BY <1>7 DEF SessionInv
  <2>2. \A q \in Callers : copy'[q] = None
    BY <1>1, <2>1 DEF OneAtATime, AtMostOne, SessionInv, SessionTypes
  <2>3. jar'.flash = copy[r].flash /\ Waiting(copy[r].flash) /\ jar'.token = copy[r].token
        /\ (page # None => copy[r].token = page)
    BY <1>1, <1>3, <2>1 DEF OneAtATime, CopyIsJar
  <2>4. AtRest'
    BY <1>1, <2>3 DEF AtRest, Waiting
  <2>5. QED  BY <1>1, <2>1, <2>2, <2>4 DEF OneAtATime, AtMostOne, CopyIsJar
<1>8. QED  BY <1>1, <1>5, <1>6, <1>7 DEF SessionInv

LEMMA SessionStep == SessionInv /\ [S!Next]_(S!vars) => SessionInv'
<1>1. SessionInv /\ UNCHANGED S!vars => SessionInv'
  BY DEF S!vars, SessionInv, SessionTypes, S!LoginKept, OneAtATime, AtMostOne, CopyIsJar, AtRest, Waiting
<1>2. QED
  BY <1>1, ProtectedStep, SkippedStep, AddFlashStep, GetFlashStep, ClearStep, SetOldStep, OldStep, UserStep,
     DeliverStep DEF S!Next

LEMMA SessionsRun == AppSpec => S!Init /\ [][S!Next]_(S!vars)
<1>1. AppInit => S!Init
  BY DEF AppInit
<1>2. [AppNext]_appVars => [S!Next]_(S!vars)
  BY DEF AppNext, Bus, Emitting, Policies, Seeding, Menus, Logins, Sessions, Requests, Routing, appVars, sessionVars, S!vars
<1>3. QED  BY <1>1, <1>2, PTL DEF AppSpec

(* Messages once and in order, no form refused, no login undone: for any     *)
(* requests, any number of messages and any users.                           *)
THEOREM SessionsHoldHolds == AppSpec => []SessionsHold
<1>1. SessionInv => SessionsHold
  <2> SUFFICES ASSUME SessionInv PROVE SessionsHold
    OBVIOUS
  <2>1. ASSUME ~overlapped, \A r \in Callers : copy[r] = None
        PROVE  jar.flash = [i \in 1 .. (added - consumed) |-> consumed + i]
    <3>1. jar.flash \in Seq(Nat) /\ Waiting(jar.flash)
      BY <2>1 DEF SessionInv, SessionTypes, Cookies, OneAtATime, AtRest
    <3>2. QED  BY <3>1 DEF Waiting
  <2>2. QED
    BY <2>1 DEF SessionInv, OneAtATime, SessionsHold, S!SessionsHold, S!SequentialClientServed
<1>2. QED  BY <1>1, SessionInit, SessionStep, SessionsRun, PTL

-----------------------------------------------------------------------------
(* The chain of middlewares.  Nothing is on the connection while a request   *)
(* is within Timeout; the writer that the layers of a side share knows what  *)
(* was written since the outermost of them was entered; and what was logged, *)
(* raised and answered fits the layers that are left.                        *)
Final == {0, 200, 204, 404, 413, 500, 503}
Parts == {"data", "error", "timeout"}
Outputs == [status : Final, parts : Seq(Parts)]
Statuses == [status : Final, wrote : BOOLEAN]
NoAnswer == [status |-> 0, parts |-> <<>>]
Unused == [status |-> 0, wrote |-> FALSE]
ServerError == [status |-> 500, parts |-> <<"error">>]

WriterTypes == raw \in [0 .. 1 -> Outputs] /\ sw \in [0 .. 1 -> Statuses]

ChainTypes ==
  /\ chain \in Chains /\ layer \in 0 .. Len(chain) + 1 /\ inward \in BOOLEAN
  /\ raised \in {None, "error", "abort"} /\ panicked \in {None, "error", "abort"}
  /\ raw \in [0 .. 1 -> Outputs] /\ sw \in [0 .. 1 -> Statuses]
  /\ logged \in Nat \cup {None} /\ hijacked \in BOOLEAN

(* The Timeout is among the first i layers, or a sharer of side s's writer.  *)
Within(i) == \E j \in 1 .. Len(chain) : j <= i /\ chain[j] = "Timeout"
Sharing(s, i) == \E j \in 1 .. Len(chain) : j <= i /\ chain[j] \in {"Recover", "Logger"} /\ C!Side(j) = s

Clean(s) == raw[s] = NoAnswer /\ sw[s] = Unused

(* A writer w around the output r: what it has not seen was not written, and *)
(* on the connection it knows the status, unless somebody tried to hijack.   *)
Agree(s, r, w, tried) ==
  /\ w.wrote = FALSE => r = NoAnswer
  /\ s = 0 /\ tried = FALSE => w.status = r.status /\ (w.wrote = FALSE <=> w.status = 0)

OneText(r) == \A k \in 1 .. Len(r.parts) : r.parts[k] # "data" => Len(r.parts) = 1 /\ r.status >= 400
OnlyData(r) == \A k \in 1 .. Len(r.parts) : r.parts[k] = "data"

OnTheWayIn ==
  inward => /\ layer > 0 /\ raised = None /\ panicked = None /\ logged = None
            /\ layer <= Len(chain) => Clean(0) /\ Clean(1)
            /\ \A s \in 0 .. 1 : OnlyData(raw[s])

OnTheWayOut == inward = FALSE => layer <= Len(chain)

ConnectionFree == Within(layer) => Clean(0)

WriterKnows == \A s \in 0 .. 1 : Sharing(s, layer) => Agree(s, raw[s], sw[s], hijacked)

OneBody == \A s \in 0 .. 1 : OneText(raw[s])

PanicMeetsRecover ==
  /\ raised = "error" => \A j \in 1 .. Len(chain) : chain[j] = "Recover" => j <= layer
  /\ raised # None => logged = None
  /\ panicked = "error" /\ raised = None => raw[IF Within(layer) THEN 1 ELSE 0] = ServerError

LoggerOutside ==
  /\ \E i \in 1 .. Len(chain) : chain[i] = "Logger" /\ C!Side(i) = 0
  /\ ~ \E i \in 1 .. Len(chain) : chain[i] = "Logger" /\ C!Side(i) = 1

LoggedIsSent ==
  LoggerOutside /\ logged # None =>
    ~Within(layer) /\ inward = FALSE /\ (raised = None /\ hijacked = FALSE => logged = C!StatusSent)

ChainInv ==
  /\ ChainTypes /\ OnTheWayIn /\ OnTheWayOut /\ ConnectionFree /\ WriterKnows
  /\ OneBody /\ PanicMeetsRecover /\ LoggedIsSent

-----------------------------------------------------------------------------
(* The layers and their sides. *)
LEMMA SideWithin ==
  ASSUME ChainTypes, NEW i \in 1 .. Len(chain) + 1
  PROVE  C!Side(i) \in 0 .. 1 /\ (C!Side(i) = 1 <=> Within(i - 1))
<1>1. Len(chain) \in Nat
  BY ChainAssumption DEF ChainTypes
<1>2. (\E j \in 1 .. (i - 1) : chain[j] = "Timeout") <=> Within(i - 1)
  BY <1>1 DEF Within
<1>3. QED  BY <1>2 DEF C!Side

LEMMA TimeoutSides ==
  ASSUME ChainTypes, NEW i \in 1 .. Len(chain), chain[i] = "Timeout"
  PROVE  /\ C!Side(i) = 0 /\ ~Within(i - 1)
         /\ \A j \in 1 .. Len(chain) : j <= i => C!Side(j) = 0
<1>1. Len(chain) \in Nat /\ \A j \in 1 .. Len(chain) : chain[j] = "Timeout" => j = i
  BY ChainAssumption DEF ChainTypes
<1>2. \A j \in 1 .. Len(chain) : j <= i => ~ \E k \in 1 .. (j - 1) : chain[k] = "Timeout"
  BY <1>1
<1>3. QED  BY <1>1, <1>2 DEF C!Side, Within

LEMMA LayerWithin ==
  ASSUME ChainTypes, NEW i \in 1 .. Len(chain) + 1, i <= Len(chain) => chain[i] # "Timeout"
  PROVE  Within(i) <=> Within(i - 1)
BY ChainAssumption DEF ChainTypes, Within

LEMMA WrappedShares ==
  ASSUME ChainTypes, NEW i \in 1 .. Len(chain) + 1
  PROVE  C!Wrapped(i) <=> Sharing(C!Side(i), i)
<1>1. Len(chain) \in Nat
  BY ChainAssumption DEF ChainTypes
<1>2. QED  BY <1>1 DEF C!Wrapped, C!Handler, Sharing

(* What a pair of writers does together. *)
LEMMA HeaderAgrees ==
  ASSUME NEW s \in 0 .. 1, NEW r \in Outputs, NEW w \in Statuses, NEW tried \in BOOLEAN, Agree(s, r, w, tried),
         NEW code \in Final \cup {103}, code # 0, NEW p \in Seq(Parts), code = 103 => p = r.parts
  PROVE  /\ [status |-> C!RawHeader(r, code).status, parts |-> p] \in Outputs
         /\ C!SwHeader(w, code) \in Statuses
         /\ Agree(s, [status |-> C!RawHeader(r, code).status, parts |-> p], C!SwHeader(w, code), tried)
<1>1. PICK t : t = C!RawHeader(r, code).status
  OBVIOUS
<1>2. r.status \in Final /\ r.parts \in Seq(Parts) /\ w.status \in Final /\ w.wrote \in BOOLEAN
  BY DEF Outputs, Statuses
<1>3. t = IF code >= 200 /\ r.status = 0 THEN code ELSE r.status
  BY <1>1 DEF C!RawHeader
<1>4. t \in Final
  BY <1>2, <1>3 DEF Final
<1>7. C!SwHeader(w, code) \in Statuses
  BY <1>2 DEF C!SwHeader, Statuses, Final
<1>8. Agree(s, [status |-> t, parts |-> p], C!SwHeader(w, code), tried)
  <2>1. CASE w.wrote = FALSE /\ code # 103
    <3>1. code >= 200 /\ C!SwHeader(w, code) = [status |-> code, wrote |-> TRUE]
      BY <2>1 DEF C!SwHeader, Final
    <3>2. s = 0 /\ tried = FALSE => r.status = 0
      BY <2>1 DEF Agree, NoAnswer
    <3>3. QED  BY <3>1, <3>2, <1>3 DEF Agree
  <2>2. CASE w.wrote = TRUE \/ code = 103
    <3>1. C!SwHeader(w, code) = w
      BY <2>2 DEF C!SwHeader
    <3>2. ASSUME w.wrote = FALSE PROVE [status |-> t, parts |-> p] = NoAnswer
      <4>1. r = NoAnswer /\ code = 103
        BY <2>2, <3>2 DEF Agree
      <4>2. QED  BY <4>1, <1>3 DEF NoAnswer
    <3>3. ASSUME s = 0, tried = FALSE PROVE w.status = t
      <4>1. w.status = r.status /\ (w.wrote = FALSE <=> w.status = 0)
        BY <3>3 DEF Agree
      <4>2. code = 103 => t = r.status
        BY <1>3
      <4>3. QED  BY <2>2, <4>1, <4>2, <1>3
    <3>4. QED  BY <3>1, <3>2, <3>3 DEF Agree
  <2>3. QED  BY <2>1, <2>2, <1>2
<1>9. [status |-> t, parts |-> p] \in Outputs
  BY <1>4 DEF Outputs
<1>10. QED  BY <1>1, <1>7, <1>8, <1>9

LEMMA WriteAgrees ==
  ASSUME NEW s \in 0 .. 1, NEW r \in Outputs, NEW w \in Statuses, NEW tried \in BOOLEAN, Agree(s, r, w, tried)
  PROVE  /\ C!SwWrite(w) \in Statuses
         /\ Agree(s, C!RawHeader(r, 200), C!SwWrite(w), tried)
         /\ Agree(s, C!RawWrite(r, "data"), C!SwWrite(w), tried)
<1>1. r.status \in Final /\ r.parts \in Seq(Parts) /\ w.status \in Final /\ w.wrote \in BOOLEAN
  BY DEF Outputs, Statuses
<1>2. PICK x : x = C!SwWrite(w)
  OBVIOUS
<1>3. x.wrote = TRUE /\ x \in Statuses
  BY <1>1, <1>2 DEF C!SwWrite, Statuses, Final
<1>4. ASSUME s = 0, tried = FALSE PROVE x.status = C!RawHeader(r, 200).status /\ x.status # 0
  <2>1. w.status = r.status /\ (w.wrote = FALSE <=> w.status = 0)
    BY <1>4 DEF Agree
  <2>2. C!RawHeader(r, 200).status = IF r.status = 0 THEN 200 ELSE r.status
    BY DEF C!RawHeader
  <2>3. x.status = IF w.wrote = FALSE THEN 200 ELSE w.status
    BY <1>1, <1>2 DEF C!SwWrite
  <2>4. QED  BY <2>1, <2>2, <2>3
<1>5. C!RawWrite(r, "data").status = C!RawHeader(r, 200).status
  BY DEF C!RawWrite
<1>6. QED  BY <1>2, <1>3, <1>4, <1>5 DEF Agree

(* What a step at a layer keeps, that leaves it or stays in the handler: it  *)
(* writes to its own side, through the shared writer where there is one.     *)
LEMMA Speaks ==
  ASSUME ChainTypes, ConnectionFree, WriterKnows, chain' = chain, layer \in 1 .. Len(chain) + 1,
         layer' = layer - 1 \/ (layer' = layer /\ layer = Len(chain) + 1),
         layer <= Len(chain) => chain[layer] # "Timeout",
         NEW s \in 0 .. 1, s = C!Side(layer), raw'[1 - s] = raw[1 - s], sw'[1 - s] = sw[1 - s],
         hijacked' = FALSE => hijacked = FALSE,
         C!Wrapped(layer) /\ Agree(s, raw[s], sw[s], hijacked) => Agree(s, raw'[s], sw'[s], hijacked')
  PROVE  ConnectionFree' /\ WriterKnows' /\ (Within(layer)' <=> s = 1)
<1>1. raw \in [0 .. 1 -> Outputs] /\ sw \in [0 .. 1 -> Statuses] /\ Len(chain) \in Nat
  BY ChainAssumption DEF ChainTypes
<1>2. raw'[1 - s] = raw[1 - s] /\ sw'[1 - s] = sw[1 - s]
  OBVIOUS
<1>3. (Within(layer)' <=> s = 1) /\ (Within(layer) <=> s = 1)
  <2>1. (s = 1 <=> Within(layer - 1)) /\ (Within(layer) <=> Within(layer - 1))
    BY SideWithin, LayerWithin
  <2>2. Within(layer)' <=> Within(layer')
    BY DEF Within
  <2>3. QED  BY <2>1, <2>2
<1>4. ConnectionFree'
  BY <1>2, <1>3 DEF ConnectionFree, Clean
<1>5. ASSUME NEW t \in 0 .. 1, Sharing(t, layer)' PROVE Agree(t, raw[t], sw[t], hijacked)'
  <2>1. Sharing(t, layer)
    BY <1>1, <1>5 DEF Sharing, C!Side
  <2>2. Agree(t, raw[t], sw[t], hijacked)
    BY <2>1 DEF WriterKnows
  <2>3. CASE t = s
    <3>1. C!Wrapped(layer)
      BY <2>1, <2>3, WrappedShares
    <3>2. Agree(s, raw'[s], sw'[s], hijacked')
      BY <2>2, <2>3, <3>1
    <3>3. QED  BY <3>2, <2>3 DEF Agree
  <2>4. CASE t # s
    <3>1. raw'[t] = raw[t] /\ sw'[t] = sw[t]
      BY <1>2, <2>4
    <3>2. QED  BY <3>1, <2>2 DEF Agree
  <2>5. QED  BY <2>3, <2>4
<1>6. WriterKnows'
  BY <1>5 DEF WriterKnows
<1>7. QED  BY <1>3, <1>4, <1>6

(* Nothing is written on the way past a layer. *)
LEMMA Passes ==
  ASSUME ChainTypes, ConnectionFree, WriterKnows, chain' = chain, layer \in 1 .. Len(chain) + 1, layer' = layer - 1,
         UNCHANGED <<raw, sw, hijacked>>
  PROVE  ConnectionFree' /\ WriterKnows' /\ (Within(layer)' => Within(layer))
<1>1. Len(chain) \in Nat
  BY ChainAssumption DEF ChainTypes
<1>2. Within(layer)' => Within(layer)
  BY <1>1 DEF Within
<1>3. \A t \in 0 .. 1 : Sharing(t, layer)' => Sharing(t, layer)
  BY <1>1 DEF Sharing, C!Side
<1>4. ConnectionFree'
  BY <1>2 DEF ConnectionFree, Clean
<1>5. WriterKnows'
  BY <1>3 DEF WriterKnows, Agree
<1>6. QED  BY <1>2, <1>4, <1>5

LEMMA ChainInit == C!Init => ChainInv
<1> SUFFICES ASSUME C!Init PROVE ChainInv
  OBVIOUS
<1>1. chain \in Seq(C!Layers) /\ Len(chain) \in Nat
  BY ChainAssumption DEF C!Init
<1>2. raw \in [0 .. 1 -> Outputs] /\ sw \in [0 .. 1 -> Statuses]
      /\ \A s \in 0 .. 1 : raw[s] = NoAnswer /\ sw[s] = Unused
  BY DEF C!Init, Outputs, Statuses, NoAnswer, Unused, Final
<1>3. inward = TRUE /\ hijacked = FALSE /\ layer = 1 /\ raised = None /\ panicked = None /\ logged = None
  BY DEF C!Init
<1>4. ChainTypes
  <2>1. layer \in 0 .. Len(chain) + 1 /\ chain \in Chains
    BY <1>1, <1>3 DEF C!Init
  <2>2. inward \in BOOLEAN /\ hijacked \in BOOLEAN
    BY <1>3
  <2>3. raised \in {None, "error", "abort"} /\ panicked \in {None, "error", "abort"} /\ logged \in Nat \cup {None}
    BY <1>3
  <2>4. QED  BY <1>2, <2>1, <2>2, <2>3 DEF ChainTypes
<1>5. OnTheWayIn /\ OnTheWayOut /\ ConnectionFree
  BY <1>2, <1>3 DEF OnTheWayIn, OnTheWayOut, ConnectionFree, Clean, OnlyData, NoAnswer
<1>6. WriterKnows
  BY <1>2 DEF WriterKnows, Agree, NoAnswer, Unused
<1>7. OneBody
  BY <1>2 DEF OneBody, OneText, NoAnswer
<1>8. PanicMeetsRecover /\ LoggedIsSent
  BY <1>3, ChainAssumption DEF PanicMeetsRecover, LoggedIsSent
<1>9. QED  BY <1>4, <1>5, <1>6, <1>7, <1>8 DEF ChainInv

(* The first answer on a side. *)
LEMMA FirstAgrees ==
  ASSUME NEW s \in 0 .. 1, NEW w \in Statuses, NEW v \in Outputs, v.status # 0, NEW tried \in BOOLEAN,
         Agree(s, NoAnswer, w, tried)
  PROVE  C!SwHeader(w, v.status) \in Statuses /\ Agree(s, v, C!SwHeader(w, v.status), tried)
<1>1. v.status \in Final \cup {103} /\ v.status # 103 /\ v.parts \in Seq(Parts)
  BY DEF Final, Outputs
<1>2. NoAnswer \in Outputs
  BY DEF NoAnswer, Outputs, Final
<1>3. [status |-> C!RawHeader(NoAnswer, v.status).status, parts |-> v.parts] = v
  BY <1>1 DEF NoAnswer, C!RawHeader, Outputs, Final
<1>4. QED  BY <1>1, <1>2, <1>3, HeaderAgrees

LEMMA OnRaw ==
  ASSUME NEW f \in [0 .. 1 -> Outputs], NEW s \in 0 .. 1, NEW v \in Outputs
  PROVE  [f EXCEPT ![s] = v] \in [0 .. 1 -> Outputs] /\ [f EXCEPT ![s] = v][s] = v
         /\ [f EXCEPT ![s] = v][1 - s] = f[1 - s]
OBVIOUS

LEMMA OnSw ==
  ASSUME NEW f \in [0 .. 1 -> Statuses], NEW s \in 0 .. 1, NEW w \in Statuses
  PROVE  [f EXCEPT ![s] = w] \in [0 .. 1 -> Statuses] /\ [f EXCEPT ![s] = w][s] = w
         /\ [f EXCEPT ![s] = w][1 - s] = f[1 - s]
OBVIOUS

(* Layer i says v on its side s, through the writer there where it has one.  *)
Says(i, s, v) ==
  /\ raw' = [raw EXCEPT ![s] = v]
  /\ sw' = IF C!Wrapped(i) THEN [sw EXCEPT ![s] = C!SwHeader(sw[s], v.status)] ELSE sw

Said(i, s, v) ==
  /\ WriterTypes' /\ raw'[s] = v
  /\ \A t \in 0 .. 1 : t # s => raw'[t] = raw[t] /\ sw'[t] = sw[t]
  /\ \A tried \in BOOLEAN :
       C!Wrapped(i) /\ Agree(s, NoAnswer, sw[s], tried) => Agree(s, raw'[s], sw'[s], tried)

LEMMA FirstAnswer ==
  ASSUME ChainTypes, NEW i, NEW s \in 0 .. 1, NEW v \in Outputs, v.status # 0, Says(i, s, v)
  PROVE  Said(i, s, v)
<1>9. raw' = [raw EXCEPT ![s] = v] /\ (~C!Wrapped(i) => sw' = sw)
      /\ (C!Wrapped(i) => sw' = [sw EXCEPT ![s] = C!SwHeader(sw[s], v.status)])
  BY DEF Says
<1>1. raw \in [0 .. 1 -> Outputs] /\ sw \in [0 .. 1 -> Statuses] /\ s \in 0 .. 1 /\ sw[s] \in Statuses
  BY DEF ChainTypes
<1>2. raw' \in [0 .. 1 -> Outputs] /\ raw'[s] = v /\ raw'[1 - s] = raw[1 - s]
  BY <1>1, <1>9, OnRaw
<1>3. PICK w : w = C!SwHeader(sw[s], v.status)
  OBVIOUS
<1>4. w \in Statuses
  BY <1>1, <1>3 DEF C!SwHeader, Statuses, Outputs, Final
<1>5. \A tried \in BOOLEAN : Agree(s, NoAnswer, sw[s], tried) => Agree(s, v, w, tried)
  BY <1>1, <1>3, FirstAgrees
<1>8. \A t \in 0 .. 1 : t # s => t = 1 - s
  OBVIOUS
<1>6. CASE C!Wrapped(i)
  <2>1. sw' \in [0 .. 1 -> Statuses] /\ sw'[1 - s] = sw[1 - s] /\ sw'[s] = w
    BY <1>1, <1>3, <1>4, <1>6, <1>9, OnSw
  <2>2. QED  BY <2>1, <1>2, <1>5, <1>8 DEF WriterTypes, Said
<1>7. CASE ~C!Wrapped(i)
  BY <1>1, <1>2, <1>7, <1>8, <1>9 DEF WriterTypes, Said
<1>10. QED  BY <1>2, <1>6, <1>7 DEF WriterTypes, Said

(* A layer answers itself, inward or as it recovers: one text, or none.      *)
LEMMA AnswersOnce ==
  ASSUME ChainInv, layer \in 1 .. Len(chain), chain[layer] # "Timeout", chain' = chain, C!Leave,
         raised' = None, logged = None, UNCHANGED <<logged, hijacked, panicked>>,
         NEW s \in 0 .. 1, s = C!Side(layer),
         WriterTypes', raw'[1 - s] = raw[1 - s], sw'[1 - s] = sw[1 - s],
         C!Wrapped(layer) /\ Agree(s, raw[s], sw[s], hijacked) => Agree(s, raw'[s], sw'[s], hijacked),
         OneText(raw'[s]), panicked = "error" => raw'[s] = ServerError
  PROVE  ChainInv'
<1>1. layer' = layer - 1 /\ inward' = FALSE /\ Len(chain) \in Nat /\ layer \in 1 .. Len(chain) + 1
  BY ChainAssumption DEF ChainInv, ChainTypes, C!Leave
<1>2. ChainTypes /\ ConnectionFree /\ WriterKnows
  BY DEF ChainInv
<1>3. hijacked' = FALSE => hijacked = FALSE
  OBVIOUS
<1>4. ConnectionFree' /\ WriterKnows' /\ (Within(layer)' <=> s = 1)
  BY <1>1, <1>2, <1>3, Speaks
<1>5. ChainTypes'
  <2>1. layer' \in 0 .. Len(chain') + 1
    BY <1>1
  <2>2. inward' \in BOOLEAN
    BY <1>1
  <2>3. hijacked' \in BOOLEAN
    BY <1>2 DEF ChainTypes
  <2>4. chain' \in Chains /\ panicked' \in {None, "error", "abort"}
    BY <1>2 DEF ChainTypes
  <2>5. raised' \in {None, "error", "abort"} /\ logged' \in Nat \cup {None}
    OBVIOUS
  <2>6. QED  BY <2>1, <2>2, <2>3, <2>4, <2>5 DEF ChainTypes, WriterTypes
<1>6. OnTheWayIn' /\ OnTheWayOut'
  BY <1>1 DEF OnTheWayIn, OnTheWayOut
<1>7. OneBody'
  <2>1. OneText(raw'[1 - s])
    BY DEF ChainInv, OneBody
  <2>2. \A t \in 0 .. 1 : t = s \/ t = 1 - s
    OBVIOUS
  <2>3. \A t \in 0 .. 1 : OneText(raw'[t])
    BY <2>1, <2>2
  <2>4. QED  BY <2>3 DEF OneBody, OneText
<1>8. PanicMeetsRecover'
  <2>1. (IF Within(layer)' THEN 1 ELSE 0) = s
    BY <1>4
  <2>2. QED  BY <2>1, ChainAssumption DEF PanicMeetsRecover
<1>9. LoggedIsSent'
  BY DEF LoggedIsSent
<1>10. QED  BY <1>4, <1>5, <1>6, <1>7, <1>8, <1>9 DEF ChainInv

(* The handler writes, or tries to hijack: what it sends are data. *)
LEMMA HandlerSpeaks ==
  ASSUME ChainInv, C!Operates, NEW s \in 0 .. 1, s = C!Side(layer), NEW v \in Outputs, NEW w \in Statuses,
         OnlyData(raw[s]) => OnlyData(v),
         raw' = [raw EXCEPT ![s] = v], sw' = IF C!Wrapped(layer) THEN [sw EXCEPT ![s] = w] ELSE sw,
         hijacked' \in BOOLEAN, hijacked' = FALSE => hijacked = FALSE,
         Agree(s, raw[s], sw[s], hijacked) => Agree(s, v, w, hijacked')
  PROVE  ChainInv'
<1>1. /\ layer = Len(chain) + 1 /\ chain' = chain /\ layer' = layer /\ inward' = inward /\ raised' = raised
      /\ logged' = logged /\ panicked' = panicked
  BY DEF C!Operates, C!InHandler, C!Handler, C!fixed
<1>2. inward = TRUE
  BY DEF C!Operates, C!InHandler, ChainInv, ChainTypes
<1>3. raw \in [0 .. 1 -> Outputs] /\ sw \in [0 .. 1 -> Statuses] /\ Len(chain) \in Nat
  BY ChainAssumption DEF ChainInv, ChainTypes
<1>4. raw' \in [0 .. 1 -> Outputs] /\ raw'[s] = v /\ raw'[1 - s] = raw[1 - s]
  BY <1>3
<1>5. sw' \in [0 .. 1 -> Statuses] /\ (C!Wrapped(layer) => sw'[s] = w) /\ sw'[1 - s] = sw[1 - s]
  BY <1>3
<1>6. ConnectionFree' /\ WriterKnows'
  <2>1. layer \in 1 .. Len(chain) + 1 /\ ~(layer <= Len(chain))
    BY <1>1, <1>3
  <2>2. C!Wrapped(layer) /\ Agree(s, raw[s], sw[s], hijacked) => Agree(s, raw'[s], sw'[s], hijacked')
    BY <1>4, <1>5
  <2>3. ChainTypes /\ ConnectionFree /\ WriterKnows
    BY DEF ChainInv
  <2>4. QED  BY <2>1, <2>2, <2>3, <1>1, <1>4, <1>5, Speaks
<1>7. ChainTypes'
  <2>1. layer' \in 0 .. Len(chain') + 1
    BY <1>1, <1>3
  <2>2. inward' \in BOOLEAN
    BY <1>1, <1>2
  <2>3. /\ chain' \in Chains /\ panicked' \in {None, "error", "abort"}
        /\ raised' \in {None, "error", "abort"} /\ logged' \in Nat \cup {None}
    BY <1>1 DEF ChainInv, ChainTypes
  <2>4. QED  BY <2>1, <2>2, <2>3, <1>4, <1>5 DEF ChainTypes
<1>8. \A t \in 0 .. 1 : t = s \/ t = 1 - s
  OBVIOUS
<1>9. raised = None /\ panicked = None /\ logged = None /\ \A t \in 0 .. 1 : OnlyData(raw[t])
  BY <1>2 DEF ChainInv, OnTheWayIn
<1>10. \A t \in 0 .. 1 : OnlyData(raw'[t])
  BY <1>4, <1>8, <1>9
<1>11. OnTheWayIn' /\ OnTheWayOut'
  <2>1. layer' > 0 /\ ~(layer' <= Len(chain'))
    BY <1>1, <1>3
  <2>2. inward' # FALSE
    BY <1>1, <1>2
  <2>3. OnTheWayIn'
    BY <2>1, <1>1, <1>9, <1>10 DEF OnTheWayIn, OnlyData
  <2>4. OnTheWayOut'
    BY <2>2 DEF OnTheWayOut
  <2>5. QED  BY <2>3, <2>4
<1>12. OneBody'
  BY <1>10 DEF OneBody, OneText, OnlyData
<1>13. PanicMeetsRecover' /\ LoggedIsSent'
  BY <1>1, <1>9, ChainAssumption DEF PanicMeetsRecover, LoggedIsSent
<1>14. QED  BY <1>6, <1>7, <1>11, <1>12, <1>13 DEF ChainInv

LEMMA HandlerSide ==
  ASSUME ChainInv, C!Operates
  PROVE  /\ C!Side(layer) \in 0 .. 1 /\ raw[C!Side(layer)] \in Outputs /\ sw[C!Side(layer)] \in Statuses
         /\ hijacked \in BOOLEAN
<1>1. ChainTypes /\ layer = Len(chain) + 1 /\ Len(chain) \in Nat
  BY ChainAssumption DEF ChainInv, ChainTypes, C!Operates, C!InHandler, C!Handler
<1>2. C!Side(layer) \in 0 .. 1
  BY <1>1, SideWithin
<1>3. QED  BY <1>1, <1>2 DEF ChainTypes

LEMMA HandlerHeaderStep ==
  ASSUME ChainInv, NEW code \in {103, 200, 404}, C!HandlerHeader(code)
  PROVE  ChainInv'
<1>1. PICK s : s = C!Side(layer)
  OBVIOUS
<1>2. /\ C!Operates /\ hijacked' = hijacked
      /\ raw' = [raw EXCEPT ![s] = C!RawHeader(raw[s], code)]
      /\ sw' = IF C!Wrapped(layer) THEN [sw EXCEPT ![s] = C!SwHeader(sw[s], code)] ELSE sw
  BY <1>1 DEF C!HandlerHeader, C!WriteHeader
<1>3. s \in 0 .. 1 /\ raw[s] \in Outputs /\ sw[s] \in Statuses /\ hijacked \in BOOLEAN
  BY <1>1, <1>2, HandlerSide
<1>4. code \in Final \cup {103} /\ code # 0 /\ raw[s].parts \in Seq(Parts)
  BY <1>3 DEF Final, Outputs
<1>5. C!RawHeader(raw[s], code) = [status |-> C!RawHeader(raw[s], code).status, parts |-> raw[s].parts]
  BY DEF C!RawHeader
<1>6. raw[s].status \in Final
  BY <1>3 DEF Outputs
<1>7. C!RawHeader(raw[s], code) \in Outputs /\ C!RawHeader(raw[s], code).parts = raw[s].parts
  BY <1>4, <1>6 DEF Outputs, C!RawHeader, Final
<1>8. C!SwHeader(sw[s], code) \in Statuses
  BY <1>3, <1>4 DEF Statuses, C!SwHeader, Final
<1>9. Agree(s, raw[s], sw[s], hijacked) => Agree(s, C!RawHeader(raw[s], code), C!SwHeader(sw[s], code), hijacked)
  BY <1>3, <1>4, <1>5, HeaderAgrees
<1>10. OnlyData(raw[s]) => OnlyData(C!RawHeader(raw[s], code))
  BY <1>7 DEF OnlyData
<1>11. QED  BY <1>1, <1>2, <1>3, <1>7, <1>8, <1>9, <1>10, HandlerSpeaks

LEMMA HandlerWriteStep == ASSUME ChainInv, C!HandlerWrite PROVE ChainInv'
<1>1. PICK s : s = C!Side(layer)
  OBVIOUS
<1>2. /\ C!Operates /\ hijacked' = hijacked
      /\ raw' = [raw EXCEPT ![s] = C!RawWrite(raw[s], "data")]
      /\ sw' = IF C!Wrapped(layer) THEN [sw EXCEPT ![s] = C!SwWrite(sw[s])] ELSE sw
  BY <1>1 DEF C!HandlerWrite
<1>3. s \in 0 .. 1 /\ raw[s] \in Outputs /\ sw[s] \in Statuses /\ hijacked \in BOOLEAN
  BY <1>1, <1>2, HandlerSide
<1>4. PICK v : v = C!RawWrite(raw[s], "data")
  OBVIOUS
<1>5. raw[s].parts \in Seq(Parts) /\ raw[s].status \in Final /\ "data" \in Parts
  BY <1>3 DEF Outputs, Parts
<1>6. C!RawHeader(raw[s], 200).status \in Final
  BY <1>5 DEF C!RawHeader, Final
<1>7. v.parts = Append(raw[s].parts, "data") /\ v \in Outputs
  BY <1>4, <1>5, <1>6 DEF C!RawWrite, Outputs
<1>8. OnlyData(raw[s]) => OnlyData(v)
  BY <1>5, <1>7 DEF OnlyData
<1>9. C!SwWrite(sw[s]) \in Statuses
  BY <1>3 DEF Statuses, C!SwWrite, Final
<1>10. Agree(s, raw[s], sw[s], hijacked) => Agree(s, v, C!SwWrite(sw[s]), hijacked)
  BY <1>3, <1>4, WriteAgrees
<1>11. QED  BY <1>1, <1>2, <1>3, <1>4, <1>7, <1>8, <1>9, <1>10, HandlerSpeaks

(* Within Timeout, a flush does nothing and counts as a start. *)
LEMMA HandlerFlushStep == ASSUME ChainInv, C!HandlerFlush PROVE ChainInv'
<1>1. PICK s : s = C!Side(layer)
  OBVIOUS
<1>2. /\ C!Operates /\ hijacked' = hijacked
      /\ raw' = IF s = 0 THEN [raw EXCEPT ![0] = C!RawHeader(raw[0], 200)] ELSE raw
      /\ sw' = IF C!Wrapped(layer) THEN [sw EXCEPT ![s] = C!SwWrite(sw[s])] ELSE sw
  BY <1>1 DEF C!HandlerFlush
<1>3. s \in 0 .. 1 /\ raw[s] \in Outputs /\ sw[s] \in Statuses /\ hijacked \in BOOLEAN
  BY <1>1, <1>2, HandlerSide
<1>4. raw \in [0 .. 1 -> Outputs]
  BY DEF ChainInv, ChainTypes
<1>5. PICK v : v = IF s = 0 THEN C!RawHeader(raw[0], 200) ELSE raw[s]
  OBVIOUS
<1>6. raw' = [raw EXCEPT ![s] = v]
  BY <1>2, <1>3, <1>4, <1>5
<1>7. raw[s].status \in Final /\ raw[s].parts \in Seq(Parts)
  BY <1>3 DEF Outputs
<1>8. C!RawHeader(raw[s], 200) \in Outputs /\ C!RawHeader(raw[s], 200).parts = raw[s].parts
  BY <1>7 DEF C!RawHeader, Outputs, Final
<1>9. v \in Outputs /\ v.parts = raw[s].parts
  BY <1>3, <1>5, <1>8
<1>10. OnlyData(raw[s]) => OnlyData(v)
  BY <1>9 DEF OnlyData
<1>11. C!SwWrite(sw[s]) \in Statuses /\ C!SwWrite(sw[s]).wrote = TRUE
  BY <1>3 DEF Statuses, C!SwWrite, Final
<1>12. Agree(s, raw[s], sw[s], hijacked) => Agree(s, v, C!SwWrite(sw[s]), hijacked)
  <2>1. CASE s = 0
    BY <2>1, <1>3, <1>5, WriteAgrees
  <2>2. CASE s # 0
    BY <2>2, <1>11 DEF Agree
  <2>3. QED  BY <2>1, <2>2
<1>13. QED  BY <1>1, <1>2, <1>3, <1>6, <1>9, <1>10, <1>11, <1>12, HandlerSpeaks

LEMMA HandlerHijackStep == ASSUME ChainInv, C!HandlerHijack PROVE ChainInv'
<1>1. PICK s : s = C!Side(layer)
  OBVIOUS
<1>2. C!Operates /\ hijacked' = TRUE /\ raw' = raw
  BY DEF C!HandlerHijack
<1>3. s \in 0 .. 1 /\ raw[s] \in Outputs /\ sw[s] \in Statuses /\ hijacked \in BOOLEAN
  BY <1>1, <1>2, HandlerSide
<1>4. raw \in [0 .. 1 -> Outputs]
  BY DEF ChainInv, ChainTypes
<1>5. raw' = [raw EXCEPT ![s] = raw[s]]
  BY <1>2, <1>3, <1>4
<1>6. [sw[s] EXCEPT !.wrote = TRUE] \in Statuses /\ [sw[s] EXCEPT !.wrote = TRUE].wrote = TRUE
  BY <1>3 DEF Statuses
<1>7. sw' = IF C!Wrapped(layer) THEN [sw EXCEPT ![s] = [sw[s] EXCEPT !.wrote = TRUE]] ELSE sw
  BY <1>1 DEF C!HandlerHijack
<1>8. Agree(s, raw[s], [sw[s] EXCEPT !.wrote = TRUE], TRUE)
  BY <1>6 DEF Agree
<1>9. hijacked' \in BOOLEAN /\ (hijacked' = FALSE => hijacked = FALSE)
  BY <1>2
<1>10. QED  BY <1>1, <1>2, <1>3, <1>5, <1>6, <1>7, <1>8, <1>9, HandlerSpeaks

(* The way out of a layer that writes nothing. *)
LEMMA Leaves ==
  ASSUME ChainInv, C!Leave, layer \in 1 .. Len(chain) + 1, chain' = chain, UNCHANGED <<raw, sw, hijacked>>,
         raised' \in {None, "error", "abort"}, panicked' \in {None, "error", "abort"}, logged' \in Nat \cup {None},
         PanicMeetsRecover', LoggedIsSent'
  PROVE  ChainInv'
<1>1. layer' = layer - 1 /\ inward' = FALSE /\ Len(chain) \in Nat
  BY ChainAssumption DEF C!Leave, ChainInv, ChainTypes
<1>2. ConnectionFree' /\ WriterKnows'
  BY <1>1, Passes DEF ChainInv
<1>3. ChainTypes'
  <2>1. layer' \in 0 .. Len(chain') + 1
    BY <1>1
  <2>2. inward' \in BOOLEAN
    BY <1>1
  <2>3. hijacked' \in BOOLEAN
    BY DEF ChainInv, ChainTypes
  <2>4. chain' \in Chains /\ raw' \in [0 .. 1 -> Outputs] /\ sw' \in [0 .. 1 -> Statuses]
    BY DEF ChainInv, ChainTypes
  <2>5. QED  BY <2>1, <2>2, <2>3, <2>4 DEF ChainTypes
<1>4. OnTheWayIn'
  BY <1>1 DEF OnTheWayIn
<1>5. OnTheWayOut'
  BY <1>1 DEF OnTheWayOut
<1>6. OneBody'
  BY DEF ChainInv, OneBody, OneText
<1>7. QED  BY <1>2, <1>3, <1>4, <1>5, <1>6 DEF ChainInv

LEMMA HandlerEndsStep ==
  ASSUME ChainInv, NEW panic \in {None, "error", "abort"}, C!HandlerEnds(panic)
  PROVE  ChainInv'
<1>1. /\ layer = Len(chain) + 1 /\ C!Leave /\ chain' = chain /\ UNCHANGED <<raw, sw, hijacked>>
      /\ raised' = panic /\ panicked' = panic /\ logged' = logged
  BY DEF C!HandlerEnds, C!InHandler, C!Handler, C!fixed
<1>2. inward = TRUE
  BY DEF C!HandlerEnds, C!InHandler, ChainInv, ChainTypes
<1>3. logged = None
  BY <1>2 DEF ChainInv, OnTheWayIn
<1>4. Len(chain) \in Nat /\ layer' = Len(chain)
  BY <1>1, ChainAssumption DEF ChainInv, ChainTypes, C!Leave
<1>5. PanicMeetsRecover'
  <2>1. \A j \in 1 .. Len(chain) : j <= layer'
    BY <1>4
  <2>2. panicked' = "error" => raised' # None
    BY <1>1, ChainAssumption
  <2>3. QED  BY <2>1, <2>2, <1>1, <1>3 DEF PanicMeetsRecover
<1>6. LoggedIsSent'
  BY <1>1, <1>3 DEF LoggedIsSent
<1>7. layer \in 1 .. Len(chain) + 1 /\ logged' \in Nat \cup {None}
  BY <1>1, <1>3, <1>4
<1>8. QED  BY <1>1, <1>5, <1>6, <1>7, Leaves

(* What is past a layer that is no Recover, and neither logs nor writes.     *)
LEMMA Beyond ==
  ASSUME ChainInv, layer \in 1 .. Len(chain), C!Leave, chain' = chain, UNCHANGED <<raw, sw, hijacked, raised, panicked>>,
         chain[layer] # "Timeout"
  PROVE  /\ Within(layer)' <=> Within(layer)
         /\ panicked' = "error" /\ raised' = None => raw'[IF Within(layer)' THEN 1 ELSE 0] = ServerError
         /\ chain[layer] # "Recover" /\ raised' = "error"
              => \A j \in 1 .. Len(chain') : chain'[j] = "Recover" => j <= layer'
<1>1. Len(chain) \in Nat /\ layer' = layer - 1 /\ ChainTypes
  BY ChainAssumption DEF ChainInv, ChainTypes, C!Leave
<1>2. Within(layer) <=> Within(layer - 1)
  BY <1>1, LayerWithin
<1>3. Within(layer)' <=> Within(layer)
  BY <1>1, <1>2 DEF Within
<1>4. panicked' = "error" /\ raised' = None => raw'[IF Within(layer)' THEN 1 ELSE 0] = ServerError
  BY <1>3 DEF ChainInv, PanicMeetsRecover
<1>5. ASSUME chain[layer] # "Recover", raised' = "error", NEW j \in 1 .. Len(chain), chain[j] = "Recover"
      PROVE  j <= layer'
  <2>1. j <= layer
    BY <1>5 DEF ChainInv, PanicMeetsRecover
  <2>2. j # layer
    BY <1>5
  <2>3. QED  BY <2>1, <2>2, <1>1
<1>6. QED  BY <1>3, <1>4, <1>5

LEMMA PassOutStep == ASSUME ChainInv, C!PassOut PROVE ChainInv'
<1>1. /\ C!Leave /\ chain' = chain /\ UNCHANGED <<raw, sw, hijacked, raised, panicked, logged>>
      /\ layer > 0 /\ chain[layer] # "Timeout" /\ chain[layer] # "Recover"
  BY DEF C!PassOut, C!Untouched, C!fixed
<1>2. inward = FALSE
  BY DEF C!PassOut, ChainInv, ChainTypes
<1>3. layer \in 1 .. Len(chain)
  BY <1>1, <1>2 DEF ChainInv, ChainTypes, OnTheWayOut
<1>4. PanicMeetsRecover'
  BY <1>1, <1>3, Beyond DEF PanicMeetsRecover, ChainInv
<1>5. LoggedIsSent'
  BY <1>1, <1>2, <1>3, Beyond DEF LoggedIsSent, LoggerOutside, ChainInv, C!StatusSent, C!Side, C!Leave
<1>6. raised' \in {None, "error", "abort"} /\ panicked' \in {None, "error", "abort"} /\ logged' \in Nat \cup {None}
  BY <1>1 DEF ChainInv, ChainTypes
<1>7. layer \in 1 .. Len(chain) + 1
  BY <1>3, ChainAssumption DEF ChainInv, ChainTypes
<1>8. QED  BY <1>1, <1>4, <1>5, <1>6, <1>7, Leaves

LEMMA LoggerStep == ASSUME ChainInv, C!Logger PROVE ChainInv'
<1>1. /\ C!Leave /\ chain' = chain /\ UNCHANGED <<raw, sw, hijacked, raised, panicked>>
      /\ layer > 0 /\ chain[layer] = "Logger" /\ inward' = FALSE
  BY DEF C!Logger, C!Out, C!Untouched, C!fixed, C!Leave
<1>2. inward = FALSE
  BY DEF C!Logger, C!Out, ChainInv, ChainTypes
<1>3. layer \in 1 .. Len(chain) /\ ChainTypes /\ Len(chain) \in Nat
  BY <1>1, <1>2, ChainAssumption DEF ChainInv, ChainTypes, OnTheWayOut
<1>4. PICK s : s = C!Side(layer)
  OBVIOUS
<1>5. s \in 0 .. 1 /\ (s = 1 <=> Within(layer - 1)) /\ layer \in 1 .. Len(chain) + 1
  BY <1>3, <1>4, SideWithin
<1>6. sw[s].status \in Final
  BY <1>3, <1>5 DEF ChainTypes, Statuses
<1>7. logged' = IF raised # None THEN logged ELSE IF sw[s].status = 0 THEN 200 ELSE sw[s].status
  BY <1>4 DEF C!Logger
<1>8. logged' \in Nat \cup {None} /\ raised' \in {None, "error", "abort"} /\ panicked' \in {None, "error", "abort"}
  <2>1. sw[s].status \in Nat /\ logged \in Nat \cup {None}
    BY <1>3, <1>6 DEF ChainTypes, Final
  <2>2. QED  BY <2>1, <1>1, <1>3, <1>7 DEF ChainTypes
<1>9. PanicMeetsRecover'
  <2>1. raised' # None => logged' = None
    BY <1>1, <1>7 DEF ChainInv, PanicMeetsRecover
  <2>2. chain[layer] # "Timeout" /\ chain[layer] # "Recover"
    BY <1>1
  <2>3. QED  BY <2>1, <2>2, <1>1, <1>3, Beyond DEF PanicMeetsRecover
<1>10. LoggedIsSent'
  <2> SUFFICES ASSUME LoggerOutside', logged' # None
               PROVE  ~Within(layer)' /\ (raised' = None /\ hijacked' = FALSE => logged' = C!StatusSent')
    BY <1>1 DEF LoggedIsSent
  <2>1. LoggerOutside
    BY <1>1 DEF LoggerOutside, C!Side
  <2>2. s = 0
    BY <2>1, <1>1, <1>3, <1>4, <1>5 DEF LoggerOutside
  <2>3. ~Within(layer)'
    BY <2>2, <1>1, <1>5 DEF Within, C!Leave
  <2>4. ASSUME raised' = None, hijacked' = FALSE PROVE logged' = C!StatusSent'
    <3>1. Sharing(s, layer)
      BY <1>1, <1>3, <1>4, <1>5 DEF Sharing
    <3>2. sw[0].status = raw[0].status
      BY <3>1, <2>2, <2>4, <1>1 DEF ChainInv, WriterKnows, Agree
    <3>3. QED  BY <3>2, <2>2, <2>4, <1>1, <1>7 DEF C!StatusSent
  <2>5. QED  BY <2>3, <2>4, Zenon
<1>11. QED  BY <1>1, <1>5, <1>8, <1>9, <1>10, Leaves

(* The answer of a Recover to a panic, where nothing has been sent yet.      *)
LEMMA RecoverAnswers ==
  ASSUME ChainInv, layer \in 1 .. Len(chain), chain[layer] = "Recover", raised = "error",
         NEW s \in 0 .. 1, s = C!Side(layer), sw[s].wrote = FALSE,
         C!Answers(layer, 500, <<"error">>), C!Leave, chain' = chain, raised' = None,
         UNCHANGED <<hijacked, panicked, logged>>
  PROVE  ChainInv'
<1>1. ChainTypes /\ Len(chain) \in Nat /\ hijacked \in BOOLEAN
  BY ChainAssumption DEF ChainInv, ChainTypes
<1>2. Sharing(s, layer)
  BY <1>1 DEF Sharing
<1>3. raw[s] = NoAnswer
  BY <1>2 DEF ChainInv, WriterKnows, Agree
<1>4. logged = None
  BY ChainAssumption DEF ChainInv, PanicMeetsRecover
<1>5. PICK v : v = ServerError
  OBVIOUS
<1>6. [status |-> C!RawHeader(raw[s], 500).status, parts |-> raw[s].parts \o <<"error">>] = v
  BY <1>3, <1>5 DEF NoAnswer, C!RawHeader, ServerError
<1>7. v \in Outputs /\ v.status = 500 /\ v.status # 0 /\ OneText(v)
  BY <1>5 DEF ServerError, Outputs, Final, Parts, OneText
<1>8. Says(layer, s, v)
  BY <1>6, <1>7, Zenon DEF C!Answers, Says
<1>9. Said(layer, s, v)
  BY <1>1, <1>7, <1>8, FirstAnswer
<1>10. raw'[1 - s] = raw[1 - s] /\ sw'[1 - s] = sw[1 - s]
  BY <1>9 DEF Said
<1>11. WriterTypes' /\ raw'[s] = v
  BY <1>9 DEF Said
<1>12. C!Wrapped(layer) /\ Agree(s, raw[s], sw[s], hijacked) => Agree(s, raw'[s], sw'[s], hijacked)
  BY <1>1, <1>3, <1>9 DEF Said
<1>13. QED  BY <1>1, <1>3, <1>4, <1>5, <1>7, <1>10, <1>11, <1>12, AnswersOnce

LEMMA RecoverStep == ASSUME ChainInv, C!Recover PROVE ChainInv'
<1>1. /\ C!Leave /\ chain' = chain /\ UNCHANGED <<hijacked, panicked, logged>>
      /\ layer > 0 /\ chain[layer] = "Recover" /\ inward' = FALSE /\ layer' = layer - 1
  BY DEF C!Recover, C!Out, C!Untouched, C!fixed, C!Leave
<1>2. inward = FALSE
  BY DEF C!Recover, C!Out, ChainInv, ChainTypes
<1>3. layer \in 1 .. Len(chain) /\ ChainTypes /\ Len(chain) \in Nat
  BY <1>1, <1>2, ChainAssumption DEF ChainInv, ChainTypes, OnTheWayOut
<1>4. PICK s : s = C!Side(layer)
  OBVIOUS
<1>5. s \in 0 .. 1 /\ (s = 1 <=> Within(layer - 1)) /\ layer \in 1 .. Len(chain) + 1
  BY <1>3, <1>4, SideWithin
<1>6. CASE raised = "error" /\ ~sw[C!Side(layer)].wrote
  <2>1. C!Answers(layer, 500, <<"error">>) /\ raised' = None
    BY <1>6 DEF C!Recover
  <2>2. sw[s] \in Statuses
    BY <1>3, <1>5 DEF ChainTypes
  <2>3. sw[s].wrote = FALSE
    BY <2>2, <1>4, <1>6 DEF Statuses
  <2>4. QED  BY <2>1, <2>3, <1>1, <1>3, <1>4, <1>5, <1>6, RecoverAnswers
<1>7. CASE ~(raised = "error" /\ ~sw[C!Side(layer)].wrote)
  <2>1. raised' = (IF raised = "error" THEN "abort" ELSE raised) /\ UNCHANGED <<raw, sw>>
    BY <1>7 DEF C!Recover
  <2>2. raised' # "error" /\ raised' \in {None, "error", "abort"} /\ panicked' \in {None, "error", "abort"}
        /\ logged' \in Nat \cup {None}
    BY <2>1, <1>1, <1>3 DEF ChainTypes
  <2>3. (raised' = None => raised = None) /\ (raised' # None => logged' = None)
    BY <2>1, <1>1, ChainAssumption DEF ChainInv, PanicMeetsRecover
  <2>4. Within(layer)' <=> Within(layer)
    <3>1. Within(layer)' <=> Within(layer - 1)
      BY <1>1 DEF Within
    <3>2. Within(layer) <=> Within(layer - 1)
      BY <1>1, <1>3, <1>5, LayerWithin
    <3>3. QED  BY <3>1, <3>2
  <2>5. PanicMeetsRecover'
    BY <2>1, <2>2, <2>3, <2>4, <1>1 DEF ChainInv, PanicMeetsRecover
  <2>6. LoggedIsSent'
    BY <2>1, <2>3, <2>4, <1>1 DEF ChainInv, LoggedIsSent, LoggerOutside, C!StatusSent, C!Side
  <2>7. QED  BY <2>1, <2>2, <2>5, <2>6, <1>1, <1>5, Leaves
<1>8. QED  BY <1>6, <1>7

LEMMA SelfAnswerStep ==
  ASSUME ChainInv, layer \in 1 .. Len(chain), chain[layer] # "Timeout", inward = TRUE, C!Leave, chain' = chain,
         UNCHANGED <<raised, logged, panicked, hijacked>>,
         NEW s \in 0 .. 1, s = C!Side(layer), NEW v \in Outputs, v.status # 0, OneText(v),
         raw[s] = NoAnswer => Says(layer, s, v)
  PROVE  ChainInv'
<1>1. Clean(0) /\ Clean(1) /\ raised = None /\ panicked = None /\ logged = None
  BY DEF ChainInv, OnTheWayIn
<1>2. raw[s] = NoAnswer
  BY <1>1 DEF Clean
<1>3. ChainTypes /\ hijacked \in BOOLEAN
  BY DEF ChainInv, ChainTypes
<1>4. Said(layer, s, v)
  BY <1>2, <1>3, FirstAnswer
<1>5. raw'[1 - s] = raw[1 - s] /\ sw'[1 - s] = sw[1 - s] /\ WriterTypes' /\ raw'[s] = v
  BY <1>4 DEF Said
<1>6. C!Wrapped(layer) /\ Agree(s, raw[s], sw[s], hijacked) => Agree(s, raw'[s], sw'[s], hijacked)
  BY <1>2, <1>3, <1>4 DEF Said
<1>7. panicked # "error" /\ raised' = None
  BY <1>1, ChainAssumption
<1>8. QED  BY <1>1, <1>5, <1>6, <1>7, AnswersOnce

LEMMA EnterStep == ASSUME ChainInv, C!Enter PROVE ChainInv'
<1>1. /\ layer \in 1 .. Len(chain) /\ chain' = chain /\ UNCHANGED <<raised, logged, panicked, hijacked>>
  BY DEF C!Enter, C!fixed
<1>2. inward = TRUE
  BY DEF C!Enter, ChainInv, ChainTypes
<1>3. ChainTypes /\ Len(chain) \in Nat
  BY ChainAssumption DEF ChainInv, ChainTypes
<1>4. /\ raised = None /\ panicked = None /\ logged = None /\ Clean(0) /\ Clean(1)
  BY <1>1, <1>2 DEF ChainInv, OnTheWayIn
<1>5. layer \in 1 .. Len(chain) + 1
  BY <1>1, <1>3
<1>6. PICK s : s = C!Side(layer)
  OBVIOUS
<1>7. s \in 0 .. 1
  BY <1>3, <1>5, <1>6, SideWithin
<1>8. CASE C!Refusal(chain[layer]) = 0
  <2>1. layer' = layer + 1 /\ inward' = inward /\ raw' = raw /\ sw' = sw
    BY <1>8 DEF C!Enter
  <2>2. layer' \in 0 .. Len(chain') + 1 /\ layer' > 0
    BY <2>1, <1>1, <1>3
  <2>3. ChainTypes'
    BY <2>1, <2>2, <1>1, <1>3 DEF ChainTypes
  <2>4. OnTheWayIn'
    BY <2>1, <2>2, <1>1, <1>2, <1>4 DEF ChainInv, OnTheWayIn, Clean, OnlyData
  <2>5. OnTheWayOut'
    BY <2>1, <1>2 DEF OnTheWayOut
  <2>6. ConnectionFree' /\ OneBody'
    BY <2>1, <1>4 DEF ConnectionFree, Clean, ChainInv, OneBody, OneText
  <2>7. \A t \in 0 .. 1 : raw[t] = NoAnswer /\ sw[t] = Unused
    BY <1>4 DEF Clean
  <2>8. WriterKnows'
    BY <2>1, <2>7 DEF WriterKnows, Agree, NoAnswer, Unused
  <2>9. PanicMeetsRecover' /\ LoggedIsSent'
    BY <1>1, <1>4, ChainAssumption DEF PanicMeetsRecover, LoggedIsSent
  <2>10. QED  BY <2>3, <2>4, <2>5, <2>6, <2>8, <2>9 DEF ChainInv
<1>9. CASE C!Refusal(chain[layer]) = 413
  <2>1. C!Answers(layer, 413, <<"error">>) /\ C!Leave
    BY <1>9 DEF C!Enter
  <2>6. chain[layer] # "Timeout"
    BY <1>9 DEF C!Refusal
  <2>2. PICK v : v = [status |-> 413, parts |-> <<"error">>]
    OBVIOUS
  <2>3. v \in Outputs /\ v.status = 413 /\ v.status # 0 /\ OneText(v)
    BY <2>2 DEF Outputs, Final, Parts, OneText
  <2>4. ASSUME raw[s] = NoAnswer PROVE Says(layer, s, v)
    <3>1. [status |-> C!RawHeader(raw[s], 413).status, parts |-> raw[s].parts \o <<"error">>] = v
      BY <2>2, <2>4 DEF NoAnswer, C!RawHeader
    <3>2. QED  BY <2>1, <2>3, <3>1, <1>6 DEF C!Answers, Says
  <2>5. QED  BY <2>1, <2>3, <2>4, <2>6, <1>1, <1>2, <1>6, <1>7, SelfAnswerStep
<1>10. CASE C!Refusal(chain[layer]) = 204
  <2>1. C!WriteHeader(layer, 204) /\ C!Leave
    BY <1>10 DEF C!Enter
  <2>6. chain[layer] # "Timeout"
    BY <1>10 DEF C!Refusal
  <2>2. PICK v : v = [status |-> 204, parts |-> <<>>]
    OBVIOUS
  <2>3. v \in Outputs /\ v.status = 204 /\ v.status # 0 /\ OneText(v)
    BY <2>2 DEF Outputs, Final, Parts, OneText
  <2>4. ASSUME raw[s] = NoAnswer PROVE Says(layer, s, v)
    <3>1. C!RawHeader(raw[s], 204) = v
      BY <2>2, <2>4 DEF NoAnswer, C!RawHeader
    <3>2. QED  BY <2>1, <2>3, <3>1, <1>6 DEF C!WriteHeader, Says
  <2>5. QED  BY <2>1, <2>3, <2>4, <2>6, <1>1, <1>2, <1>6, <1>7, SelfAnswerStep
<1>11. QED  BY <1>8, <1>9, <1>10 DEF C!Refusal

(* Timeout speaks to a connection on which nothing has been said. *)
LEMMA TimeoutSpeaks ==
  ASSUME ChainTypes, NEW i \in 1 .. Len(chain), chain[i] = "Timeout", Clean(0),
         NEW v \in Outputs, v.status # 0, Says(i, 0, v), chain' = chain, layer' = i - 1, hijacked' \in BOOLEAN
  PROVE  /\ WriterTypes' /\ ConnectionFree' /\ WriterKnows' /\ ~Within(layer)'
         /\ raw'[0] = v /\ raw'[1] = raw[1]
<1>1. raw[0] = NoAnswer /\ Len(chain) \in Nat
  BY ChainAssumption DEF Clean, ChainTypes
<1>2. Said(i, 0, v)
  <2>1. 0 \in 0 .. 1
    OBVIOUS
  <2>2. QED  BY <1>1, <2>1, FirstAnswer
<1>3. WriterTypes' /\ raw'[0] = v /\ raw'[1] = raw[1]
  BY <1>2 DEF Said
<1>4. \A tried \in BOOLEAN : Agree(0, NoAnswer, sw[0], tried)
  BY DEF Clean, Agree, NoAnswer, Unused
<1>5. \A tried \in BOOLEAN : C!Wrapped(i) => Agree(0, raw'[0], sw'[0], tried)
  BY <1>2, <1>4 DEF Said
<1>6. ~Within(layer)'
  <2>1. ~Within(i - 1)
    BY TimeoutSides
  <2>2. QED  BY <2>1 DEF Within
<1>7. C!Side(i) = 0 /\ \A j \in 1 .. Len(chain) : j <= i => C!Side(j) = 0
  BY TimeoutSides
<1>8. ASSUME NEW t \in 0 .. 1, Sharing(t, layer)' PROVE Agree(t, raw[t], sw[t], hijacked)'
  <2>1. PICK j \in 1 .. Len(chain) : j <= i - 1 /\ chain[j] \in {"Recover", "Logger"} /\ C!Side(j) = t
    BY <1>8 DEF Sharing, C!Side
  <2>2. j <= i /\ t = 0
    BY <2>1, <1>7
  <2>3. Sharing(0, i)
    BY <2>1, <2>2 DEF Sharing
  <2>4. i \in 1 .. Len(chain) + 1
    BY <1>1
  <2>5. C!Wrapped(i)
    BY <2>3, <2>4, <1>7, WrappedShares
  <2>6. QED  BY <2>2, <2>5, <1>5 DEF Agree
<1>9. WriterKnows'
  BY <1>8 DEF WriterKnows
<1>10. ConnectionFree'
  BY <1>6 DEF ConnectionFree
<1>11. QED  BY <1>3, <1>6, <1>9, <1>10

LEMMA TimeoutDoneStep == ASSUME ChainInv, C!TimeoutDone PROVE ChainInv'
<1>1. /\ C!Leave /\ chain' = chain /\ UNCHANGED <<hijacked, panicked, raised, logged>>
      /\ layer > 0 /\ chain[layer] = "Timeout" /\ inward' = FALSE /\ layer' = layer - 1
  BY DEF C!TimeoutDone, C!Out, C!Untouched, C!fixed, C!Leave
<1>2. inward = FALSE
  BY DEF C!TimeoutDone, C!Out, ChainInv, ChainTypes
<1>3. layer \in 1 .. Len(chain) /\ ChainTypes /\ Len(chain) \in Nat
  BY <1>1, <1>2, ChainAssumption DEF ChainInv, ChainTypes, OnTheWayOut
<1>4. C!Side(layer) = 0 /\ ~Within(layer - 1) /\ Within(layer) /\ layer \in 1 .. Len(chain) + 1
  BY <1>1, <1>3, TimeoutSides DEF Within
<1>5. ~Within(layer)'
  BY <1>1, <1>4 DEF Within
<1>6. Clean(0) /\ hijacked \in BOOLEAN
  BY <1>4 DEF ChainInv, ChainTypes, ConnectionFree
<1>7. ASSUME raised' = "error", NEW j \in 1 .. Len(chain), chain[j] = "Recover" PROVE j <= layer'
  <2>1. j <= layer /\ j # layer
    BY <1>1, <1>7 DEF ChainInv, PanicMeetsRecover
  <2>2. QED  BY <2>1, <1>1, <1>3
<1>8. raised' # None => logged' = None
  BY <1>1 DEF ChainInv, PanicMeetsRecover
<1>9. LoggedIsSent'
  <2>1. ~(LoggerOutside /\ logged # None)
    BY <1>4 DEF ChainInv, LoggedIsSent
  <2>2. QED  BY <2>1, <1>1 DEF LoggedIsSent, LoggerOutside, C!Side
<1>10. CASE raised # None
  <2>1. UNCHANGED <<raw, sw>>
    BY <1>10 DEF C!TimeoutDone
  <2>2. PanicMeetsRecover'
    BY <1>1, <1>7, <1>8, <1>10 DEF PanicMeetsRecover
  <2>3. raised' \in {None, "error", "abort"} /\ panicked' \in {None, "error", "abort"} /\ logged' \in Nat \cup {None}
    BY <1>1, <1>3 DEF ChainTypes
  <2>4. QED  BY <2>1, <2>2, <2>3, <1>1, <1>4, <1>9, Leaves
<1>11. CASE raised = None
  <2>1. PICK code : code = IF raw[1].status = 0 THEN 200 ELSE raw[1].status
    OBVIOUS
  <2>2. raw[1] \in Outputs /\ raw[0] = NoAnswer
    BY <1>3, <1>6 DEF ChainTypes, Clean
  <2>3. raw[1].status \in Final /\ raw[1].parts \in Seq(Parts)
    BY <2>2 DEF Outputs
  <2>4. code \in Final /\ code # 0 /\ code >= 200
    BY <2>1, <2>3 DEF Final
  <2>5. PICK v : v = [status |-> code, parts |-> raw[1].parts]
    OBVIOUS
  <2>6. v \in Outputs /\ v.status = code /\ v.status # 0 /\ v.parts = raw[1].parts
    BY <2>3, <2>4, <2>5 DEF Outputs
  <2>7. C!Answers(layer, code, raw[1].parts)
    BY <2>1, <1>11 DEF C!TimeoutDone
  <2>8. C!RawHeader(raw[0], code).status = code /\ raw[0].parts \o raw[1].parts = raw[1].parts
    BY <2>2, <2>3, <2>4 DEF NoAnswer, C!RawHeader
  <2>9. Says(layer, 0, v)
    BY <2>5, <2>6, <2>7, <2>8, <1>4 DEF C!Answers, Says
  <2>10. hijacked' \in BOOLEAN
    BY <1>1, <1>6
  <2>11. /\ WriterTypes' /\ ConnectionFree' /\ WriterKnows'
         /\ raw'[0] = v /\ raw'[1] = raw[1]
    BY <2>6, <2>9, <2>10, <1>1, <1>3, <1>6, TimeoutSpeaks
  <2>12. OneText(v)
    <3>1. OneText(raw[1])
      BY DEF ChainInv, OneBody
    <3>2. raw[1].status >= 400 => code = raw[1].status
      BY <2>1, <2>3
    <3>3. QED  BY <3>1, <3>2, <2>6 DEF OneText
  <2>13. OneBody'
    <3>1. OneText(raw[1])
      BY DEF ChainInv, OneBody
    <3>2. \A t \in 0 .. 1 : t = 0 \/ t = 1
      OBVIOUS
    <3>3. \A t \in 0 .. 1 : OneText(raw'[t])
      BY <3>1, <3>2, <2>11, <2>12
    <3>4. QED  BY <3>3 DEF OneBody, OneText
  <2>14. ChainTypes'
    <3>1. layer' \in 0 .. Len(chain') + 1
      BY <1>1, <1>3
    <3>2. inward' \in BOOLEAN
      BY <1>1
    <3>3. /\ chain' \in Chains /\ panicked' \in {None, "error", "abort"}
          /\ raised' \in {None, "error", "abort"} /\ logged' \in Nat \cup {None}
      BY <1>1, <1>3 DEF ChainTypes
    <3>4. QED  BY <3>1, <3>2, <3>3, <2>10, <2>11 DEF ChainTypes, WriterTypes
  <2>15. PanicMeetsRecover'
    <3>1. raised' = None /\ raised' # "error"
      BY <1>1, <1>11, ChainAssumption
    <3>2. panicked' = "error" => v = ServerError
      <4>1. panicked' = "error" => raw[1] = ServerError
        BY <1>1, <1>4, <1>11 DEF ChainInv, PanicMeetsRecover
      <4>2. QED  BY <4>1, <2>1, <2>5 DEF ServerError
    <3>3. QED  BY <3>1, <3>2, <1>5, <2>11 DEF PanicMeetsRecover
  <2>16. OnTheWayIn' /\ OnTheWayOut'
    BY <1>1, <1>3 DEF OnTheWayIn, OnTheWayOut
  <2>17. QED  BY <1>9, <2>11, <2>13, <2>14, <2>15, <2>16 DEF ChainInv
<1>12. QED  BY <1>10, <1>11

LEMMA TimeoutFiresStep == ASSUME ChainInv, C!TimeoutFires PROVE ChainInv'
<1>1. PICK i \in 1 .. Len(chain) :
        /\ chain[i] = "Timeout" /\ layer > i /\ C!Answers(i, 503, <<"timeout">>)
        /\ layer' = i - 1 /\ inward' = FALSE /\ raised' = None
        /\ logged' = None /\ panicked' = None /\ hijacked' = FALSE /\ chain' = chain
  BY DEF C!TimeoutFires, C!fixed
<1>2. ChainTypes /\ Len(chain) \in Nat /\ layer \in 0 .. Len(chain) + 1
  BY ChainAssumption DEF ChainInv, ChainTypes
<1>3. Within(layer) /\ C!Side(i) = 0
  BY <1>1, <1>2, TimeoutSides DEF Within
<1>4. Clean(0)
  BY <1>3 DEF ChainInv, ConnectionFree
<1>5. PICK v : v = [status |-> 503, parts |-> <<"timeout">>]
  OBVIOUS
<1>6. v \in Outputs /\ v.status = 503 /\ v.status # 0 /\ OneText(v)
  BY <1>5 DEF Outputs, Final, Parts, OneText
<1>7. [status |-> C!RawHeader(raw[0], 503).status, parts |-> raw[0].parts \o <<"timeout">>] = v
  BY <1>4, <1>5 DEF Clean, NoAnswer, C!RawHeader
<1>8. Says(i, 0, v)
  BY <1>1, <1>3, <1>6, <1>7, Zenon DEF C!Answers, Says
<1>9. hijacked' \in BOOLEAN
  BY <1>1
<1>10. WriterTypes' /\ ConnectionFree' /\ WriterKnows' /\ raw'[0] = v /\ raw'[1] = raw[1]
  BY <1>1, <1>2, <1>4, <1>6, <1>8, <1>9, TimeoutSpeaks
<1>11. OneBody'
  <2>1. OneText(raw[1])
    BY DEF ChainInv, OneBody
  <2>2. \A t \in 0 .. 1 : t = 0 \/ t = 1
    OBVIOUS
  <2>3. \A t \in 0 .. 1 : OneText(raw'[t])
    BY <2>1, <2>2, <1>6, <1>10
  <2>4. QED  BY <2>3 DEF OneBody, OneText
<1>12. ChainTypes'
  <2>1. layer' \in 0 .. Len(chain') + 1
    BY <1>1, <1>2
  <2>2. inward' \in BOOLEAN
    BY <1>1
  <2>3. /\ chain' \in Chains /\ panicked' \in {None, "error", "abort"}
        /\ raised' \in {None, "error", "abort"} /\ logged' \in Nat \cup {None}
    BY <1>1, <1>2 DEF ChainTypes
  <2>4. QED  BY <2>1, <2>2, <2>3, <1>9, <1>10 DEF ChainTypes, WriterTypes
<1>13. PanicMeetsRecover' /\ LoggedIsSent'
  BY <1>1, ChainAssumption DEF PanicMeetsRecover, LoggedIsSent
<1>14. OnTheWayIn' /\ OnTheWayOut'
  BY <1>1, <1>2 DEF OnTheWayIn, OnTheWayOut
<1>15. QED  BY <1>10, <1>11, <1>12, <1>13, <1>14 DEF ChainInv

LEMMA ChainStep == ChainInv /\ [C!Next]_(C!vars) => ChainInv'
<1>1. ChainInv /\ UNCHANGED C!vars => ChainInv'
  BY DEF C!vars, ChainInv, ChainTypes, OnTheWayIn, OnTheWayOut, ConnectionFree, Clean, WriterKnows, OneBody,
         PanicMeetsRecover, LoggedIsSent, LoggerOutside, Within, Sharing, Agree, OneText, OnlyData,
         C!Side, C!StatusSent
<1>2. QED
  BY <1>1, EnterStep, HandlerHeaderStep, HandlerWriteStep, HandlerFlushStep, HandlerHijackStep, HandlerEndsStep,
     RecoverStep, LoggerStep, TimeoutDoneStep, TimeoutFiresStep, PassOutStep DEF C!Next

LEMMA ChainsRun == AppSpec => C!Init /\ [][C!Next]_(C!vars)
<1>1. AppInit => C!Init
  BY DEF AppInit
<1>2. [AppNext]_appVars => [C!Next]_(C!vars)
  BY DEF AppNext, Bus, Emitting, Policies, Seeding, Menus, Logins, Sessions, Requests, Routing, appVars, chainVars, C!vars
<1>3. QED  BY <1>1, <1>2, PTL DEF AppSpec

(* One answer and a true log, for every chain with at most one Timeout and   *)
(* any handler: what a client gets is never two answers in one.              *)
THEOREM OneAnswerHolds == AppSpec => []OneAnswer
<1>1. ChainInv => OneAnswer
  <2> SUFFICES ASSUME ChainInv, C!Finished PROVE C!OneAnswer /\ C!LogTellsStatus
    BY DEF OneAnswer, C!OneAnswer, C!LogTellsStatus
  <2>1. layer = 0 /\ inward = FALSE
    BY DEF C!Finished, ChainInv, ChainTypes
  <2>2. ~Within(layer)
    BY <2>1 DEF Within
  <2>3. OneText(raw[0])
    BY DEF ChainInv, OneBody
  <2>4. C!Has("Recover") => raised # "error"
    <3>1. \A j \in 1 .. Len(chain) : ~(j <= layer)
      BY <2>1
    <3>2. QED  BY <3>1 DEF ChainInv, PanicMeetsRecover, C!Has
  <2>5. panicked = "error" /\ raised = None => raw[0] = ServerError
    BY <2>2 DEF ChainInv, PanicMeetsRecover
  <2>6. C!OneAnswer
    BY <2>3, <2>4, <2>5 DEF C!OneAnswer, OneText, ServerError
  <2>7. LoggerOutside /\ logged # None /\ raised = None /\ hijacked = FALSE => logged = C!StatusSent
    BY DEF ChainInv, LoggedIsSent
  <2>8. ~hijacked => hijacked = FALSE
    BY DEF ChainInv, ChainTypes
  <2>9. C!LogTellsStatus
    BY <2>7, <2>8 DEF C!LogTellsStatus, LoggerOutside
  <2>10. QED  BY <2>6, <2>9
<1>2. QED  BY <1>1, ChainInit, ChainStep, ChainsRun, PTL

-----------------------------------------------------------------------------
(* The seeder.  A run that writes a row has it to itself, and knows whether  *)
(* it was there; what is left of its list is a part of the seeds, and what   *)
(* comes before that part is applied, unless somebody picks names.           *)
SeedSteps == {"start", "snapshot", "copy", "loop", "record", "commit", "returned"}

SeederTypes ==
  /\ seeds \in Seq(SeedNames) /\ history \subseteq SeedNames
  /\ effect \in [SeedNames -> Nat] /\ repeats \in [SeedNames -> Nat]
  /\ seedAt \in [SeedRuns -> SeedSteps] /\ force \in [SeedRuns -> Forcings]
  /\ done \in [SeedRuns -> SUBSET history]
  /\ list \in [SeedRuns -> Seq(SeedNames)] /\ ran \in [SeedRuns -> Seq(history)]

NoTwice == \A i, j \in 1 .. Len(seeds) : seeds[i] = seeds[j] => i = j

AppliedAreSeeds == \A n \in history : \E i \in 1 .. Len(seeds) : seeds[i] = n

(* The list of run r is the seeds after the k-th. *)
LeftFrom(r, k) ==
  /\ k + Len(list[r]) <= Len(seeds)
  /\ \A i \in 1 .. Len(list[r]) : list[r][i] = seeds[k + i]
  /\ D!NobodyPicks => \A i \in 1 .. k : seeds[i] \in history

LeftToDo == \A r \in SeedRuns : seedAt[r] \in {"loop", "record", "commit"} => \E k \in Nat : LeftFrom(r, k)

AtWork ==
  \A r \in SeedRuns :
    /\ seedAt[r] \in {"record", "commit"} => list[r] # <<>> /\ D!RunIt(r, Head(list[r]))
    /\ seedAt[r] = "commit" => Head(list[r]) \in done[r] \/ Head(list[r]) \notin history

RowsApart ==
  \A r, q \in SeedRuns : seedAt[r] = "commit" /\ seedAt[q] = "commit" /\ r # q => Head(list[r]) # Head(list[q])

RepeatsAreForced == \A n \in SeedNames : repeats[n] > 0 => \E r \in SeedRuns : force[r].mode # "run"

InOrder ==
  D!NobodyPicks => \A i, j \in 1 .. Len(seeds) : i < j /\ seeds[j] \in history => seeds[i] \in history

SeederInv ==
  /\ SeederTypes /\ NoTwice /\ AppliedAreSeeds /\ LeftToDo /\ AtWork /\ RowsApart
  /\ D!RecordedIffApplied /\ RepeatsAreForced /\ InOrder

LEMMA SeederInit == D!Init => SeederInv
<1> SUFFICES ASSUME D!Init PROVE SeederInv
  OBVIOUS
<1>1. SeederTypes
  BY DEF D!Init, SeederTypes, SeedSteps
<1>2. seeds = <<>> /\ Len(seeds) = 0 /\ history = {} /\ \A r \in SeedRuns : seedAt[r] = "start"
  BY DEF D!Init
<1>3. NoTwice /\ AppliedAreSeeds /\ LeftToDo /\ InOrder
  BY <1>2 DEF NoTwice, AppliedAreSeeds, LeftToDo, InOrder
<1>4. AtWork /\ RowsApart
  BY <1>2 DEF AtWork, RowsApart
<1>5. D!RecordedIffApplied /\ RepeatsAreForced
  BY DEF D!Init, D!RecordedIffApplied, RepeatsAreForced
<1>6. QED  BY <1>1, <1>3, <1>4, <1>5 DEF SeederInv

LEMMA RegisterStep == ASSUME SeederInv, NEW n \in SeedNames, D!Register(n) PROVE SeederInv'
<1>1. /\ seeds' = Append(seeds, n)
      /\ UNCHANGED <<history, effect, repeats, seedAt, force, done, list, ran>>
      /\ \A i \in 1 .. Len(seeds) : seeds[i] # n
  BY DEF D!Register, D!tables, D!mine, D!ToSet, SeederInv, SeederTypes
<1>2. /\ Len(seeds) \in Nat /\ Len(seeds') = Len(seeds) + 1 /\ seeds' \in Seq(SeedNames)
      /\ seeds'[Len(seeds) + 1] = n /\ \A i \in 1 .. Len(seeds) : seeds'[i] = seeds[i]
  BY <1>1 DEF SeederInv, SeederTypes
<1>3. SeederTypes'
  BY <1>1, <1>2 DEF SeederInv, SeederTypes
<1>4. NoTwice'
  BY <1>1, <1>2 DEF SeederInv, NoTwice
<1>5. AppliedAreSeeds'
  BY <1>1, <1>2 DEF SeederInv, AppliedAreSeeds
<1>6. D!NobodyPicks' <=> D!NobodyPicks
  BY <1>1 DEF D!NobodyPicks
<1>7. LeftToDo'
  <2> SUFFICES ASSUME NEW r \in SeedRuns, seedAt[r] \in {"loop", "record", "commit"}
               PROVE  \E k \in Nat : LeftFrom(r, k)'
    BY <1>1 DEF LeftToDo
  <2>1. PICK k \in Nat : LeftFrom(r, k)
    BY DEF SeederInv, LeftToDo
  <2>2. list[r] \in Seq(SeedNames) /\ Len(list[r]) \in Nat
    BY DEF SeederInv, SeederTypes
  <2>3. LeftFrom(r, k)'
    BY <2>1, <2>2, <1>1, <1>2, <1>6 DEF LeftFrom
  <2>4. QED  BY <2>3
<1>8. AtWork' /\ RowsApart'
  BY <1>1 DEF SeederInv, AtWork, RowsApart, D!RunIt
<1>9. D!RecordedIffApplied' /\ RepeatsAreForced'
  BY <1>1 DEF SeederInv, D!RecordedIffApplied, RepeatsAreForced
<1>10. InOrder'
  <2> SUFFICES ASSUME D!NobodyPicks', NEW i \in 1 .. Len(seeds'), NEW j \in 1 .. Len(seeds'), i < j,
                      seeds'[j] \in history'
               PROVE  seeds'[i] \in history'
    BY DEF InOrder
  <2>1. j # Len(seeds) + 1
    BY <1>1, <1>2 DEF SeederInv, AppliedAreSeeds
  <2>2. i \in 1 .. Len(seeds) /\ j \in 1 .. Len(seeds)
    BY <2>1, <1>2
  <2>3. QED  BY <2>2, <1>1, <1>2, <1>6 DEF SeederInv, InOrder
<1>11. QED  BY <1>3, <1>4, <1>5, <1>7, <1>8, <1>9, <1>10 DEF SeederInv

LEMMA StillLeft ==
  ASSUME NEW r, NEW k, LeftFrom(r, k), UNCHANGED <<seeds, force>>, history \subseteq history', list'[r] = list[r]
  PROVE  LeftFrom(r, k)'
BY DEF LeftFrom, D!NobodyPicks

(* A run goes on and changes nothing else. *)
LEMMA RunMoves ==
  ASSUME SeederInv, NEW r \in SeedRuns, NEW step \in SeedSteps, D!Go(r, step),
         UNCHANGED <<seeds, D!tables, D!mine>>,
         step \in {"loop", "record", "commit"} => seedAt[r] \in {"loop", "record", "commit"},
         step \in {"record", "commit"} => list[r] # <<>> /\ D!RunIt(r, Head(list[r])),
         step = "commit" => Head(list[r]) \in done[r] \/ Head(list[r]) \notin history,
         step = "commit" => \A q \in SeedRuns \ {r} : seedAt[q] = "commit" => Head(list[q]) # Head(list[r])
  PROVE  SeederInv'
<1>1. UNCHANGED <<seeds, history, effect, repeats, force, done, list, ran>>
  BY DEF D!tables, D!mine
<1>2. seedAt' = [seedAt EXCEPT ![r] = step] /\ seedAt \in [SeedRuns -> SeedSteps]
  BY DEF D!Go, SeederInv, SeederTypes
<1>3. seedAt'[r] = step /\ \A q \in SeedRuns : q # r => seedAt'[q] = seedAt[q]
  BY <1>2
<1>4. SeederTypes'
  BY <1>1, <1>2 DEF SeederInv, SeederTypes
<1>5. NoTwice' /\ AppliedAreSeeds' /\ InOrder' /\ D!RecordedIffApplied' /\ RepeatsAreForced'
  BY <1>1 DEF SeederInv, NoTwice, AppliedAreSeeds, InOrder, D!RecordedIffApplied, RepeatsAreForced, D!NobodyPicks
<1>6. LeftToDo'
  <2> SUFFICES ASSUME NEW q \in SeedRuns, seedAt'[q] \in {"loop", "record", "commit"}
               PROVE  \E k \in Nat : LeftFrom(q, k)'
    BY DEF LeftToDo
  <2>1. seedAt[q] \in {"loop", "record", "commit"}
    BY <1>3
  <2>2. PICK k \in Nat : LeftFrom(q, k)
    BY <2>1 DEF SeederInv, LeftToDo
  <2>3. QED  BY <2>2, <1>1, StillLeft
<1>7. AtWork'
  BY <1>1, <1>3 DEF SeederInv, AtWork, D!RunIt
<1>8. RowsApart'
  BY <1>1, <1>3 DEF SeederInv, RowsApart
<1>9. QED  BY <1>4, <1>5, <1>6, <1>7, <1>8 DEF SeederInv

LEMMA StartStep == ASSUME SeederInv, NEW r \in SeedRuns, D!Start(r) PROVE SeederInv'
BY RunMoves DEF D!Start, SeedSteps

LEMMA RunFnStep == ASSUME SeederInv, NEW r \in SeedRuns, D!RunFn(r) PROVE SeederInv'
BY RunMoves DEF D!RunFn, SeedSteps

LEMMA LoopEndsStep == ASSUME SeederInv, NEW r \in SeedRuns, D!LoopEnds(r) PROVE SeederInv'
BY RunMoves DEF D!LoopEnds, SeedSteps

LEMMA RecordStep == ASSUME SeederInv, NEW r \in SeedRuns, D!Record(r) PROVE SeederInv'
<1>1. list[r] # <<>> /\ D!RunIt(r, Head(list[r])) /\ seedAt[r] = "record" /\ D!Go(r, "commit")
      /\ UNCHANGED <<seeds, D!tables, D!mine>>
  BY DEF D!Record, SeederInv, AtWork
<1>2. Head(list[r]) \in done[r] \/ Head(list[r]) \notin history
  BY DEF D!Record, D!Already
<1>3. \A q \in SeedRuns \ {r} : seedAt[q] = "commit" => Head(list[q]) # Head(list[r])
  BY DEF D!Record, D!RowFree
<1>4. "commit" \in SeedSteps
  BY DEF SeedSteps
<1>5. QED  BY <1>1, <1>2, <1>3, <1>4, RunMoves

LEMMA DuplicateKeyStep == ASSUME SeederInv, NEW r \in SeedRuns, D!DuplicateKey(r) PROVE SeederInv'
BY RunMoves DEF D!DuplicateKey, SeedSteps

LEMMA SeedFailsStep == ASSUME SeederInv, NEW r \in SeedRuns, D!Fails(r) PROVE SeederInv'
BY RunMoves DEF D!Fails, SeedSteps

LEMMA SnapshotStep == ASSUME SeederInv, NEW r \in SeedRuns, D!Snapshot(r) PROVE SeederInv'
<1>1. /\ done' = [done EXCEPT ![r] = history] /\ seedAt' = [seedAt EXCEPT ![r] = "copy"]
      /\ UNCHANGED <<seeds, history, effect, repeats, force, list, ran>>
  BY DEF D!Snapshot, D!Go, D!tables
<1>2. /\ done'[r] = history /\ seedAt'[r] = "copy"
      /\ \A q \in SeedRuns : q # r => seedAt'[q] = seedAt[q] /\ done'[q] = done[q]
  BY <1>1 DEF SeederInv, SeederTypes
<1>3. SeederTypes'
  BY <1>1 DEF SeederInv, SeederTypes, SeedSteps
<1>4. NoTwice' /\ AppliedAreSeeds' /\ InOrder' /\ D!RecordedIffApplied' /\ RepeatsAreForced'
  BY <1>1 DEF SeederInv, NoTwice, AppliedAreSeeds, InOrder, D!RecordedIffApplied, RepeatsAreForced, D!NobodyPicks
<1>5. LeftToDo'
  BY <1>1, <1>2 DEF SeederInv, LeftToDo, LeftFrom, D!NobodyPicks
<1>6. AtWork'
  BY <1>1, <1>2 DEF SeederInv, AtWork, D!RunIt
<1>7. RowsApart'
  BY <1>1, <1>2 DEF SeederInv, RowsApart
<1>8. QED  BY <1>3, <1>4, <1>5, <1>6, <1>7 DEF SeederInv

LEMMA CopyStep == ASSUME SeederInv, NEW r \in SeedRuns, D!Copy(r) PROVE SeederInv'
<1>1. /\ list' = [list EXCEPT ![r] = seeds] /\ seedAt' = [seedAt EXCEPT ![r] = "loop"]
      /\ UNCHANGED <<seeds, history, effect, repeats, force, done, ran>>
  BY DEF D!Copy, D!Go, D!tables
<1>2. /\ list'[r] = seeds /\ seedAt'[r] = "loop" /\ Len(seeds) \in Nat
      /\ \A q \in SeedRuns : q # r => seedAt'[q] = seedAt[q] /\ list'[q] = list[q]
  BY <1>1 DEF SeederInv, SeederTypes
<1>3. SeederTypes'
  BY <1>1 DEF SeederInv, SeederTypes, SeedSteps
<1>4. NoTwice' /\ AppliedAreSeeds' /\ InOrder' /\ D!RecordedIffApplied' /\ RepeatsAreForced'
  BY <1>1 DEF SeederInv, NoTwice, AppliedAreSeeds, InOrder, D!RecordedIffApplied, RepeatsAreForced, D!NobodyPicks
<1>5. LeftToDo'
  <2>1. LeftFrom(r, 0)'
    BY <1>1, <1>2 DEF LeftFrom
  <2>2. ASSUME NEW q \in SeedRuns, q # r, seedAt'[q] \in {"loop", "record", "commit"}
        PROVE  \E k \in Nat : LeftFrom(q, k)'
    <3>1. PICK k \in Nat : LeftFrom(q, k)
      BY <2>2, <1>2 DEF SeederInv, LeftToDo
    <3>2. QED  BY <3>1, <2>2, <1>1, <1>2, StillLeft
  <2>3. QED  BY <2>1, <2>2 DEF LeftToDo
<1>6. AtWork'
  BY <1>1, <1>2 DEF SeederInv, AtWork, D!RunIt
<1>7. RowsApart'
  BY <1>1, <1>2 DEF SeederInv, RowsApart
<1>8. QED  BY <1>3, <1>4, <1>5, <1>6, <1>7 DEF SeederInv

(* The first of the list is a seed, and behind the list once it is dealt with. *)
LEMMA FirstLeft ==
  ASSUME NEW r \in SeedRuns, list[r] \in Seq(SeedNames), list[r] # <<>>, NEW k \in Nat, LeftFrom(r, k), seeds \in Seq(SeedNames)
  PROVE  k + 1 \in 1 .. Len(seeds) /\ seeds[k + 1] = Head(list[r])
<1>1. Len(list[r]) \in Nat /\ Len(list[r]) >= 1 /\ Head(list[r]) = list[r][1] /\ Len(seeds) \in Nat
  OBVIOUS
<1>2. list[r][1] = seeds[k + 1]
  BY <1>1 DEF LeftFrom
<1>3. QED  BY <1>1, <1>2 DEF LeftFrom

LEMMA TailLeft ==
  ASSUME NEW r \in SeedRuns, list[r] \in Seq(SeedNames), list[r] # <<>>, NEW k \in Nat, LeftFrom(r, k), seeds \in Seq(SeedNames),
         UNCHANGED <<seeds, force>>, history \subseteq history', list'[r] = Tail(list[r]),
         D!NobodyPicks => Head(list[r]) \in history'
  PROVE  LeftFrom(r, k + 1)'
<1>1. /\ Len(list[r]) \in Nat /\ Len(list[r]) >= 1 /\ Len(list'[r]) = Len(list[r]) - 1
      /\ \A i \in 1 .. Len(list'[r]) : list'[r][i] = list[r][i + 1]
  OBVIOUS
<1>2. D!NobodyPicks' <=> D!NobodyPicks
  BY DEF D!NobodyPicks
<1>3. (k + 1) + Len(list'[r]) <= Len(seeds')
  <2>1. k + Len(list[r]) <= Len(seeds) /\ Len(seeds) \in Nat
    BY DEF LeftFrom
  <2>2. PICK a \in Nat : a = Len(list[r])
    BY <1>1
  <2>3. Len(list'[r]) = a - 1
    BY <1>1, <2>2
  <2>4. k + a <= Len(seeds)
    BY <2>1, <2>2
  <2>5. (k + 1) + (a - 1) <= Len(seeds)
    BY <2>1, <2>4
  <2>6. seeds' = seeds
    OBVIOUS
  <2>7. QED  BY <2>3, <2>5, <2>6
<1>4. ASSUME NEW i \in 1 .. Len(list'[r]) PROVE list'[r][i] = seeds'[(k + 1) + i]
  <2>1. i + 1 \in 1 .. Len(list[r]) /\ k + (i + 1) = (k + 1) + i
    BY <1>1
  <2>2. list[r][i + 1] = seeds[k + (i + 1)]
    BY <2>1 DEF LeftFrom
  <2>3. QED  BY <2>1, <2>2, <1>1
<1>5. ASSUME D!NobodyPicks, NEW i \in 1 .. (k + 1) PROVE seeds'[i] \in history'
  <2>1. CASE i = k + 1
    BY <2>1, <1>5, FirstLeft
  <2>2. CASE i # k + 1
    <3>1. i \in 1 .. k
      BY <2>2
    <3>2. QED  BY <3>1, <1>5 DEF LeftFrom
  <2>3. QED  BY <2>1, <2>2
<1>6. QED  BY <1>2, <1>3, <1>4, <1>5 DEF LeftFrom

LEMMA SkipStep == ASSUME SeederInv, NEW r \in SeedRuns, D!Skip(r) PROVE SeederInv'
<1>1. /\ list' = [list EXCEPT ![r] = Tail(list[r])] /\ seedAt[r] = "loop" /\ list[r] # <<>>
      /\ UNCHANGED <<seeds, history, effect, repeats, force, done, ran, seedAt>>
      /\ ~D!RunIt(r, Head(list[r]))
  BY DEF D!Skip, D!tables
<1>2. /\ list'[r] = Tail(list[r]) /\ \A q \in SeedRuns : q # r => list'[q] = list[q]
      /\ list[r] \in Seq(SeedNames) /\ Tail(list[r]) \in Seq(SeedNames) /\ seeds \in Seq(SeedNames)
  BY <1>1 DEF SeederInv, SeederTypes
<1>3. SeederTypes'
  BY <1>1, <1>2 DEF SeederInv, SeederTypes
<1>4. NoTwice' /\ AppliedAreSeeds' /\ InOrder' /\ D!RecordedIffApplied' /\ RepeatsAreForced'
  BY <1>1 DEF SeederInv, NoTwice, AppliedAreSeeds, InOrder, D!RecordedIffApplied, RepeatsAreForced, D!NobodyPicks
<1>5. D!NobodyPicks => Head(list[r]) \in history
  <2> SUFFICES ASSUME D!NobodyPicks PROVE Head(list[r]) \in history
    OBVIOUS
  <2>1. force[r].mode \in {"run", "all", "names"}
    BY SeederAssumption DEF SeederInv, SeederTypes
  <2>2. force[r].mode = "run" /\ Head(list[r]) \in done[r]
    BY <2>1, <1>1 DEF D!NobodyPicks, D!RunIt
  <2>3. QED  BY <2>2 DEF SeederInv, SeederTypes
<1>6. LeftToDo'
  <2>1. \E k \in Nat : LeftFrom(r, k)'
    <3>1. PICK k \in Nat : LeftFrom(r, k)
      BY <1>1 DEF SeederInv, LeftToDo
    <3>2. LeftFrom(r, k + 1)'
      BY <3>1, <1>1, <1>2, <1>5, TailLeft
    <3>3. QED  BY <3>2
  <2>2. ASSUME NEW q \in SeedRuns, q # r, seedAt'[q] \in {"loop", "record", "commit"}
        PROVE  \E k \in Nat : LeftFrom(q, k)'
    <3>1. PICK k \in Nat : LeftFrom(q, k)
      BY <2>2, <1>1 DEF SeederInv, LeftToDo
    <3>2. QED  BY <3>1, <2>2, <1>1, <1>2, StillLeft
  <2>3. QED  BY <2>1, <2>2 DEF LeftToDo
<1>7. AtWork'
  BY <1>1, <1>2 DEF SeederInv, AtWork, D!RunIt
<1>8. RowsApart'
  BY <1>1, <1>2 DEF SeederInv, RowsApart
<1>9. QED  BY <1>3, <1>4, <1>6, <1>7, <1>8 DEF SeederInv

LEMMA CommitStep ==
  ASSUME SeederInv, NEW r \in SeedRuns, NEW answered \in BOOLEAN, D!Commit(r, answered)
  PROVE  SeederInv'
<1>1. PICK n : n = Head(list[r])
  OBVIOUS
<1>2. /\ history' = history \cup {n} /\ effect' = [effect EXCEPT ![n] = effect[n] + 1]
      /\ repeats' = IF n \in done[r] THEN [repeats EXCEPT ![n] = repeats[n] + 1] ELSE repeats
      /\ UNCHANGED <<seeds, force, done>> /\ seedAt[r] = "commit"
  BY <1>1 DEF D!Commit, D!Already
<1>3. /\ list[r] # <<>> /\ D!RunIt(r, n) /\ (n \in done[r] \/ n \notin history)
      /\ list[r] \in Seq(SeedNames) /\ seeds \in Seq(SeedNames)
  BY <1>1, <1>2 DEF SeederInv, SeederTypes, AtWork
<1>4. n \in SeedNames /\ Tail(list[r]) \in Seq(SeedNames)
  BY <1>1, <1>3
<1>5. ran[r] \in Seq(history) /\ ran \in [SeedRuns -> Seq(history)]
  BY DEF SeederInv, SeederTypes
<1>6. \A s \in Seq(history) : s \in Seq(history')
  BY <1>2
<1>7. /\ ran' \in [SeedRuns -> Seq(history')] /\ list' \in [SeedRuns -> Seq(SeedNames)]
      /\ seedAt' \in [SeedRuns -> SeedSteps]
      /\ seedAt'[r] = "loop" => list'[r] = Tail(list[r])
      /\ seedAt'[r] \in {"loop", "returned"}
      /\ \A q \in SeedRuns : q # r => seedAt'[q] = seedAt[q] /\ list'[q] = list[q]
  <2>1. list \in [SeedRuns -> Seq(SeedNames)] /\ seedAt \in [SeedRuns -> SeedSteps] /\ n \in history'
    BY <1>2 DEF SeederInv, SeederTypes
  <2>2. ran \in [SeedRuns -> Seq(history')]
    BY <1>5, <1>6
  <2>3. CASE answered = TRUE
    <3>1. /\ ran' = [ran EXCEPT ![r] = Append(ran[r], n)] /\ list' = [list EXCEPT ![r] = Tail(list[r])]
          /\ seedAt' = [seedAt EXCEPT ![r] = "loop"]
      BY <1>1, <2>3 DEF D!Commit, D!Go
    <3>2. Append(ran[r], n) \in Seq(history')
      BY <2>1, <2>2
    <3>3. QED  BY <3>1, <3>2, <2>1, <2>2, <1>4 DEF SeedSteps
  <2>4. CASE answered = FALSE
    <3>1. ran' = ran /\ list' = list /\ seedAt' = [seedAt EXCEPT ![r] = "returned"]
      BY <2>4 DEF D!Commit, D!Go
    <3>2. QED  BY <3>1, <2>1, <2>2 DEF SeedSteps
  <2>5. QED  BY <2>3, <2>4
<1>8. effect \in [SeedNames -> Nat] /\ repeats \in [SeedNames -> Nat]
  BY DEF SeederInv, SeederTypes
<1>9. effect' \in [SeedNames -> Nat] /\ effect'[n] = effect[n] + 1 /\ \A m \in SeedNames : m # n => effect'[m] = effect[m]
  BY <1>2, <1>4, <1>8
<1>10. /\ repeats' \in [SeedNames -> Nat] /\ \A m \in SeedNames : m # n => repeats'[m] = repeats[m]
       /\ n \in done[r] => repeats'[n] = repeats[n] + 1
       /\ n \notin done[r] => repeats'[n] = repeats[n]
  BY <1>2, <1>4, <1>8
<1>11. done[r] \subseteq history /\ history \subseteq history'
  BY <1>2 DEF SeederInv, SeederTypes
<1>12. SeederTypes'
  <2>1. done' \in [SeedRuns -> SUBSET history']
    BY <1>2 DEF SeederInv, SeederTypes
  <2>2. QED  BY <2>1, <1>2, <1>4, <1>7, <1>9, <1>10 DEF SeederInv, SeederTypes
<1>13. PICK k \in Nat : LeftFrom(r, k)
  BY <1>2 DEF SeederInv, LeftToDo
<1>14. k + 1 \in 1 .. Len(seeds) /\ seeds[k + 1] = n
  BY <1>1, <1>3, <1>13, FirstLeft
<1>15. NoTwice' /\ AppliedAreSeeds'
  BY <1>2, <1>14 DEF SeederInv, NoTwice, AppliedAreSeeds
<1>16. D!NobodyPicks' <=> D!NobodyPicks
  BY <1>2 DEF D!NobodyPicks
<1>17. LeftToDo'
  <2>1. ASSUME seedAt'[r] \in {"loop", "record", "commit"} PROVE \E l \in Nat : LeftFrom(r, l)'
    <3>1. list'[r] = Tail(list[r])
      BY <2>1, <1>7
    <3>2. Head(list[r]) \in history'
      BY <1>1, <1>2
    <3>3. LeftFrom(r, k + 1)'
      BY <3>1, <3>2, <1>2, <1>3, <1>11, <1>13, TailLeft
    <3>4. QED  BY <3>3
  <2>2. ASSUME NEW q \in SeedRuns, q # r, seedAt'[q] \in {"loop", "record", "commit"}
        PROVE  \E l \in Nat : LeftFrom(q, l)'
    <3>1. PICK l \in Nat : LeftFrom(q, l)
      BY <2>2, <1>7 DEF SeederInv, LeftToDo
    <3>2. QED  BY <3>1, <2>2, <1>2, <1>7, <1>11, StillLeft
  <2>3. QED  BY <2>1, <2>2 DEF LeftToDo
<1>18. AtWork'
  <2> SUFFICES ASSUME NEW q \in SeedRuns
               PROVE  /\ seedAt'[q] \in {"record", "commit"} => list'[q] # <<>> /\ D!RunIt(q, Head(list[q]))'
                      /\ seedAt'[q] = "commit" => Head(list'[q]) \in done'[q] \/ Head(list'[q]) \notin history'
    BY DEF AtWork
  <2>1. CASE q = r
    BY <2>1, <1>7
  <2>2. CASE q # r
    <3>1. seedAt[q] = "commit" => Head(list[q]) # n
      BY <2>2, <1>1, <1>2 DEF SeederInv, RowsApart
    <3>2. QED  BY <2>2, <3>1, <1>2, <1>7 DEF SeederInv, AtWork, D!RunIt
  <2>3. QED  BY <2>1, <2>2
<1>19. RowsApart'
  BY <1>7 DEF SeederInv, RowsApart
<1>20. D!RecordedIffApplied'
  <2> SUFFICES ASSUME NEW m \in SeedNames PROVE effect'[m] = repeats'[m] + (IF m \in history' THEN 1 ELSE 0)
    BY DEF D!RecordedIffApplied
  <2>1. effect[m] = repeats[m] + (IF m \in history THEN 1 ELSE 0) /\ repeats[m] \in Nat /\ effect[m] \in Nat
    BY <1>8 DEF SeederInv, D!RecordedIffApplied
  <2>2. CASE m # n
    BY <2>1, <2>2, <1>2, <1>9, <1>10
  <2>3. CASE m = n /\ n \in done[r]
    BY <2>1, <2>3, <1>2, <1>9, <1>10, <1>11
  <2>4. CASE m = n /\ n \notin done[r]
    BY <2>1, <2>4, <1>2, <1>3, <1>9, <1>10
  <2>5. QED  BY <2>2, <2>3, <2>4
<1>21. RepeatsAreForced'
  <2> SUFFICES ASSUME NEW m \in SeedNames, repeats'[m] > 0 PROVE \E q \in SeedRuns : force[q].mode # "run"
    BY <1>2 DEF RepeatsAreForced
  <2>1. CASE m = n /\ n \in done[r]
    BY <2>1, <1>3 DEF D!RunIt
  <2>2. CASE ~(m = n /\ n \in done[r])
    BY <2>2, <1>10 DEF SeederInv, RepeatsAreForced
  <2>3. QED  BY <2>1, <2>2
<1>22. InOrder'
  <2> SUFFICES ASSUME D!NobodyPicks, NEW i \in 1 .. Len(seeds), NEW j \in 1 .. Len(seeds), i < j, seeds[j] \in history'
               PROVE  seeds[i] \in history'
    BY <1>2, <1>16 DEF InOrder
  <2>1. CASE seeds[j] \in history
    BY <2>1, <1>11 DEF SeederInv, InOrder
  <2>2. CASE seeds[j] = n
    <3>1. j = k + 1
      BY <2>2, <1>14 DEF SeederInv, NoTwice
    <3>2. i \in 1 .. k
      BY <3>1
    <3>3. QED  BY <3>2, <1>11, <1>13 DEF LeftFrom
  <2>3. QED  BY <2>1, <2>2, <1>2
<1>23. QED  BY <1>12, <1>15, <1>17, <1>18, <1>19, <1>20, <1>21, <1>22 DEF SeederInv

LEMMA SeederStep == SeederInv /\ [D!Next]_(D!vars) => SeederInv'
<1>1. SeederInv /\ UNCHANGED D!vars => SeederInv'
  BY DEF D!vars, SeederInv, SeederTypes, NoTwice, AppliedAreSeeds, LeftToDo, LeftFrom, AtWork, RowsApart,
         D!RecordedIffApplied, RepeatsAreForced, InOrder, D!NobodyPicks, D!RunIt
<1>2. QED
  BY <1>1, RegisterStep, StartStep, SnapshotStep, CopyStep, SkipStep, RunFnStep, LoopEndsStep, RecordStep,
     DuplicateKeyStep, SeedFailsStep, CommitStep DEF D!Next

LEMMA SeedersRun == AppSpec => D!Init /\ [][D!Next]_(D!vars)
<1>1. AppInit => D!Init
  BY DEF AppInit
<1>2. [AppNext]_appVars => [D!Next]_(D!vars)
  BY DEF AppNext, Bus, Emitting, Policies, Seeding, Menus, Logins, Sessions, Requests, Routing, appVars, seedVars, D!vars
<1>3. QED  BY <1>1, <1>2, PTL DEF AppSpec

(* The history table says what took effect, for any number of concurrent     *)
(* runs over any seeds, told what they may be, with lost answers and errors. *)
THEOREM HistoryExactHolds == AppSpec => []HistoryExact
<1>1. SeederInv => HistoryExact
  <2> SUFFICES ASSUME SeederInv PROVE D!HistoryExact
    BY DEF HistoryExact
  <2>1. \A r \in SeedRuns : D!ToSet(ran[r]) \subseteq history
    <3>1. \A s \in Seq(history) : D!ToSet(s) \subseteq history
      BY DEF D!ToSet
    <3>2. QED  BY <3>1 DEF SeederInv, SeederTypes
  <2>2. DOMAIN seeds = 1 .. Len(seeds)
    BY DEF SeederInv, SeederTypes
  <2>3. D!NobodyPicks => \A i, j \in DOMAIN seeds : i < j /\ seeds[j] \in history => seeds[i] \in history
    BY <2>2 DEF SeederInv, InOrder
  <2>4. QED  BY <2>1, <2>3 DEF SeederInv, D!HistoryExact, RepeatsAreForced
<1>2. QED  BY <1>1, SeederInit, SeederStep, SeedersRun, PTL

-----------------------------------------------------------------------------
(* The signal.  A slice reads a list when its first elements are the list's. *)
(* The subscribers' slice reads the subscriptions in force, and that of      *)
(* every emission what was promised to it.  An append in place keeps it so   *)
(* because it writes behind the end of every slice that shares the array     *)
(* (Behind); and a removal, because it writes an array nobody points to.  An *)
(* id is given once, so the one removed is the one meant.                    *)
Backing == Arrays \cup {NilArray}
Header == [arr : Backing, len : Nat]

Reads(array, n, s) ==
  /\ n = Len(s) /\ n <= Len(array)
  /\ \A i \in 1 .. Len(s) : array[i] = s[i]

SignalTypes ==
  /\ subs \in Header /\ snap \in [SigEmitters -> Header]
  /\ heap \in [Backing -> Seq(Nat)] /\ heap[NilArray] = <<>>
  /\ pos \in [SigEmitters -> Nat] /\ next \in Nat
  /\ registered \in Seq(Nat) /\ promised \in [SigEmitters -> Seq(Nat)]

ListHeld == Reads(heap[subs.arr], subs.len, registered)

WalksHeld == \A e \in SigEmitters : Reads(heap[snap[e].arr], snap[e].len, promised[e])

Behind == \A e \in SigEmitters : snap[e].arr = subs.arr => snap[e].len <= subs.len

Apart(s) == \A i, j \in 1 .. Len(s) : s[i] = s[j] => i = j
UpTo(s, n) == \A i \in 1 .. Len(s) : s[i] \in 1 .. n

OncePerId == Apart(registered) /\ UpTo(registered, next)

SignalInv == SignalTypes /\ ListHeld /\ WalksHeld /\ Behind /\ OncePerId

LEMMA ReadsIsContent ==
  ASSUME NEW array \in Seq(Nat), NEW s \in Seq(Nat), NEW n \in Nat, Reads(array, n, s)
  PROVE  SubSeq(array, 1, n) = s
<1>1. Len(s) = n /\ n <= Len(array) /\ Len(array) \in Nat
  BY DEF Reads
<1>2. DOMAIN s = 1 .. n /\ \A i \in 1 .. n : s[i] = array[i]
  BY <1>1 DEF Reads
<1>3. SubSeq(array, 1, n) \in Seq(Nat) /\ Len(SubSeq(array, 1, n)) = n
  BY <1>1
<1>4. \A i \in 1 .. n : SubSeq(array, 1, n)[i] = array[i]
  BY <1>1
<1>5. QED  BY <1>1, <1>2, <1>3, <1>4

(* Writing the slot after the n-th. *)
Written(array, n, id) == [array EXCEPT ![n + 1] = id]

LEMMA AppendReads ==
  ASSUME NEW array \in Seq(Nat), NEW s \in Seq(Nat), NEW n \in Nat, NEW id \in Nat,
         Reads(array, n, s), n < Len(array)
  PROVE  Written(array, n, id) \in Seq(Nat) /\ Reads(Written(array, n, id), n + 1, Append(s, id))
<1>1. PICK new : new = Written(array, n, id)
  OBVIOUS
<1>2. Len(s) = n /\ n + 1 \in 1 .. Len(array) /\ Len(array) \in Nat /\ \A i \in 1 .. n : array[i] = s[i]
  BY DEF Reads
<1>3. new \in Seq(Nat) /\ Len(new) = Len(array) /\ new[n + 1] = id /\ \A i \in 1 .. n : new[i] = array[i]
  BY <1>1, <1>2 DEF Written
<1>4. PICK t : t = Append(s, id)
  OBVIOUS
<1>5. Len(t) = n + 1 /\ t[n + 1] = id /\ \A i \in 1 .. n : t[i] = s[i]
  BY <1>2, <1>4
<1>6. Reads(new, n + 1, t)
  <2>1. ASSUME NEW i \in 1 .. (n + 1) PROVE new[i] = t[i]
    <3>1. CASE i = n + 1
      BY <3>1, <1>3, <1>5
    <3>2. CASE i \in 1 .. n
      BY <3>2, <1>2, <1>3, <1>5
    <3>3. QED  BY <3>1, <3>2
  <2>2. QED  BY <2>1, <1>2, <1>3, <1>5 DEF Reads
<1>7. QED  BY <1>1, <1>3, <1>4, <1>6

LEMMA BehindReads ==
  ASSUME NEW array \in Seq(Nat), NEW t \in Seq(Nat), NEW m \in Nat, NEW n \in Nat, NEW id \in Nat,
         Reads(array, m, t), m <= n, n < Len(array)
  PROVE  Reads(Written(array, n, id), m, t)
<1>1. PICK new : new = Written(array, n, id)
  OBVIOUS
<1>2. Len(new) = Len(array) /\ \A i \in 1 .. m : new[i] = array[i]
  BY <1>1 DEF Written
<1>3. Reads(new, m, t)
  BY <1>2 DEF Reads
<1>4. QED  BY <1>1, <1>3

(* The array append makes when there is no room. *)
Grown(array, n, id) ==
  [i \in 1 .. (IF n = 0 THEN 1 ELSE 2 * n) |-> IF i <= n THEN array[i] ELSE IF i = n + 1 THEN id ELSE G!Empty]

LEMMA GrownReads ==
  ASSUME NEW array \in Seq(Nat), NEW s \in Seq(Nat), NEW n \in Nat, NEW id \in Nat, Reads(array, n, s)
  PROVE  /\ Grown(array, n, id) \in Seq(Nat)
         /\ Reads(Grown(array, n, id), n + 1, Append(s, id))
<1>1. PICK size \in Nat : size = IF n = 0 THEN 1 ELSE 2 * n
  OBVIOUS
<1>2. PICK new : new = [i \in 1 .. size |-> IF i <= n THEN array[i] ELSE IF i = n + 1 THEN id ELSE 0]
  OBVIOUS
<1>3. new = Grown(array, n, id)
  BY <1>1, <1>2 DEF Grown, G!Empty
<1>4. n <= Len(array) /\ Len(array) \in Nat /\ n + 1 <= size
  BY <1>1 DEF Reads
<1>5. \A i \in 1 .. size : new[i] \in Nat
  BY <1>2, <1>4
<1>6. new \in Seq(Nat) /\ Len(new) = size
  BY <1>2, <1>5
<1>7. PICK t : t = Append(s, id)
  OBVIOUS
<1>8. Len(t) = n + 1 /\ t[n + 1] = id /\ \A i \in 1 .. n : t[i] = s[i]
  BY <1>7 DEF Reads
<1>9. new[n + 1] = id /\ \A i \in 1 .. n : new[i] = array[i]
  BY <1>2, <1>4
<1>10. \A i \in 1 .. n : array[i] = s[i]
  BY DEF Reads
<1>11. Reads(new, n + 1, t)
  <2>1. ASSUME NEW i \in 1 .. (n + 1) PROVE new[i] = t[i]
    <3>1. CASE i = n + 1
      BY <3>1, <1>8, <1>9
    <3>2. CASE i \in 1 .. n
      BY <3>2, <1>8, <1>9, <1>10
    <3>3. QED  BY <3>1, <3>2
  <2>2. QED  BY <2>1, <1>4, <1>6, <1>8 DEF Reads
<1>12. QED  BY <1>3, <1>6, <1>7, <1>11

(* Where the i-th element came from, the k-th being left out. *)
After(k, i) == IF i < k THEN i ELSE i + 1

LEMMA RemoveIs ==
  ASSUME NEW s \in Seq(Nat), NEW k \in 1 .. Len(s)
  PROVE  /\ G!RemoveAt(s, k) \in Seq(Nat)
         /\ Len(G!RemoveAt(s, k)) = Len(s) - 1
         /\ \A i \in 1 .. Len(s) - 1 : G!RemoveAt(s, k)[i] = s[After(k, i)]
<1>0. Len(s) \in Nat
  OBVIOUS
<1>1. PICK a : a = SubSeq(s, 1, k - 1)
  OBVIOUS
<1>2. a \in Seq(Nat) /\ Len(a) = k - 1 /\ \A i \in 1 .. k - 1 : a[i] = s[i]
  BY <1>0, <1>1
<1>3. PICK b : b = SubSeq(s, k + 1, Len(s))
  OBVIOUS
<1>4. b \in Seq(Nat) /\ Len(b) = Len(s) - k /\ \A i \in 1 .. Len(s) - k : b[i] = s[k + i]
  <2>1. \A i \in (k + 1) .. Len(s) : s[i] \in Nat
    BY <1>0
  <2>2. k + 1 \in Int /\ Len(s) - (k + 1) + 1 = Len(s) - k
    BY <1>0
  <2>3. /\ b \in Seq(Nat)
        /\ Len(b) = IF k + 1 <= Len(s) THEN Len(s) - (k + 1) + 1 ELSE 0
        /\ \A i \in 1 .. Len(s) - (k + 1) + 1 : b[i] = s[(k + 1) + i - 1]
    BY <1>0, <1>3, <2>1, <2>2, SubSeqProperties
  <2>4. Len(b) = Len(s) - k
    <3>1. CASE k = Len(s)
      BY <3>1, <2>3, <1>0
    <3>2. CASE k + 1 <= Len(s)
      BY <3>2, <2>2, <2>3
    <3>3. QED  BY <3>1, <3>2, <1>0
  <2>5. ASSUME NEW i \in 1 .. Len(s) - k PROVE b[i] = s[k + i]
    <3>1. (k + 1) + i - 1 = k + i
      BY <1>0
    <3>2. QED  BY <2>2, <2>3, <3>1, Zenon
  <2>6. QED  BY <2>3, <2>4, <2>5
<1>5. G!RemoveAt(s, k) = a \o b
  BY <1>1, <1>3 DEF G!RemoveAt
<1>6. a \o b \in Seq(Nat) /\ Len(a \o b) = Len(s) - 1
  <2>1. Len(a \o b) = Len(a) + Len(b) /\ a \o b \in Seq(Nat)
    BY <1>2, <1>4, ConcatProperties
  <2>2. (k - 1) + (Len(s) - k) = Len(s) - 1
    BY <1>0
  <2>3. QED  BY <2>1, <2>2, <1>2, <1>4
<1>7. ASSUME NEW i \in 1 .. Len(s) - 1 PROVE (a \o b)[i] = s[After(k, i)]
  <2>1. CASE i < k
    <3>1. i \in 1 .. k - 1 /\ After(k, i) = i
      BY <2>1 DEF After
    <3>2. (a \o b)[i] = a[i]
      BY <3>1, <1>2, <1>4
    <3>3. QED  BY <3>1, <3>2, <1>2
  <2>2. CASE i >= k
    <3>1. (a \o b)[i] = b[i - (k - 1)] /\ i - (k - 1) \in 1 .. Len(s) - k
      BY <2>2, <1>2, <1>4
    <3>2. k + (i - (k - 1)) = After(k, i)
      BY <2>2 DEF After
    <3>3. QED  BY <2>2, <3>1, <3>2, <1>4
  <2>3. i < k \/ i >= k
    BY <1>0
  <2>4. QED  BY <2>1, <2>2, <2>3
<1>8. \A i \in 1 .. Len(s) - 1 : (a \o b)[i] = s[After(k, i)]
  BY <1>7
<1>9. QED  BY <1>5, <1>6, <1>8

LEMMA RemoveApart ==
  ASSUME NEW s \in Seq(Nat), NEW k \in 1 .. Len(s), NEW n \in Nat, Apart(s), UpTo(s, n)
  PROVE  Apart(G!RemoveAt(s, k)) /\ UpTo(G!RemoveAt(s, k), n)
<1>1. PICK t : t = G!RemoveAt(s, k)
  OBVIOUS
<1>2. Len(t) = Len(s) - 1 /\ Len(s) \in Nat
  BY <1>1, RemoveIs
<1>3. ASSUME NEW i \in 1 .. Len(t) PROVE t[i] = s[After(k, i)]
  BY <1>1, <1>2, RemoveIs
<1>4. UpTo(t, n)
  <2>1. ASSUME NEW i \in 1 .. Len(t) PROVE t[i] \in 1 .. n
    <3>1. PICK x \in 1 .. Len(s) : x = After(k, i)
      BY <1>2 DEF After
    <3>2. QED  BY <3>1, <1>3 DEF UpTo
  <2>2. QED  BY <2>1 DEF UpTo
<1>5. Apart(t)
  <2>1. ASSUME NEW i \in 1 .. Len(t), NEW j \in 1 .. Len(t), t[i] = t[j] PROVE i = j
    <3>1. PICK x \in 1 .. Len(s) : x = After(k, i)
      BY <1>2 DEF After
    <3>2. PICK y \in 1 .. Len(s) : y = After(k, j)
      BY <1>2 DEF After
    <3>3. s[x] = s[y]
      BY <2>1, <3>1, <3>2, <1>3
    <3>4. x = y
      BY <3>3 DEF Apart
    <3>5. QED  BY <3>1, <3>2, <3>4 DEF After
  <2>2. QED  BY <2>1 DEF Apart
<1>6. QED  BY <1>1, <1>4, <1>5

LEMMA ReadsItself == ASSUME NEW s \in Seq(Nat) PROVE Reads(s, Len(s), s)
BY DEF Reads

LEMMA SignalInit == G!Init => SignalInv
<1> SUFFICES ASSUME G!Init PROVE SignalInv
  OBVIOUS
<1>1. G!Nil \in Header /\ G!Nil.len = 0 /\ G!Nil.arr = NilArray
  BY DEF G!Nil, Header, Backing
<1>2. <<>> \in Seq(Nat) /\ Len(<<>>) = 0
  OBVIOUS
<1>3. SignalTypes
  BY <1>1, <1>2 DEF G!Init, SignalTypes, Backing
<1>4. Reads(<<>>, 0, <<>>)
  BY DEF Reads
<1>5. heap[NilArray] = <<>>
  BY DEF G!Init
<1>6. ListHeld /\ WalksHeld /\ Behind
  BY <1>1, <1>4, <1>5 DEF G!Init, ListHeld, WalksHeld, Behind
<1>7. OncePerId
  BY <1>2 DEF G!Init, OncePerId, Apart, UpTo
<1>8. QED  BY <1>3, <1>6, <1>7 DEF SignalInv

(* A new subscription at the end of the list. *)
LEMMA AppendApart ==
  ASSUME NEW s \in Seq(Nat), NEW n \in Nat, Apart(s), UpTo(s, n)
  PROVE  Append(s, n + 1) \in Seq(Nat) /\ Apart(Append(s, n + 1)) /\ UpTo(Append(s, n + 1), n + 1)
<1>1. PICK t : t = Append(s, n + 1)
  OBVIOUS
<1>2. t \in Seq(Nat) /\ Len(t) = Len(s) + 1 /\ Len(s) \in Nat /\ t[Len(s) + 1] = n + 1 /\ \A i \in 1 .. Len(s) : t[i] = s[i]
  BY <1>1
<1>3. ASSUME NEW i \in 1 .. Len(t), i # Len(s) + 1 PROVE i \in 1 .. Len(s) /\ t[i] = s[i] /\ t[i] \in 1 .. n
  BY <1>2, <1>3 DEF UpTo
<1>4. UpTo(t, n + 1)
  BY <1>2, <1>3 DEF UpTo
<1>5. Apart(t)
  <2>1. ASSUME NEW i \in 1 .. Len(t), NEW j \in 1 .. Len(t), t[i] = t[j] PROVE i = j
    <3>1. CASE i = Len(s) + 1 \/ j = Len(s) + 1
      BY <3>1, <2>1, <1>2, <1>3
    <3>2. CASE i # Len(s) + 1 /\ j # Len(s) + 1
      BY <3>2, <2>1, <1>3 DEF Apart
    <3>3. QED  BY <3>1, <3>2
  <2>2. QED  BY <2>1 DEF Apart
<1>6. QED  BY <1>1, <1>2, <1>4, <1>5

(* In place: only the slot behind the list is written, and every emission's *)
(* slice that shares the array ends before it.                              *)
LEMMA InPlace ==
  ASSUME SignalInv, NEW id \in Nat, subs.len < Len(heap[subs.arr]),
         heap' = [heap EXCEPT ![subs.arr] = Written(heap[subs.arr], subs.len, id)],
         subs' = [subs EXCEPT !.len = @ + 1],
         registered' = Append(registered, id), UNCHANGED <<snap, pos, promised>>
  PROVE  /\ heap' \in [Backing -> Seq(Nat)] /\ heap'[NilArray] = <<>> /\ subs' \in Header
         /\ ListHeld' /\ WalksHeld' /\ Behind'
<1>1. PICK a \in Backing : a = subs.arr
  BY DEF SignalInv, SignalTypes, Header
<1>2. PICK n \in Nat : n = subs.len
  BY DEF SignalInv, SignalTypes, Header
<1>3. heap[a] \in Seq(Nat) /\ n < Len(heap[a]) /\ Len(heap[a]) \in Nat
  BY <1>1, <1>2 DEF SignalInv, SignalTypes
<1>4. PICK new : new = Written(heap[a], n, id)
  OBVIOUS
<1>5. Reads(heap[a], n, registered) /\ registered \in Seq(Nat) /\ new \in Seq(Nat) /\ Reads(new, n + 1, Append(registered, id))
  <2>1. Reads(heap[a], n, registered) /\ registered \in Seq(Nat)
    BY <1>1, <1>2 DEF SignalInv, SignalTypes, ListHeld
  <2>2. QED  BY <2>1, <1>3, <1>4, AppendReads
<1>6. heap' = [heap EXCEPT ![a] = new]
  BY <1>1, <1>2, <1>4
<1>7. heap \in [Backing -> Seq(Nat)]
  BY DEF SignalInv, SignalTypes
<1>8. heap' \in [Backing -> Seq(Nat)] /\ heap'[a] = new /\ \A b \in Backing : b # a => heap'[b] = heap[b]
  BY <1>5, <1>6, <1>7
<1>9. subs' \in Header /\ subs'.arr = a /\ subs'.len = n + 1
  <2>1. subs \in Header
    BY DEF SignalInv, SignalTypes
  <2>2. QED  BY <2>1, <1>1, <1>2 DEF Header
<1>10. a # NilArray /\ NilArray \in Backing
  <2>1. heap[NilArray] = <<>>
    BY DEF SignalInv, SignalTypes
  <2>2. Len(<<>>) = 0
    OBVIOUS
  <2>3. QED  BY <2>1, <2>2, <1>3 DEF Backing
<1>11. heap'[NilArray] = <<>>
  BY <1>8, <1>10 DEF SignalInv, SignalTypes
<1>12. ListHeld'
  BY <1>5, <1>8, <1>9 DEF ListHeld
<1>13. ASSUME NEW e \in SigEmitters PROVE Reads(heap'[snap[e].arr], snap[e].len, promised[e])
  <2>1. /\ snap[e].arr \in Backing /\ snap[e].len \in Nat /\ promised[e] \in Seq(Nat)
        /\ Reads(heap[snap[e].arr], snap[e].len, promised[e])
    BY DEF SignalInv, SignalTypes, Header, WalksHeld
  <2>2. CASE snap[e].arr # a
    BY <2>1, <2>2, <1>8
  <2>3. CASE snap[e].arr = a
    <3>1. snap[e].len <= n
      BY <2>3, <1>1, <1>2 DEF SignalInv, Behind
    <3>2. Reads(new, snap[e].len, promised[e])
      BY <3>1, <2>1, <2>3, <1>3, <1>4, BehindReads
    <3>3. QED  BY <3>2, <2>3, <1>8
  <2>4. QED  BY <2>2, <2>3
<1>14. WalksHeld'
  BY <1>13 DEF WalksHeld
<1>15. Behind'
  <2>1. ASSUME NEW e \in SigEmitters, snap[e].arr = a PROVE snap[e].len <= n + 1
    <3>1. snap[e].len <= n /\ snap[e].len \in Nat
      BY <2>1, <1>1, <1>2 DEF SignalInv, SignalTypes, Header, Behind
    <3>2. QED  BY <3>1
  <2>2. QED  BY <2>1, <1>9 DEF Behind
<1>16. QED  BY <1>8, <1>9, <1>11, <1>12, <1>14, <1>15

(* A new array: nobody points to it, so nobody's slice is touched. *)
LEMMA InNewArray ==
  ASSUME SignalInv, NEW a \in G!Free, NEW new \in Seq(Nat), NEW n \in Nat, NEW s \in Seq(Nat), Reads(new, n, s),
         heap' = [heap EXCEPT ![a] = new], subs' = [arr |-> a, len |-> n],
         registered' = s, UNCHANGED <<snap, pos, promised>>
  PROVE  /\ heap' \in [Backing -> Seq(Nat)] /\ heap'[NilArray] = <<>> /\ subs' \in Header
         /\ ListHeld' /\ WalksHeld' /\ Behind'
<1>1. a \in Backing /\ a # NilArray /\ NilArray \in Backing /\ \A e \in SigEmitters : snap[e].arr # a
  BY SignalAssumption DEF G!Free, Backing
<1>2. heap \in [Backing -> Seq(Nat)] /\ heap[NilArray] = <<>>
  BY DEF SignalInv, SignalTypes
<1>3. heap' \in [Backing -> Seq(Nat)] /\ heap'[a] = new /\ \A b \in Backing : b # a => heap'[b] = heap[b]
  BY <1>1, <1>2
<1>4. subs' \in Header /\ subs'.arr = a /\ subs'.len = n
  BY <1>1 DEF Header
<1>5. ListHeld'
  BY <1>3, <1>4 DEF ListHeld
<1>6. WalksHeld'
  <2>1. ASSUME NEW e \in SigEmitters PROVE snap[e].arr \in Backing
    BY DEF SignalInv, SignalTypes, Header
  <2>2. ASSUME NEW e \in SigEmitters PROVE heap'[snap[e].arr] = heap[snap[e].arr]
    BY <2>1, <1>1, <1>3
  <2>3. QED  BY <2>2 DEF SignalInv, WalksHeld
<1>7. Behind'
  BY <1>1, <1>4 DEF Behind
<1>8. QED  BY <1>1, <1>2, <1>3, <1>4, <1>5, <1>6, <1>7

LEMMA AppendStep == ASSUME SignalInv, G!Subscribe PROVE SignalInv'
<1>1. /\ next' = next + 1 /\ registered' = Append(registered, next + 1)
      /\ UNCHANGED <<snap, pos, promised>> /\ G!AppendTo(subs, next + 1)
  BY DEF G!Subscribe
<1>2. next \in Nat /\ registered \in Seq(Nat) /\ Apart(registered) /\ UpTo(registered, next)
  BY DEF SignalInv, SignalTypes, OncePerId
<1>3. registered' \in Seq(Nat) /\ OncePerId'
  BY <1>1, <1>2, AppendApart DEF OncePerId
<1>4. /\ heap' \in [Backing -> Seq(Nat)] /\ heap'[NilArray] = <<>> /\ subs' \in Header
      /\ ListHeld' /\ WalksHeld' /\ Behind'
  <2>1. CASE /\ subs.len < G!Cap(subs)
             /\ heap' = [heap EXCEPT ![subs.arr][subs.len + 1] = next + 1]
             /\ subs' = [subs EXCEPT !.len = @ + 1]
    <3>1. heap' = [heap EXCEPT ![subs.arr] = Written(heap[subs.arr], subs.len, next + 1)]
      BY <2>1 DEF Written
    <3>2. next + 1 \in Nat /\ subs.len < Len(heap[subs.arr])
      BY <2>1, <1>2 DEF G!Cap
    <3>3. QED  BY <2>1, <3>1, <3>2, <1>1, InPlace
  <2>2. CASE \E a \in G!Free : /\ heap' = [heap EXCEPT ![a] = Grown(heap[subs.arr], subs.len, next + 1)]
                               /\ subs' = [arr |-> a, len |-> subs.len + 1]
    <3>1. PICK a \in G!Free : /\ heap' = [heap EXCEPT ![a] = Grown(heap[subs.arr], subs.len, next + 1)]
                              /\ subs' = [arr |-> a, len |-> subs.len + 1]
      BY <2>2
    <3>2. heap[subs.arr] \in Seq(Nat) /\ subs.len \in Nat /\ Reads(heap[subs.arr], subs.len, registered)
      BY DEF SignalInv, SignalTypes, Header, ListHeld
    <3>3. PICK new : new = Grown(heap[subs.arr], subs.len, next + 1)
      OBVIOUS
    <3>9. next + 1 \in Nat /\ subs.len + 1 \in Nat
      BY <3>2, <1>2
    <3>4. new \in Seq(Nat) /\ Reads(new, subs.len + 1, Append(registered, next + 1))
      BY <3>2, <3>3, <3>9, <1>2, GrownReads
    <3>5. QED  BY <3>1, <3>3, <3>4, <3>9, <1>1, <1>3, InNewArray
  <2>3. QED  BY <1>1, <2>1, <2>2 DEF G!AppendTo, Grown
<1>5. SignalTypes'
  BY <1>1, <1>2, <1>3, <1>4 DEF SignalInv, SignalTypes
<1>6. QED  BY <1>3, <1>4, <1>5 DEF SignalInv

LEMMA RemoveStep == ASSUME SignalInv, NEW id \in 1 .. next, G!Unsubscribe(id) PROVE SignalInv'
<1>1. UNCHANGED <<snap, pos, next, promised>>
  BY DEF G!Unsubscribe
<1>2. PICK i \in 1 .. subs.len : heap[subs.arr][i] = id /\ G!DropAt(i)
  BY DEF G!Unsubscribe
<1>3. PICK k \in DOMAIN registered : registered[k] = id /\ registered' = G!RemoveAt(registered, k)
  BY DEF G!Unsubscribe
<1>4. /\ heap[subs.arr] \in Seq(Nat) /\ subs.len \in Nat /\ Reads(heap[subs.arr], subs.len, registered)
      /\ registered \in Seq(Nat) /\ next \in Nat /\ Apart(registered) /\ UpTo(registered, next)
  BY DEF SignalInv, SignalTypes, Header, ListHeld, OncePerId
<1>5. subs.len = Len(registered) /\ \A j \in 1 .. Len(registered) : heap[subs.arr][j] = registered[j]
  BY <1>4 DEF Reads
<1>6. k \in 1 .. Len(registered) /\ i \in 1 .. Len(registered)
  BY <1>4, <1>5
<1>7. i = k
  BY <1>2, <1>3, <1>4, <1>5, <1>6 DEF Apart
<1>8. SubSeq(heap[subs.arr], 1, subs.len) = registered
  BY <1>4, ReadsIsContent
<1>9. PICK new : new = G!RemoveAt(registered, k)
  OBVIOUS
<1>10. new \in Seq(Nat) /\ Len(new) = subs.len - 1 /\ subs.len - 1 \in Nat
  <2>1. new \in Seq(Nat) /\ Len(new) = Len(registered) - 1
    BY <1>4, <1>6, <1>9, RemoveIs
  <2>2. QED  BY <2>1, <1>5
<1>11. Reads(new, subs.len - 1, new)
  BY <1>10, ReadsItself
<1>12. PICK a \in G!Free : heap' = [heap EXCEPT ![a] = new] /\ subs' = [arr |-> a, len |-> subs.len - 1]
  BY <1>2, <1>7, <1>8, <1>9 DEF G!DropAt, G!Content
<1>13. /\ heap' \in [Backing -> Seq(Nat)] /\ heap'[NilArray] = <<>> /\ subs' \in Header
       /\ ListHeld' /\ WalksHeld' /\ Behind'
  BY <1>1, <1>3, <1>9, <1>10, <1>11, <1>12, InNewArray
<1>14. OncePerId'
  BY <1>1, <1>3, <1>4, <1>6, RemoveApart DEF OncePerId
<1>15. SignalTypes'
  BY <1>1, <1>3, <1>9, <1>10, <1>13 DEF SignalInv, SignalTypes
<1>16. QED  BY <1>13, <1>14, <1>15 DEF SignalInv

LEMMA EmptyStep == ASSUME SignalInv, G!Clear PROVE SignalInv'
<1>1. subs' = G!Nil /\ registered' = <<>> /\ UNCHANGED <<heap, snap, pos, next, promised>>
  BY DEF G!Clear
<1>2. G!Nil \in Header /\ G!Nil.len = 0 /\ G!Nil.arr = NilArray
  BY DEF G!Nil, Header, Backing
<1>3. <<>> \in Seq(Nat) /\ Len(<<>>) = 0
  OBVIOUS
<1>4. SignalTypes'
  BY <1>1, <1>2, <1>3 DEF SignalInv, SignalTypes
<1>5. Reads(<<>>, 0, <<>>)
  BY DEF Reads
<1>6. heap[NilArray] = <<>>
  BY DEF SignalInv, SignalTypes
<1>7. ListHeld' /\ WalksHeld'
  BY <1>1, <1>2, <1>5, <1>6 DEF SignalInv, ListHeld, WalksHeld
<1>8. ASSUME NEW e \in SigEmitters, snap[e].arr = NilArray PROVE snap[e].len <= 0
  BY <1>3, <1>6, <1>8 DEF SignalInv, WalksHeld, Reads
<1>9. Behind'
  BY <1>1, <1>2, <1>8 DEF Behind
<1>10. OncePerId'
  BY <1>1, <1>3 DEF OncePerId, Apart, UpTo
<1>11. QED  BY <1>4, <1>7, <1>9, <1>10 DEF SignalInv

(* The slice an emission takes is the subscribers' own, or none. *)
LEMMA HeaderTaken ==
  ASSUME SignalInv, NEW e \in SigEmitters, NEW h \in Header, NEW p \in Nat, NEW s \in Seq(Nat),
         Reads(heap[h.arr], h.len, s), h.arr = subs.arr => h.len <= subs.len,
         snap' = [snap EXCEPT ![e] = h], pos' = [pos EXCEPT ![e] = p], promised' = [promised EXCEPT ![e] = s],
         UNCHANGED <<subs, heap, next, registered>>
  PROVE  SignalInv'
<1>1. SignalTypes'
  BY DEF SignalInv, SignalTypes
<1>2. /\ snap'[e] = h /\ promised'[e] = s
      /\ \A f \in SigEmitters : f # e => snap'[f] = snap[f] /\ promised'[f] = promised[f]
  BY DEF SignalInv, SignalTypes
<1>3. WalksHeld'
  BY <1>2 DEF SignalInv, WalksHeld
<1>4. Behind'
  BY <1>2 DEF SignalInv, Behind
<1>5. ListHeld' /\ OncePerId'
  BY DEF SignalInv, ListHeld, OncePerId
<1>6. QED  BY <1>1, <1>3, <1>4, <1>5 DEF SignalInv

LEMMA EmitBeginStep == ASSUME SignalInv, NEW e \in SigEmitters, G!EmitBegin(e) PROVE SignalInv'
<1>1. subs \in Header /\ registered \in Seq(Nat) /\ Reads(heap[subs.arr], subs.len, registered) /\ subs.len <= subs.len
  BY DEF SignalInv, SignalTypes, ListHeld, Header
<1>2. QED  BY <1>1, HeaderTaken DEF G!EmitBegin

LEMMA EmitEndStep == ASSUME SignalInv, NEW e \in SigEmitters, G!EmitEnd(e) PROVE SignalInv'
<1>1. G!Nil \in Header /\ G!Nil.len = 0 /\ G!Nil.arr = NilArray
  BY DEF G!Nil, Header, Backing
<1>2. <<>> \in Seq(Nat) /\ Reads(<<>>, 0, <<>>)
  BY DEF Reads
<1>3. heap[NilArray] = <<>> /\ subs.len >= 0 /\ 0 \in Nat
  BY DEF SignalInv, SignalTypes, Header
<1>4. QED  BY <1>1, <1>2, <1>3, HeaderTaken DEF G!EmitEnd

LEMMA CallStep == ASSUME SignalInv, NEW e \in SigEmitters, G!Call(e) PROVE SignalInv'
<1>1. pos' \in [SigEmitters -> Nat] /\ UNCHANGED <<subs, heap, snap, next, registered, promised>>
  BY DEF G!Call, SignalInv, SignalTypes
<1>2. QED  BY <1>1 DEF SignalInv, SignalTypes, ListHeld, WalksHeld, Behind, OncePerId

LEMMA SignalStep == SignalInv /\ [G!Next]_(G!vars) => SignalInv'
<1>1. SignalInv /\ UNCHANGED G!vars => SignalInv'
  BY DEF G!vars, SignalInv, SignalTypes, ListHeld, WalksHeld, Behind, OncePerId
<1>2. QED
  BY <1>1, AppendStep, RemoveStep, EmptyStep, EmitBeginStep, EmitEndStep, CallStep DEF G!Next

LEMMA SignalsRun == AppSpec => G!Init /\ [][G!Next]_(G!vars)
<1>1. AppInit => G!Init
  BY DEF AppInit
<1>2. [AppNext]_appVars => [G!Next]_(G!vars)
  BY DEF AppNext, Bus, Emitting, Policies, Seeding, Menus, Logins, Sessions, Requests, Routing, appVars, signalVars, G!vars
<1>3. QED  BY <1>1, <1>2, PTL DEF AppSpec

(* Whatever is subscribed, removed or cleared meanwhile, and however many    *)
(* emissions share an array with the list: each walks exactly the list of    *)
(* the moment it began, and the list is the subscriptions in force.          *)
THEOREM EmissionUndisturbedHolds == AppSpec => []EmissionUndisturbed
<1>1. SignalInv => EmissionUndisturbed
  <2> SUFFICES ASSUME SignalInv PROVE G!ListIsRegistered /\ G!EmissionUndisturbed
    BY DEF EmissionUndisturbed
  <2>1. /\ heap[subs.arr] \in Seq(Nat) /\ subs.len \in Nat /\ registered \in Seq(Nat)
        /\ Reads(heap[subs.arr], subs.len, registered)
    BY DEF SignalInv, SignalTypes, Header, ListHeld
  <2>2. G!ListIsRegistered
    BY <2>1, ReadsIsContent DEF G!ListIsRegistered, G!Content
  <2>3. ASSUME NEW e \in SigEmitters PROVE SubSeq(heap[snap[e].arr], 1, snap[e].len) = promised[e]
    <3>1. /\ heap[snap[e].arr] \in Seq(Nat) /\ snap[e].len \in Nat /\ promised[e] \in Seq(Nat)
          /\ Reads(heap[snap[e].arr], snap[e].len, promised[e])
      BY DEF SignalInv, SignalTypes, Header, WalksHeld
    <3>2. QED  BY <3>1, ReadsIsContent
  <2>4. G!EmissionUndisturbed
    BY <2>3 DEF G!EmissionUndisturbed, G!Content
  <2>5. QED  BY <2>2, <2>4
<1>2. QED  BY <1>1, SignalInit, SignalStep, SignalsRun, PTL

(* An emission reaches those subscribed when it began, whatever is done to   *)
(* the bus and to the list meanwhile: the two of them together.              *)
THEOREM SignalsDeliverHold == AppSpec => []SignalsDeliver
<1>1. TopicDelivers /\ EmissionUndisturbed => SignalsDeliver
  BY DEF SignalsDeliver
<1>2. QED  BY <1>1, TopicDeliversHolds, EmissionUndisturbedHolds, PTL

-----------------------------------------------------------------------------
(* Routes and their URLs.  What is asked and answered stays as long as it is *)
(* looked at, so the invariant (RouteInv) is small; the work is in what an   *)
(* answer means.  By order and by name, the same parameters are given values *)
(* (ChoiceIsGiven, ByNameFills).  A path grows token by token (Path), and a  *)
(* fact of two paths, or of one, is carried along it by SetInduction: more   *)
(* values make a longer path, the same parameters with other values another  *)
(* path, and no two slashes meet.                                            *)
(* A set of naturals that has an element has a least one.                    *)
LEMMA LeastElement ==
  ASSUME NEW T, T \subseteq Nat, T # {}
  PROVE  \E x \in T : \A y \in T : ~(y < x)
<1>1. PICK less : less = OpToRel(<, Nat)
  BY Zenon
<1>2. IsWellFoundedOn(less, Nat)
  BY <1>1, NatLessThanWellFounded, Zenon
<1>3. \E x \in T : \A y \in T : ~ (<<y, x>> \in less)
  BY <1>2, WFMin
<1>4. QED  BY <1>1, <1>3 DEF OpToRel

(* Induction up to n, over the set of the numbers that a fact holds of.      *)
LEMMA SetInduction ==
  ASSUME NEW n \in Nat, NEW V, 0 \in V, \A i \in 1 .. n : i - 1 \in V => i \in V
  PROVE  \A i \in 0 .. n : i \in V
<1> SUFFICES ASSUME {i \in 0 .. n : i \notin V} # {} PROVE FALSE
  OBVIOUS
<1>1. PICK x \in {i \in 0 .. n : i \notin V} : \A y \in {i \in 0 .. n : i \notin V} : ~(y < x)
  <2>1. {i \in 0 .. n : i \notin V} \subseteq Nat
    OBVIOUS
  <2>2. QED  BY <2>1, LeastElement
<1>2. x \in 1 .. n /\ x - 1 \in 0 .. n /\ x - 1 < x
  BY <1>1
<1>3. x - 1 \in V
  BY <1>1, <1>2
<1>4. QED  BY <1>1, <1>2, <1>3

-----------------------------------------------------------------------------
(* The path as it grows: a function defined by recursion exists.             *)
LEMMA WrittenGrows ==
  ASSUME NEW p, NEW m \in Nat, Len(p) = m, NEW kinds, NEW values
  PROVE  LET w == N!Written(p, kinds, values) IN
         w[0] = <<>> /\ \A i \in 1 .. m : w[i] = N!Write(p, kinds, values, w[i - 1], i)
<1> DEFINE W(path, i) == N!Write(p, kinds, values, path, i)
           Rule(f, n) == f = [i \in 0 .. n |-> IF i = 0 THEN <<>> ELSE W(f[i - 1], i)]
<1> HIDE DEF W
<1>1. PICK V : V = {k \in 0 .. m : \E f : Rule(f, k)}
  OBVIOUS
<1>2. 0 \in V
  <2>1. PICK f : f = [i \in 0 .. 0 |-> <<>>]
    OBVIOUS
  <2>2. f = [i \in 0 .. 0 |-> IF i = 0 THEN <<>> ELSE W(f[i - 1], i)]
    BY <2>1
  <2>3. Rule(f, 0) /\ 0 \in 0 .. m
    BY <2>2
  <2>4. QED  BY <1>1, <2>3
<1>3. ASSUME NEW k \in 1 .. m, k - 1 \in V PROVE k \in V
  <2>1. PICK f : Rule(f, k - 1)
    BY <1>1, <1>3
  <2>2. PICK g : g = [i \in 0 .. k |-> IF i < k THEN f[i] ELSE W(f[i - 1], i)]
    OBVIOUS
  <2>3. ASSUME NEW i \in 0 .. k PROVE g[i] = IF i = 0 THEN <<>> ELSE W(g[i - 1], i)
    <3>1. CASE i < k
      <4>1. i \in 0 .. k - 1
        BY <3>1
      <4>2. f[i] = IF i = 0 THEN <<>> ELSE W(f[i - 1], i)
        BY <2>1, <4>1
      <4>3. i # 0 => i - 1 \in 0 .. k /\ i - 1 < k
        BY <3>1
      <4>4. QED  BY <2>2, <3>1, <4>2, <4>3
    <3>2. CASE ~(i < k)
      <4>1. i = k /\ i # 0 /\ i - 1 \in 0 .. k /\ i - 1 < k
        BY <3>2
      <4>2. QED  BY <2>2, <3>2, <4>1
    <3>3. QED  BY <3>1, <3>2
  <2>4. g = [i \in 0 .. k |-> IF i = 0 THEN <<>> ELSE W(g[i - 1], i)]
    BY <2>2, <2>3
  <2>5. k \in 0 .. m
    OBVIOUS
  <2>6. QED  BY <1>1, <2>4, <2>5
<1>4. m \in V
  <2>1. \A i \in 0 .. m : i \in V
    BY <1>2, <1>3, SetInduction
  <2>2. QED  BY <2>1
<1>5. \E f : Rule(f, m)
  BY <1>1, <1>4
<1>6. N!Written(p, kinds, values) = CHOOSE f : Rule(f, m)
  BY DEF N!Written, W
<1>7. PICK w : w = N!Written(p, kinds, values) /\ Rule(w, m)
  BY <1>5, <1>6
<1>8. w[0] = <<>> /\ \A i \in 1 .. m : w[i] = W(w[i - 1], i)
  BY <1>7
<1>9. QED  BY <1>7, <1>8 DEF W

-----------------------------------------------------------------------------
(* The tokens of a pattern; the slash is named, for a string literal is      *)
(* not known to be in STRING.                                                *)
PathToken == [is : STRING, s : STRING] \cup {N!Slash}

(* What a kind says of its token.                                            *)
KindsHold(p, kinds, m) ==
  /\ DOMAIN kinds = 1 .. m
  /\ \A i \in 1 .. m :
       /\ kinds[i] \in {"named", "optional", "wildcard", "text"}
       /\ kinds[i] # "text" => p[i].is # "text"
       /\ kinds[i] = "wildcard" => p[i].is \in N!Greedy
       /\ kinds[i] = "optional" => p[i].is \notin N!Greedy

LEMMA KindsOf ==
  ASSUME NEW p \in Seq(PathToken), NEW m \in Nat, m = Len(p)
  PROVE  KindsHold(p, N!Kinds(p), m)
<1>1. DOMAIN p = 1 .. m
  OBVIOUS
<1> PICK kinds : kinds = N!Kinds(p)
  OBVIOUS
<1>2. DOMAIN kinds = 1 .. m
  BY <1>1, Zenon DEF N!Kinds
<1>3. ASSUME NEW i \in 1 .. m
      PROVE  /\ kinds[i] \in {"named", "optional", "wildcard", "text"}
             /\ kinds[i] # "text" => p[i].is # "text"
             /\ kinds[i] = "wildcard" => p[i].is \in N!Greedy
             /\ kinds[i] = "optional" => p[i].is \notin N!Greedy
  <2> PICK is : is = p[i].is
    OBVIOUS
  <2> PICK first \in BOOLEAN : first = (i = 1 \/ p[i - 1] = N!Slash)
    OBVIOUS
  <2> PICK boundary \in BOOLEAN : boundary = (first \/ p[i - 1] \in {N!Text("-"), N!Text(".")})
    OBVIOUS
  <2>1. kinds[i] = IF is = "{}" \/ (is \in {":", ":+"} /\ boundary) \/ (is \in {"+"} /\ first) THEN "named"
                   ELSE IF (is \in {":?"} /\ boundary) \/ (is \in {} /\ first) THEN "optional"
                   ELSE IF (is \in {":*"} /\ boundary) \/ (is \in {"*"} /\ first) THEN "wildcard" ELSE "text"
    BY <1>1, Zenon DEF N!Kinds
  <2>2. QED  BY <2>1, Zenon DEF N!Greedy
<1>4. QED  BY <1>2, <1>3 DEF KindsHold

(* The parameters are positions of the pattern, the required ones among      *)
(* them.                                                                     *)
LEMMA ParamsOf ==
  ASSUME NEW p, NEW kinds, NEW m \in Nat, KindsHold(p, kinds, m)
  PROVE  /\ N!Params(kinds) = {i \in 1 .. m : kinds[i] # "text"}
         /\ N!Required(kinds) = {i \in 1 .. m : kinds[i] = "named"}
         /\ IsFiniteSet(N!Params(kinds)) /\ IsFiniteSet(N!Required(kinds))
         /\ N!Required(kinds) \subseteq N!Params(kinds) /\ N!Params(kinds) \subseteq 1 .. m
<1>1. N!Params(kinds) = {i \in 1 .. m : kinds[i] # "text"}
  BY DEF N!Params, KindsHold
<1>2. N!Required(kinds) = {i \in 1 .. m : kinds[i] = "named"}
  BY DEF N!Required, KindsHold
<1>3. N!Required(kinds) \subseteq N!Params(kinds) /\ N!Params(kinds) \subseteq 1 .. m
  BY <1>1, <1>2
<1>4. IsFiniteSet(1 .. m)
  BY FS_Interval
<1>5. IsFiniteSet(N!Params(kinds)) /\ IsFiniteSet(N!Required(kinds))
  BY <1>3, <1>4, FS_Subset
<1>6. QED  BY <1>1, <1>2, <1>3, <1>5

-----------------------------------------------------------------------------
(* NamedRoutes has an instance of FiniteSets of its own.                     *)
LEMMA SameCardinality == \A V : N!Cardinality(V) = Cardinality(V)
BY DEF N!Cardinality, Cardinality

(* The ranks of the elements of a set count them: 1 to its cardinality, in   *)
(* order, and each once (RankGrows, RankOnto).                               *)
LEMMA RankBounds ==
  ASSUME NEW V, IsFiniteSet(V), NEW i \in V, V \subseteq Nat
  PROVE  N!Rank(V, i) \in 1 .. Cardinality(V)
<1>1. {j \in V : j <= i} \in SUBSET V /\ i \in {j \in V : j <= i}
  OBVIOUS
<1>2. Cardinality({j \in V : j <= i}) <= Cardinality(V) /\ IsFiniteSet({j \in V : j <= i})
  BY <1>1, FS_Subset
<1>3. Cardinality(V) \in Nat /\ Cardinality({j \in V : j <= i}) \in Nat
  BY <1>2, FS_CardinalityType
<1>4. Cardinality({j \in V : j <= i}) # 0
  BY <1>1, <1>2, FS_EmptySet
<1>5. N!Rank(V, i) = Cardinality({j \in V : j <= i})
  BY SameCardinality DEF N!Rank
<1>6. QED  BY <1>2, <1>3, <1>4, <1>5

LEMMA RankGrows ==
  ASSUME NEW V, IsFiniteSet(V), V \subseteq Nat, NEW i \in V, NEW j \in V, i < j
  PROVE  N!Rank(V, i) < N!Rank(V, j)
<1> PICK A : A = {k \in V : k <= i}
  OBVIOUS
<1> PICK B : B = {k \in V : k <= j}
  OBVIOUS
<1>1. A \in SUBSET B /\ A # B /\ B \in SUBSET V
  <2>1. i \in Nat /\ j \in Nat /\ \A k \in V : k \in Nat
    OBVIOUS
  <2>2. \A k \in V : k <= i => k <= j
    BY <2>1
  <2>3. j \in B /\ j \notin A
    BY <2>1
  <2>4. QED  BY <2>2, <2>3
<1>2. IsFiniteSet(B) /\ IsFiniteSet(A)
  BY <1>1, FS_Subset
<1>3. Cardinality(A) <= Cardinality(B) /\ Cardinality(A) # Cardinality(B)
  BY <1>1, <1>2, FS_Subset
<1>4. Cardinality(A) \in Nat /\ Cardinality(B) \in Nat
  BY <1>2, FS_CardinalityType
<1>5. Cardinality(A) < Cardinality(B)
  BY <1>3, <1>4
<1>6. N!Rank(V, i) = Cardinality(A) /\ N!Rank(V, j) = Cardinality(B)
  BY SameCardinality DEF N!Rank
<1>7. QED  BY <1>5, <1>6

LEMMA RankOnto ==
  ASSUME NEW V, IsFiniteSet(V), V \subseteq Nat, NEW k \in 1 .. Cardinality(V)
  PROVE  \E i \in V : N!Rank(V, i) = k
<1> PICK n \in Nat : n = Cardinality(V)
  BY FS_CardinalityType
<1> PICK f : f = [i \in V |-> N!Rank(V, i)]
  OBVIOUS
<1>1. f \in [V -> 1 .. n]
  BY RankBounds
<1>2. ASSUME NEW i \in V, NEW j \in V, i # j PROVE f[i] # f[j]
  <2>1. CASE i < j
    <3>1. N!Rank(V, i) < N!Rank(V, j)
      BY <2>1, RankGrows
    <3>2. QED  BY <3>1, <1>1
  <2>2. CASE j < i
    <3>1. N!Rank(V, j) < N!Rank(V, i)
      BY <2>2, RankGrows
    <3>2. QED  BY <3>1, <1>1
  <2>3. QED  BY <1>2, <2>1, <2>2
<1>3. f \in Injection(V, 1 .. n)
  BY <1>1, <1>2 DEF Injection, IsInjective
<1>4. IsFiniteSet(1 .. n) /\ Cardinality(1 .. n) = n
  BY FS_Interval
<1>5. f \in Surjection(V, 1 .. n)
  BY <1>3, <1>4, FS_Injection
<1>6. QED  BY <1>5 DEF Surjection

-----------------------------------------------------------------------------
(* Choices.                                                                  *)
(* A part of O with whatever of O lies below its elements.                   *)
Initial(O, T) == T \in SUBSET O /\ \A i \in T, j \in O : j < i => j \in T

(* A set has an initial part of every size.                                  *)
LEMMA InitialExists ==
  ASSUME NEW O, IsFiniteSet(O), O \subseteq Nat, NEW k \in 0 .. Cardinality(O)
  PROVE  \E T : Initial(O, T) /\ Cardinality(T) = k
<1> PICK n \in Nat : n = Cardinality(O)
  BY FS_CardinalityType
<1> PICK V : V = {l \in 0 .. n : \E T : Initial(O, T) /\ Cardinality(T) = l}
  OBVIOUS
<1>1. 0 \in V
  <2>1. Initial(O, {}) /\ Cardinality({}) = 0
    BY FS_EmptySet DEF Initial
  <2>2. QED  BY <2>1
<1>2. ASSUME NEW l \in 1 .. n, l - 1 \in V PROVE l \in V
  <2>1. PICK T : Initial(O, T) /\ Cardinality(T) = l - 1
    BY <1>2
  <2> PICK rest : rest = O \ T
    OBVIOUS
  <2>2. IsFiniteSet(T) /\ T \subseteq O
    BY <2>1, FS_Subset DEF Initial
  <2>3. rest # {}
    <3>1. l - 1 # n
      OBVIOUS
    <3>2. T # O
      BY <2>1, <3>1
    <3>3. QED  BY <2>2, <3>2
  <2>4. PICK x \in rest : \A y \in rest : ~(y < x)
    <3>1. rest \subseteq Nat
      OBVIOUS
    <3>2. QED  BY <2>3, <3>1, LeastElement
  <2> PICK U : U = T \cup {x}
    OBVIOUS
  <2>5. Cardinality(U) = l
    <3>1. x \notin T
      OBVIOUS
    <3>2. Cardinality(U) = Cardinality(T) + 1
      BY <2>2, <3>1, FS_AddElement
    <3>3. QED  BY <2>1, <3>2
  <2>6. Initial(O, U)
    <3>1. U \in SUBSET O
      BY <2>2
    <3>2. ASSUME NEW i \in U, NEW j \in O, j < i PROVE j \in U
      <4>1. CASE i \in T
        BY <2>1, <3>2, <4>1 DEF Initial
      <4>2. CASE i = x
        BY <2>4, <3>2, <4>2
      <4>3. QED  BY <4>1, <4>2
    <3>3. QED  BY <3>1, <3>2 DEF Initial
  <2>7. QED  BY <2>5, <2>6
<1>3. \A l \in 0 .. n : l \in V
  BY <1>1, <1>2, SetInduction
<1>4. k \in V
  BY <1>3
<1>5. QED  BY <1>4

(* An initial part of k elements is those of rank k at most.                 *)
Ranked(O, T, k) == T = {i \in O : N!Rank(O, i) <= k}

LEMMA InitialRanks ==
  ASSUME NEW O, IsFiniteSet(O), O \subseteq Nat, NEW T, Initial(O, T), NEW k \in Nat, Cardinality(T) = k
  PROVE  Ranked(O, T, k)
<1>1. IsFiniteSet(T) /\ T \subseteq O
  BY FS_Subset DEF Initial
<1>2. ASSUME NEW i \in O PROVE N!Rank(O, i) \in Nat /\ (i \in T => N!Rank(O, i) <= k) /\ (i \notin T => k + 1 <= N!Rank(O, i))
  <2> PICK below : below = {j \in O : j <= i}
    OBVIOUS
  <2>1. N!Rank(O, i) = Cardinality(below)
    BY SameCardinality DEF N!Rank
  <2>2. below \in SUBSET O /\ IsFiniteSet(below) /\ Cardinality(below) \in Nat
    <3>1. below \in SUBSET O
      OBVIOUS
    <3>2. IsFiniteSet(below)
      BY <3>1, FS_Subset
    <3>3. QED  BY <3>1, <3>2, FS_CardinalityType
  <2>3. CASE i \in T
    <3>1. below \in SUBSET T
      <4>1. ASSUME NEW j \in below PROVE j \in T
        <5>1. j \in O /\ j <= i /\ j \in Nat /\ i \in Nat
          OBVIOUS
        <5>2. j = i \/ j < i
          BY <5>1
        <5>3. QED  BY <2>3, <5>1, <5>2 DEF Initial
      <4>2. QED  BY <4>1
    <3>2. Cardinality(below) <= Cardinality(T)
      BY <1>1, <3>1, FS_Subset
    <3>3. QED  BY <2>1, <2>2, <2>3, <3>2
  <2>4. CASE i \notin T
    <3> PICK more : more = T \cup {i}
      OBVIOUS
    <3>1. more \in SUBSET below
      <4>1. ASSUME NEW j \in T PROVE j \in below
        <5>1. j \in O /\ j \in Nat /\ i \in Nat
          BY <1>1
        <5>2. ~(i < j)
          BY <2>4 DEF Initial
        <5>3. QED  BY <5>1, <5>2
      <4>2. i \in below
        OBVIOUS
      <4>3. QED  BY <4>1, <4>2
    <3>2. Cardinality(more) = k + 1
      BY <1>1, <2>4, FS_AddElement
    <3>3. Cardinality(more) <= Cardinality(below)
      BY <2>2, <3>1, FS_Subset
    <3>4. QED  BY <2>1, <2>2, <2>4, <3>2, <3>3
  <2>5. QED  BY <2>3, <2>4
<1>3. ASSUME NEW i \in O PROVE i \in T <=> N!Rank(O, i) <= k
  BY <1>2
<1>4. QED  BY <1>1, <1>3 DEF Ranked

(* And those of rank k at most are such a part, of k elements.               *)
LEMMA FirstCount ==
  ASSUME NEW O, IsFiniteSet(O), O \subseteq Nat, NEW k \in 0 .. Cardinality(O),
         NEW T, Ranked(O, T, k)
  PROVE  Initial(O, T) /\ Cardinality(T) = k
<1>1. Cardinality(O) \in Nat
  BY FS_CardinalityType
<1>2. PICK U : Initial(O, U) /\ Cardinality(U) = k
  BY InitialExists
<1>3. U = T
  <2>1. k \in Nat
    BY <1>1
  <2>2. Ranked(O, U, k)
    BY <1>2, <2>1, InitialRanks
  <2>3. QED  BY <2>2 DEF Ranked
<1>4. QED  BY <1>2, <1>3

(* The parameters that are not required are what is left of them.            *)
LEMMA Others ==
  ASSUME NEW p, NEW kinds, NEW m \in Nat, KindsHold(p, kinds, m), NEW O, O = N!Params(kinds) \ N!Required(kinds)
  PROVE  /\ IsFiniteSet(O) /\ O \subseteq Nat
         /\ Cardinality(O) \in Nat /\ Cardinality(N!Required(kinds)) \in Nat
         /\ Cardinality(N!Params(kinds)) = Cardinality(O) + Cardinality(N!Required(kinds))
<1> PICK F : F = N!Params(kinds)
  OBVIOUS
<1> PICK Q : Q = N!Required(kinds)
  OBVIOUS
<1>1. IsFiniteSet(F) /\ IsFiniteSet(Q) /\ Q \subseteq F /\ F \subseteq 1 .. m
  BY ParamsOf
<1>2. F \cap Q = Q
  BY <1>1
<1>3. IsFiniteSet(O) /\ Cardinality(O) = Cardinality(F) - Cardinality(Q)
  BY <1>1, <1>2, FS_Difference
<1>4. Cardinality(O) \in Nat /\ Cardinality(Q) \in Nat /\ Cardinality(F) \in Nat
  BY <1>1, <1>3, FS_CardinalityType
<1>5. O \subseteq Nat
  BY <1>1
<1>6. QED  BY <1>3, <1>4, <1>5

(* A choice of n parameters is what n values are given to, and there is      *)
(* one just when n is from the number of the required ones to that of all    *)
(* of them.                                                                  *)
LEMMA ChoiceIsGiven ==
  ASSUME NEW p, NEW kinds, NEW m \in Nat, KindsHold(p, kinds, m), NEW n \in Nat,
         NEW chosen \in SUBSET N!Params(kinds), N!Choice(kinds, n, chosen)
  PROVE  /\ chosen = N!Given(kinds, n)
         /\ n \in Cardinality(N!Required(kinds)) .. Cardinality(N!Params(kinds))
<1> PICK F : F = N!Params(kinds)
  OBVIOUS
<1> PICK Q : Q = N!Required(kinds)
  OBVIOUS
<1> PICK O : O = F \ Q
  OBVIOUS
<1> PICK T : T = chosen \ Q
  OBVIOUS
<1>1. IsFiniteSet(F) /\ IsFiniteSet(Q) /\ Q \subseteq F /\ F \subseteq 1 .. m
  BY ParamsOf
<1>2. Cardinality(chosen) = n /\ Q \subseteq chosen
  BY SameCardinality DEF N!Choice
<1>3. \A i \in T, j \in O : j < i => j \in T
  BY DEF N!Choice
<1>4. Initial(O, T)
  BY <1>3 DEF Initial
<1>5. IsFiniteSet(chosen) /\ Cardinality(Q) <= n /\ n <= Cardinality(F)
  <2>1. IsFiniteSet(chosen) /\ Cardinality(chosen) <= Cardinality(F)
    BY <1>1, FS_Subset
  <2>2. Cardinality(Q) <= Cardinality(chosen)
    BY <1>2, <2>1, FS_Subset
  <2>3. QED  BY <1>2, <2>1, <2>2
<1>6. Cardinality(Q) \in Nat /\ Cardinality(F) \in Nat
  BY <1>1, FS_CardinalityType
<1> PICK q \in Nat : q = Cardinality(Q)
  BY <1>6
<1>7. Cardinality(T) = n - q
  <2>1. chosen \cap Q = Q
    BY <1>2
  <2>2. Cardinality(chosen \ Q) = Cardinality(chosen) - Cardinality(chosen \cap Q)
    BY <1>5, FS_Difference
  <2>3. QED  BY <1>2, <2>1, <2>2
<1>8. Ranked(O, T, n - q)
  <2>1. n - q \in Nat
    BY <1>5
  <2>2. IsFiniteSet(O) /\ O \subseteq Nat
    BY Others
  <2>3. QED  BY <1>4, <1>7, <2>1, <2>2, InitialRanks
<1>9. N!Given(kinds, n) = Q \cup T
  BY <1>8, SameCardinality DEF N!Given, Ranked
<1>10. QED  BY <1>2, <1>5, <1>6, <1>9

LEMMA GivenIsChoice ==
  ASSUME NEW p, NEW kinds, NEW m \in Nat, KindsHold(p, kinds, m),
         NEW n \in Cardinality(N!Required(kinds)) .. Cardinality(N!Params(kinds))
  PROVE  N!Given(kinds, n) \in SUBSET N!Params(kinds) /\ N!Choice(kinds, n, N!Given(kinds, n))
<1> PICK F : F = N!Params(kinds)
  OBVIOUS
<1> PICK Q : Q = N!Required(kinds)
  OBVIOUS
<1> PICK O : O = F \ Q
  OBVIOUS
<1>1. IsFiniteSet(F) /\ IsFiniteSet(Q) /\ Q \subseteq F /\ F \subseteq 1 .. m
  BY ParamsOf
<1>2. /\ IsFiniteSet(O) /\ O \subseteq Nat
      /\ Cardinality(O) \in Nat /\ Cardinality(Q) \in Nat
      /\ Cardinality(F) = Cardinality(O) + Cardinality(Q)
  BY Others
<1> PICK q \in Nat : q = Cardinality(Q)
  BY <1>2
<1> PICK T : T = {i \in O : N!Rank(O, i) <= n - q}
  OBVIOUS
<1>3. n - q \in 0 .. Cardinality(O) /\ n \in Nat
  BY <1>2
<1>4. Initial(O, T) /\ Cardinality(T) = n - q
  <2> PICK k : k = n - q
    OBVIOUS
  <2>1. k \in 0 .. Cardinality(O) /\ Ranked(O, T, k)
    BY <1>3 DEF Ranked
  <2>2. QED  BY <1>2, <2>1, FirstCount
<1>5. N!Given(kinds, n) = Q \cup T
  BY SameCardinality DEF N!Given
<1>6. Cardinality(Q \cup T) = n
  <2>1. IsFiniteSet(T) /\ Q \cap T = {}
    BY <1>2, <1>4, FS_Subset DEF Initial
  <2>2. Cardinality(Q \cup T) = Cardinality(Q) + Cardinality(T) - Cardinality({})
    BY <1>1, <2>1, FS_Union
  <2>3. Cardinality({}) = 0
    BY FS_EmptySet
  <2>4. QED  BY <1>3, <1>4, <2>2, <2>3
<1>7. \A i \in (Q \cup T) \ Q, j \in F \ Q : j < i => j \in Q \cup T
  BY <1>4 DEF Initial
<1>8. N!Choice(kinds, n, Q \cup T)
  BY <1>6, <1>7, SameCardinality DEF N!Choice
<1>9. Q \cup T \subseteq F
  BY <1>1, <1>4 DEF Initial
<1>10. QED  BY <1>5, <1>8, <1>9

-----------------------------------------------------------------------------
(* Calls.                                                                    *)
Plain(p) == p # NoRoute /\ N!Params(N!Kinds(p)) # {} /\ ~ \E i \in DOMAIN p : p[i].is = "{"

FilledBy(p, kinds, params) ==
  IF params.by = "order" THEN N!ByOrder(kinds, params.args) ELSE N!ByName(p, kinds, params.map)

EmptyOne(kinds, filled) == \E i \in DOMAIN filled.values : kinds[i] = "named" /\ filled.values[i] = <<>>

Answer(p, kinds, filled) ==
  IF filled.error # "none" \/ EmptyOne(kinds, filled) THEN N!Error("params")
  ELSE [N!Error("none") EXCEPT !.path = N!Build(p, kinds, filled.values)]

(* Of a pattern with parameters, and none of them left open, ReverseURL is   *)
(* the path of the values, or an error.                                      *)
LEMMA Reverses ==
  ASSUME NEW p, Plain(p), NEW params
  PROVE  N!ReverseURL(p, params) = Answer(p, N!Kinds(p), FilledBy(p, N!Kinds(p), params))
BY Zenon DEF N!ReverseURL, Plain, Answer, FilledBy, EmptyOne

(* What the two forms of a call give: by order, the ranks of the values;     *)
(* by name, the value of each name.                                          *)
LEMMA ByOrderFills ==
  ASSUME NEW p, NEW kinds, NEW m \in Nat, KindsHold(p, kinds, m), NEW args, NEW n \in Nat, n = Len(args)
  PROVE  N!ByOrder(kinds, args) =
           IF n \in Cardinality(N!Required(kinds)) .. Cardinality(N!Params(kinds))
           THEN [error |-> "none", values |-> [i \in N!Given(kinds, n) |-> args[N!Rank(N!Given(kinds, n), i)]]]
           ELSE [error |-> "params", values |-> <<>>]
BY SameCardinality DEF N!ByOrder

(* Names that tell the parameters of V apart; the map of their values, and   *)
(* one of them.                                                              *)
Distinct(p, V) == \A i, j \in V : p[i].s = p[j].s => i = j

NamesOf(map, p, V) == DOMAIN map = {p[i].s : i \in V} /\ Cardinality(DOMAIN map) = Cardinality(V)

ValueOf(map, p, i, v) == p[i].s \in DOMAIN map /\ map[p[i].s] = v

(* Values named after the parameters they are given to are looked up by      *)
(* those names.                                                              *)
LEMMA NameOfRank ==
  ASSUME NEW p, NEW chosen, IsFiniteSet(chosen), chosen \subseteq Nat,
         Distinct(p, chosen), NEW args, DOMAIN args = 1 .. Cardinality(chosen), NEW i \in chosen
  PROVE  ValueOf(N!Named(p, args, chosen), p, i, args[N!Rank(chosen, i)])
<1> PICK r : r = N!Rank(chosen, i)
  OBVIOUS
<1>1. r \in DOMAIN args
  BY RankBounds
<1>2. \A n \in DOMAIN args : (\E j \in chosen : p[j].s = p[i].s /\ n = N!Rank(chosen, j)) <=> n = r
  BY <1>1 DEF Distinct
<1>3. (CHOOSE n \in DOMAIN args : \E j \in chosen : p[j].s = p[i].s /\ n = N!Rank(chosen, j)) = r
  BY <1>1, <1>2
<1>4. p[i].s \in {p[j].s : j \in chosen}
  OBVIOUS
<1>5. QED  BY <1>3, <1>4 DEF N!Named, ValueOf

LEMMA NamedDomain ==
  ASSUME NEW p, NEW chosen, IsFiniteSet(chosen),
         Distinct(p, chosen), NEW args
  PROVE  NamesOf(N!Named(p, args, chosen), p, chosen)
<1> PICK K : K = {p[i].s : i \in chosen}
  OBVIOUS
<1>1. DOMAIN N!Named(p, args, chosen) = K
  BY DEF N!Named
<1> PICK f : f = [i \in chosen |-> p[i].s]
  OBVIOUS
<1>2. f \in Surjection(chosen, K)
  BY DEF Surjection
<1>3. f \in Injection(chosen, K)
  BY DEF Injection, IsInjective, Distinct
<1>4. f \in Bijection(chosen, K)
  BY <1>2, <1>3 DEF Bijection
<1>5. ExistsBijection(chosen, K)
  BY <1>4 DEF ExistsBijection
<1>6. Cardinality(K) = Cardinality(chosen)
  BY <1>5, FS_Bijection
<1>7. QED  BY <1>1, <1>6 DEF NamesOf

(* So the values in order, named, fill what they fill in order.              *)
LEMMA ByNameFills ==
  ASSUME NEW p, NEW kinds, NEW m \in Nat, KindsHold(p, kinds, m),
         Distinct(p, N!Params(kinds)),
         NEW chosen \in SUBSET N!Params(kinds), N!Required(kinds) \subseteq chosen,
         NEW args, DOMAIN args = 1 .. Cardinality(chosen)
  PROVE  N!ByName(p, kinds, N!Named(p, args, chosen)) =
           [error |-> "none", values |-> [i \in chosen |-> args[N!Rank(chosen, i)]]]
<1>1. IsFiniteSet(N!Params(kinds)) /\ N!Params(kinds) \subseteq 1 .. m
  BY ParamsOf
<1>2. IsFiniteSet(chosen) /\ chosen \subseteq Nat
  BY <1>1, FS_Subset
<1>3. Distinct(p, chosen)
  BY DEF Distinct
<1> PICK map : map = N!Named(p, args, chosen)
  OBVIOUS
<1>4. DOMAIN map = {p[i].s : i \in chosen} /\ Cardinality(DOMAIN map) = Cardinality(chosen)
  <2>1. NamesOf(map, p, chosen)
    BY <1>2, <1>3, NamedDomain
  <2>2. QED  BY <2>1 DEF NamesOf
<1>5. {i \in N!Params(kinds) : p[i].s \in DOMAIN map} = chosen
  BY <1>4 DEF Distinct
<1>6. ASSUME NEW i \in chosen PROVE map[p[i].s] = args[N!Rank(chosen, i)]
  <2>1. ValueOf(map, p, i, args[N!Rank(chosen, i)])
    BY <1>2, <1>3, NameOfRank
  <2>2. QED  BY <2>1 DEF ValueOf
<1>7. N!ByName(p, kinds, map) = [error |-> "none", values |-> [i \in chosen |-> map[p[i].s]]]
  <2>1. N!Cardinality(chosen) = N!Cardinality(DOMAIN map)
    BY <1>4, SameCardinality
  <2>2. QED  BY <1>5, <2>1 DEF N!ByName
<1>8. [i \in chosen |-> map[p[i].s]] = [i \in chosen |-> args[N!Rank(chosen, i)]]
  BY <1>6
<1>9. QED  BY <1>7, <1>8

-----------------------------------------------------------------------------
(* An answer, with the query left out.                                       *)
Shown(e, path) == [error |-> e, path |-> path, query |-> <<>>]

LEMMA AnswerShown ==
  ASSUME NEW p, NEW kinds, NEW filled
  PROVE  Answer(p, kinds, filled) =
           IF filled.error # "none" \/ EmptyOne(kinds, filled) THEN Shown("params", <<>>)
           ELSE Shown("none", N!Build(p, kinds, filled.values))
<1> PICK b : b = N!Build(p, kinds, filled.values)
  OBVIOUS
<1>1. [N!Error("none") EXCEPT !.path = b] = Shown("none", b)
  BY DEF N!Error, Shown
<1>2. N!Error("params") = Shown("params", <<>>)
  BY DEF N!Error, Shown
<1>3. QED  BY <1>1, <1>2 DEF Answer

(* A query is put behind a path that could be made, and changes nothing      *)
(* else.                                                                     *)
LEMMA Queried ==
  ASSUME NEW e, NEW path, NEW query
  PROVE  /\ N!WithQuery(Shown(e, path), query).error = e
         /\ N!WithQuery(Shown(e, path), query).path = path
<1> PICK w : w = N!FlattenSeq([i \in DOMAIN query |-> [j \in DOMAIN query[i].values |-> <<query[i].key, query[i].values[j]>>]])
  OBVIOUS
<1>1. N!WithQuery(Shown(e, path), query) =
        IF Shown(e, path).error # "none" THEN Shown(e, path) ELSE [Shown(e, path) EXCEPT !.query = w]
  BY DEF N!WithQuery
<1>2. Shown(e, path).error = e /\ Shown(e, path).path = path
  BY DEF Shown
<1>3. [Shown(e, path) EXCEPT !.query = w] = [error |-> e, path |-> path, query |-> w]
  BY DEF Shown
<1>4. QED  BY <1>1, <1>2, <1>3

-----------------------------------------------------------------------------
(* The answer is the one to what was asked, and the registry has patterns.   *)
AskedHolds ==
  urlCall # <<>> =>
    /\ urlCall.name \in RouteNames
    /\ urlCall.params \in N!Calls(templates[urlCall.name])
    /\ url = N!WithQuery(N!ReverseURL(templates[urlCall.name], urlCall.params), urlCall.query)

TemplatesTyped == \A n \in RouteNames : templates[n] = NoRoute \/ templates[n] \in Seq(PathToken)

(* A call has a list of values, or a map of them.                            *)
LEMMA CallKinds ==
  ASSUME NEW p, NEW params \in N!Calls(p)
  PROVE  \/ params.by = "order" /\ params = [by |-> "order", args |-> params.args] /\ params.args \in Seq(RouteValues)
         \/ params.by = "name" /\ \E keys : params.map \in [keys -> RouteValues]
<1>1. CASE \E args \in UNION {[1 .. n -> RouteValues] : n \in 0 .. MaxArgs} : params = [by |-> "order", args |-> args]
  <2>1. PICK args \in UNION {[1 .. n -> RouteValues] : n \in 0 .. MaxArgs} : params = [by |-> "order", args |-> args]
    BY <1>1
  <2>2. PICK n \in 0 .. MaxArgs : args \in [1 .. n -> RouteValues]
    OBVIOUS
  <2>3. n \in Nat
    OBVIOUS
  <2>4. args \in Seq(RouteValues)
    BY <2>2, <2>3
  <2>5. QED  BY <2>1, <2>4
<1>2. CASE ~ \E args \in UNION {[1 .. n -> RouteValues] : n \in 0 .. MaxArgs} : params = [by |-> "order", args |-> args]
  <2>1. PICK known : params \in {[by |-> "name", map |-> map] :
                        map \in UNION {[keys -> RouteValues] : keys \in SUBSET known \cup {known \cup {Unknown}}}}
    BY <1>2 DEF N!Calls
  <2>2. PICK map \in UNION {[keys -> RouteValues] : keys \in SUBSET known \cup {known \cup {Unknown}}} :
                params = [by |-> "name", map |-> map]
    BY <2>1
  <2>3. \E keys : map \in [keys -> RouteValues]
    OBVIOUS
  <2>4. params.by = "name" /\ params.map = map
    BY <2>2
  <2>5. QED  BY <2>3, <2>4
<1>3. QED  BY <1>1, <1>2

(* A call that could be answered is of a pattern of the registry.            *)
LEMMA AskedPlain ==
  ASSUME AskedHolds, TemplatesTyped, N!Parametrised
  PROVE  /\ Plain(N!Pattern) /\ N!Pattern \in Seq(PathToken)
         /\ urlCall.params \in N!Calls(N!Pattern)
         /\ url = N!WithQuery(N!ReverseURL(N!Pattern, urlCall.params), urlCall.query)
<1>1. /\ urlCall # <<>> /\ N!Pattern # NoRoute /\ url.error # "pattern" /\ N!Params(N!Kinds(N!Pattern)) # {}
  BY DEF N!Parametrised
<1>2. /\ urlCall.name \in RouteNames
      /\ urlCall.params \in N!Calls(N!Pattern)
      /\ url = N!WithQuery(N!ReverseURL(N!Pattern, urlCall.params), urlCall.query)
  BY <1>1 DEF AskedHolds, N!Pattern
<1>3. N!Pattern \in Seq(PathToken)
  BY <1>1, <1>2 DEF TemplatesTyped, N!Pattern
<1>4. ~ \E i \in DOMAIN N!Pattern : N!Pattern[i].is = "{"
  <2>1. SUFFICES ASSUME \E i \in DOMAIN N!Pattern : N!Pattern[i].is = "{" PROVE FALSE
    BY Zenon
  <2>2. N!ReverseURL(N!Pattern, urlCall.params) = Shown("pattern", <<>>)
    BY <1>1, <2>1, Zenon DEF N!ReverseURL, N!Error, Shown
  <2>3. url.error = "pattern"
    BY <1>2, <2>2, Queried
  <2>4. QED  BY <1>1, <2>3
<1>5. QED  BY <1>1, <1>2, <1>3, <1>4, Zenon DEF Plain

(* Values in order answer as the same values by name. An answer is looked    *)
(* at until the next call: the registry is as it was when it was made.       *)
LEMMA OrderIsNameStep ==
  ASSUME AskedHolds, TemplatesTyped
  PROVE  N!OrderIsName
<1> SUFFICES ASSUME N!Parametrised, N!NamesDiffer(N!Pattern), urlCall.params.by = "order"
             PROVE  IF N!ChoicesOf(N!Kinds(N!Pattern), Len(urlCall.params.args)) = {} THEN url.error = "params"
                    ELSE \A chosen \in N!ChoicesOf(N!Kinds(N!Pattern), Len(urlCall.params.args)) :
                           url = N!WithQuery(N!ReverseURL(N!Pattern, [by |-> "name", map |-> N!Named(N!Pattern, urlCall.params.args, chosen)]), urlCall.query)
  BY DEF N!OrderIsName
<1> PICK p : p = N!Pattern
  OBVIOUS
<1> PICK kinds : kinds = N!Kinds(p)
  OBVIOUS
<1> PICK args : args = urlCall.params.args
  OBVIOUS
<1>1. /\ Plain(p) /\ p \in Seq(PathToken) /\ urlCall.params \in N!Calls(p)
      /\ url = N!WithQuery(N!ReverseURL(p, urlCall.params), urlCall.query)
  BY AskedPlain
<1>2. args \in Seq(RouteValues)
  BY <1>1, CallKinds
<1> PICK n \in Nat : n = Len(args) /\ DOMAIN args = 1 .. n
  BY <1>2
<1> PICK m \in Nat : m = Len(p)
  BY <1>1
<1>3. KindsHold(p, kinds, m)
  BY <1>1, KindsOf
<1>4. N!ReverseURL(p, urlCall.params) = Answer(p, kinds, N!ByOrder(kinds, args))
  <2>1. FilledBy(p, kinds, urlCall.params) = N!ByOrder(kinds, args)
    BY DEF FilledBy
  <2>2. QED  BY <1>1, <2>1, Reverses
<1>5. CASE N!ChoicesOf(kinds, n) = {}
  <2>1. n \notin Cardinality(N!Required(kinds)) .. Cardinality(N!Params(kinds))
    BY <1>3, <1>5, GivenIsChoice DEF N!ChoicesOf
  <2>2. N!ByOrder(kinds, args) = [error |-> "params", values |-> <<>>]
    BY <1>3, <2>1, ByOrderFills
  <2>3. N!ByOrder(kinds, args).error # "none"
    BY <2>2
  <2>4. N!ReverseURL(p, urlCall.params) = Shown("params", <<>>)
    BY <1>4, <2>3, AnswerShown
  <2>5. url.error = "params"
    BY <1>1, <2>4, Queried
  <2>6. QED  BY <1>5, <2>5
<1>6. ASSUME NEW chosen \in N!ChoicesOf(kinds, n)
      PROVE  url = N!WithQuery(N!ReverseURL(p, [by |-> "name", map |-> N!Named(p, args, chosen)]), urlCall.query)
  <2>1. chosen \in SUBSET N!Params(kinds) /\ N!Choice(kinds, n, chosen)
    BY DEF N!ChoicesOf
  <2>2. /\ chosen = N!Given(kinds, n)
        /\ n \in Cardinality(N!Required(kinds)) .. Cardinality(N!Params(kinds))
    BY <1>3, <2>1, ChoiceIsGiven
  <2>3. Cardinality(chosen) = n /\ N!Required(kinds) \subseteq chosen
    BY <2>1, SameCardinality DEF N!Choice
  <2> PICK filled : filled = [error |-> "none", values |-> [i \in chosen |-> args[N!Rank(chosen, i)]]]
    OBVIOUS
  <2>4. N!ByOrder(kinds, args) = filled
    BY <1>3, <2>2, ByOrderFills
  <2>5. N!ByName(p, kinds, N!Named(p, args, chosen)) = filled
    <3>1. Distinct(p, N!Params(kinds))
      BY DEF Distinct, N!NamesDiffer
    <3>2. DOMAIN args = 1 .. Cardinality(chosen)
      BY <2>3
    <3>3. QED  BY <1>3, <2>1, <2>3, <3>1, <3>2, ByNameFills
  <2> PICK other : other = [by |-> "name", map |-> N!Named(p, args, chosen)]
    OBVIOUS
  <2>6. FilledBy(p, kinds, other) = filled
    <3>1. other.by # "order" /\ other.map = N!Named(p, args, chosen)
      OBVIOUS
    <3>2. QED  BY <2>5, <3>1 DEF FilledBy
  <2>7. N!ReverseURL(p, other) = N!ReverseURL(p, urlCall.params)
    BY <1>1, <1>4, <2>4, <2>6, Reverses
  <2>8. QED  BY <1>1, <2>7
<1>7. QED  BY <1>5, <1>6

-----------------------------------------------------------------------------
(* What is written for a value.                                              *)
Part == STRING \ {"", "/"}
Pieces == PathToken \cup {N!Text(s) : s \in STRING} \cup {[escaped |-> value] : value \in Seq(Part)}

LEMMA TextIsPiece ==
  ASSUME NEW s \in STRING
  PROVE  N!Text(s) \in Pieces /\ N!Text(s).s = s /\ (s # "/" => N!Text(s) # N!Slash)
<1>1. N!Text(s).s = s /\ N!Slash.s = "/"
  BY DEF N!Slash, N!Text
<1>2. N!Text(s) \in Pieces
  BY DEF Pieces
<1>3. QED  BY <1>1, <1>2

LEMMA SlashIsPiece == N!Slash \in Pieces
BY DEF Pieces, PathToken

(* An escaped value is one token, and neither text nor a slash.              *)
LEMMA EscapedIsNoSlash == \A value : [escaped |-> value] # N!Slash /\ \A s : [escaped |-> value] # N!Text(s)
<1> SUFFICES ASSUME NEW value, NEW s PROVE [escaped |-> value] # N!Text(s)
  BY DEF N!Slash
<1>1. DOMAIN [escaped |-> value] = {"escaped"} /\ "is" \in DOMAIN N!Text(s)
  BY DEF N!Text
<1>2. QED  BY <1>1

(* A value joined is its parts, with slashes between them; and it is read    *)
(* back part by part.                                                        *)
JoinedHolds(value, k, e) ==
  /\ e \in Seq(Pieces) /\ Len(e) = 2 * k - 1
  /\ \A i \in 1 .. k : e[2 * i - 1] = N!Text(value[i])
  /\ \A q \in 1 .. 2 * k - 1 : (e[q] # N!Slash /\ \E i \in 1 .. k : q = 2 * i - 1) \/ (e[q] = N!Slash /\ \E i \in 1 .. k : q = 2 * i)

LEMMA JoinedOf ==
  ASSUME NEW value \in Seq(Part), NEW k \in Nat \ {0}, k = Len(value)
  PROVE  JoinedHolds(value, k, N!Joined(value))
<1> PICK e : e = N!Joined(value)
  OBVIOUS
<1>0. 2 * k - 1 \in Nat
  OBVIOUS
<1> PICK l \in Nat : l = 2 * k - 1
  BY <1>0
<1>1. e = [q \in 1 .. l |-> IF q % 2 = 1 THEN N!Text(value[(q + 1) \div 2]) ELSE N!Slash]
  BY DEF N!Joined
<1>2. ASSUME NEW q \in 1 .. l
      PROVE  \/ q % 2 = 1 /\ (q + 1) \div 2 \in 1 .. k /\ q = 2 * ((q + 1) \div 2) - 1
             \/ q % 2 # 1 /\ q \div 2 \in 1 .. k /\ q = 2 * (q \div 2)
  OBVIOUS
<1>3. \A i \in 1 .. k : value[i] \in STRING /\ value[i] # "/"
  <2>1. \A i \in 1 .. k : value[i] \in Part
    OBVIOUS
  <2>2. QED  BY <2>1, Zenon DEF Part
<1>4. ASSUME NEW q \in 1 .. l
      PROVE  /\ e[q] \in Pieces
             /\ (e[q] # N!Slash /\ \E i \in 1 .. k : q = 2 * i - 1) \/ (e[q] = N!Slash /\ \E i \in 1 .. k : q = 2 * i)
  <2>1. CASE q % 2 = 1
    <3> PICK i : i = (q + 1) \div 2
      OBVIOUS
    <3>1. i \in 1 .. k /\ q = 2 * i - 1
      BY <1>2, <2>1
    <3>2. e[q] = N!Text(value[i])
      BY <1>1, <2>1
    <3>3. QED  BY <1>3, <3>1, <3>2, TextIsPiece
  <2>2. CASE q % 2 # 1
    <3>1. \E i \in 1 .. k : q = 2 * i
      BY <1>2, <2>2
    <3>2. e[q] = N!Slash
      BY <1>1, <2>2
    <3>3. QED  BY <3>1, <3>2, SlashIsPiece
  <2>3. QED  BY <2>1, <2>2
<1>5. e \in Seq(Pieces) /\ Len(e) = l
  <2>1. e \in [1 .. l -> Pieces]
    BY <1>1, <1>4
  <2>2. QED  BY <2>1
<1>6. ASSUME NEW i \in 1 .. k PROVE e[2 * i - 1] = N!Text(value[i])
  <2> PICK q : q = 2 * i - 1
    OBVIOUS
  <2>1. q \in 1 .. l /\ q % 2 = 1 /\ (q + 1) \div 2 = i
    OBVIOUS
  <2>2. e[q] = N!Text(value[(q + 1) \div 2])
    BY <1>1, <2>1
  <2>3. QED  BY <2>1, <2>2
<1>7. QED  BY <1>4, <1>5, <1>6 DEF JoinedHolds

(* A value in a path is not empty, has no slash at its ends, and no two in   *)
(* a row.                                                                    *)
EscapeHolds(t, e) ==
  /\ e \in Seq(Pieces) /\ Len(e) >= 1 /\ (t.is \notin N!Greedy => Len(e) = 1)
  /\ e[1] # N!Slash /\ e[Len(e)] # N!Slash
  /\ \A q \in 1 .. Len(e) - 1 : e[q] # N!Slash \/ e[q + 1] # N!Slash

LEMMA EscapeOf ==
  ASSUME NEW t, NEW value \in Seq(Part), value # <<>>
  PROVE  EscapeHolds(t, N!Escape(t, value))
<1> PICK e : e = N!Escape(t, value)
  OBVIOUS
<1> PICK k \in Nat \ {0} : k = Len(value)
  OBVIOUS
<1>1. CASE t.is \in N!Greedy \/ k <= 1
  <2>1. e = N!Joined(value)
    BY <1>1 DEF N!Escape
  <2>2. JoinedHolds(value, k, e)
    BY <2>1, JoinedOf
  <2>3. e \in Seq(Pieces) /\ Len(e) = 2 * k - 1
    BY <2>2 DEF JoinedHolds
  <2>5. \A q \in 1 .. 2 * k - 1 : (e[q] # N!Slash /\ \E i \in 1 .. k : q = 2 * i - 1) \/ (e[q] = N!Slash /\ \E i \in 1 .. k : q = 2 * i)
    BY <2>2 DEF JoinedHolds
  <2>6. e[1] # N!Slash
    <3>1. 1 \in 1 .. 2 * k - 1 /\ \A i \in 1 .. k : 1 # 2 * i
      OBVIOUS
    <3>2. QED  BY <2>5, <3>1
  <2>7. e[2 * k - 1] # N!Slash
    <3>1. 2 * k - 1 \in 1 .. 2 * k - 1 /\ \A i \in 1 .. k : 2 * k - 1 # 2 * i
      OBVIOUS
    <3>2. QED  BY <2>5, <3>1
  <2>8. ASSUME NEW q \in 1 .. 2 * k - 2, e[q] = N!Slash, e[q + 1] = N!Slash PROVE FALSE
    <3>1. q \in 1 .. 2 * k - 1 /\ q + 1 \in 1 .. 2 * k - 1
      OBVIOUS
    <3>2. PICK i \in 1 .. k : q = 2 * i
      BY <2>5, <2>8, <3>1
    <3>3. PICK j \in 1 .. k : q + 1 = 2 * j
      BY <2>5, <2>8, <3>1
    <3>4. QED  BY <3>2, <3>3
  <2>9. \A q \in 1 .. Len(e) - 1 : e[q] # N!Slash \/ e[q + 1] # N!Slash
    <3>1. Len(e) - 1 = 2 * k - 2
      BY <2>3
    <3>2. QED  BY <2>8, <3>1
  <2>10. t.is \notin N!Greedy => Len(e) = 1
    BY <1>1, <2>3
  <2>11. Len(e) >= 1
    BY <2>3
  <2>12. QED  BY <2>3, <2>6, <2>7, <2>9, <2>10, <2>11 DEF EscapeHolds
<1>2. CASE ~(t.is \in N!Greedy \/ k <= 1)
  <2> PICK c : c = [escaped |-> value]
    OBVIOUS
  <2>1. e = <<c>>
    BY <1>2 DEF N!Escape
  <2>2. c \in Pieces /\ c # N!Slash
    BY EscapedIsNoSlash DEF Pieces
  <2>3. e \in Seq(Pieces) /\ Len(e) = 1 /\ e[1] = c
    BY <2>1, <2>2
  <2>4. QED  BY <2>2, <2>3 DEF EscapeHolds
<1>3. QED  BY <1>1, <1>2

(* Two values of one parameter are two in the path.                          *)
LEMMA EscapeTells ==
  ASSUME NEW t, NEW value \in Seq(Part), value # <<>>, NEW other \in Seq(Part), other # <<>>,
         N!Escape(t, value) = N!Escape(t, other)
  PROVE  value = other
<1> PICK e : e = N!Escape(t, value)
  OBVIOUS
<1> PICK k \in Nat \ {0} : k = Len(value)
  OBVIOUS
<1> PICK l \in Nat \ {0} : l = Len(other)
  OBVIOUS
<1>1. (e = N!Joined(value) /\ (t.is \in N!Greedy \/ k <= 1)) \/ (e = <<[escaped |-> value]>> /\ ~(t.is \in N!Greedy \/ k <= 1))
  BY DEF N!Escape
<1>2. (e = N!Joined(other) /\ (t.is \in N!Greedy \/ l <= 1)) \/ (e = <<[escaped |-> other]>> /\ ~(t.is \in N!Greedy \/ l <= 1))
  BY DEF N!Escape
<1>3. e = N!Joined(value) => JoinedHolds(value, k, e)
  BY JoinedOf
<1>4. e = N!Joined(other) => JoinedHolds(other, l, e)
  BY JoinedOf
<1>5. CASE e = N!Joined(value) /\ e = N!Joined(other)
  <2>1. Len(e) = 2 * k - 1 /\ \A i \in 1 .. k : e[2 * i - 1] = N!Text(value[i])
    BY <1>3, <1>5 DEF JoinedHolds
  <2>2. Len(e) = 2 * l - 1 /\ \A i \in 1 .. l : e[2 * i - 1] = N!Text(other[i])
    BY <1>4, <1>5 DEF JoinedHolds
  <2>3. k = l
    BY <2>1, <2>2
  <2>4. \A i \in 1 .. k : value[i] \in STRING /\ other[i] \in STRING
    <3>1. \A i \in 1 .. k : value[i] \in Part
      OBVIOUS
    <3>2. \A i \in 1 .. l : other[i] \in Part
      OBVIOUS
    <3>3. QED  BY <2>3, <3>1, <3>2, Zenon DEF Part
  <2>5. ASSUME NEW i \in 1 .. k PROVE value[i] = other[i]
    <3>1. N!Text(value[i]) = N!Text(other[i])
      BY <2>1, <2>2, <2>3
    <3>2. N!Text(value[i]).s = value[i] /\ N!Text(other[i]).s = other[i]
      BY <2>4, TextIsPiece
    <3>3. QED  BY <3>1, <3>2
  <2>6. value \in [1 .. k -> Part]
    OBVIOUS
  <2>7. other \in [1 .. l -> Part]
    OBVIOUS
  <2>8. QED  BY <2>3, <2>5, <2>6, <2>7
<1>6. CASE e = <<[escaped |-> value]>> /\ e = <<[escaped |-> other]>>
  <2>1. [escaped |-> value] = [escaped |-> other]
    BY <1>6
  <2>2. [escaped |-> value].escaped = value /\ [escaped |-> other].escaped = other
    OBVIOUS
  <2>3. QED  BY <2>1, <2>2
<1>7. CASE e = N!Joined(value) /\ e = <<[escaped |-> other]>>
  <2>1. e[1] = N!Text(value[1])
    <3>1. 1 \in 1 .. k /\ 2 * 1 - 1 = 1
      OBVIOUS
    <3>2. QED  BY <1>3, <1>7, <3>1 DEF JoinedHolds
  <2>2. e[1] = [escaped |-> other]
    BY <1>7
  <2>3. QED  BY <2>1, <2>2, EscapedIsNoSlash
<1>8. CASE e = <<[escaped |-> value]>> /\ e = N!Joined(other)
  <2>1. e[1] = N!Text(other[1])
    <3>1. 1 \in 1 .. l /\ 2 * 1 - 1 = 1
      OBVIOUS
    <3>2. QED  BY <1>4, <1>8, <3>1 DEF JoinedHolds
  <2>2. e[1] = [escaped |-> value]
    BY <1>8
  <2>3. QED  BY <2>1, <2>2, EscapedIsNoSlash
<1>9. QED  BY <1>1, <1>2, <1>5, <1>6, <1>7, <1>8

-----------------------------------------------------------------------------
(* Steps of the path.                                                        *)
Fits(v, kinds) == DOMAIN v \subseteq N!Params(kinds) /\ \A i \in DOMAIN v : v[i] \in Seq(Part)

(* A sequence with or without the slash at its end.                          *)
Trimmed(x, y) ==
  /\ y \in Seq(Pieces)
  /\ (Len(y) = Len(x) /\ y = x /\ (x = <<>> \/ x[Len(x)] # N!Slash))
     \/ (Len(x) = Len(y) + 1 /\ x[Len(x)] = N!Slash /\ \A q \in 1 .. Len(y) : y[q] = x[q])

LEMMA TrimOf ==
  ASSUME NEW x \in Seq(Pieces)
  PROVE  Trimmed(x, N!TrimSuffix(x))
<1> PICK k \in Nat : k = Len(x)
  OBVIOUS
<1>1. CASE x # <<>> /\ x[k] = N!Slash
  <2>1. N!TrimSuffix(x) = SubSeq(x, 1, k - 1)
    BY <1>1 DEF N!TrimSuffix, N!EndsIn, N!Last, N!Front
  <2>2. k - 1 \in Nat
    BY <1>1
  <2> PICK l \in Nat : l = k - 1
    BY <2>2
  <2> PICK y : y = SubSeq(x, 1, l)
    OBVIOUS
  <2>3. y \in Seq(Pieces) /\ Len(y) = l /\ \A q \in 1 .. l : y[q] = x[q]
    OBVIOUS
  <2>4. QED  BY <1>1, <2>1, <2>3 DEF Trimmed
<1>2. CASE ~(x # <<>> /\ x[k] = N!Slash)
  <2>1. N!TrimSuffix(x) = x
    BY <1>2 DEF N!TrimSuffix, N!EndsIn, N!Last
  <2>2. QED  BY <1>2, <2>1 DEF Trimmed
<1>3. QED  BY <1>1, <1>2

LEMMA TrimAppended ==
  ASSUME NEW x \in Seq(Pieces), NEW c \in Pieces
  PROVE  N!TrimSuffix(Append(x, c)) = IF c = N!Slash THEN x ELSE Append(x, c)
<1> PICK y : y = Append(x, c)
  OBVIOUS
<1>1. y \in Seq(Pieces) /\ Len(y) = Len(x) + 1 /\ y[Len(y)] = c /\ y # <<>> /\ \A q \in 1 .. Len(x) : y[q] = x[q]
  OBVIOUS
<1> PICK z : z = N!TrimSuffix(y)
  OBVIOUS
<1>2. Trimmed(y, z)
  BY <1>1, TrimOf
<1>3. CASE c # N!Slash
  BY <1>1, <1>2, <1>3 DEF Trimmed
<1>4. CASE c = N!Slash
  <2>1. Len(z) = Len(x) /\ z \in Seq(Pieces) /\ \A q \in 1 .. Len(z) : z[q] = y[q]
    BY <1>1, <1>2, <1>4 DEF Trimmed
  <2>2. \A q \in 1 .. Len(x) : z[q] = x[q]
    BY <1>1, <2>1
  <2>3. z = x
    BY <2>1, <2>2
  <2>4. QED  BY <1>4, <2>3
<1>5. QED  BY <1>3, <1>4

(* One token: text, a value, or nothing, with or without a slash less.       *)
ValueSaid(p, kinds, v, i, x, y) == kinds[i] # "text" /\ i \in DOMAIN v /\ ~N!Gone(kinds, v, i) /\ y = x \o N!Escape(p[i], v[i])
Cut(p, kinds, i, m) == kinds[i] = "optional" /\ (i = m \/ p[i + 1] = N!Slash)
StepHolds(p, kinds, m, v, i, x, y) ==
  \/ kinds[i] = "text" /\ y = Append(x, p[i])
  \/ ValueSaid(p, kinds, v, i, x, y)
  \/ kinds[i] # "text" /\ N!Gone(kinds, v, i) /\ ~Cut(p, kinds, i, m) /\ y = x
  \/ kinds[i] # "text" /\ N!Gone(kinds, v, i) /\ Cut(p, kinds, i, m) /\ y = N!TrimSuffix(x)

(* The paths after each token of the pattern, m in all, for the values v.    *)
Path(p, kinds, m, v, w) ==
  /\ w[0] = <<>>
  /\ \A i \in 0 .. m : w[i] \in Seq(Pieces)
  /\ \A i \in 1 .. m : StepHolds(p, kinds, m, v, i, w[i - 1], w[i])

LEMMA StepTyped ==
  ASSUME NEW p, NEW kinds, NEW m, NEW v, NEW i, NEW x \in Seq(Pieces), NEW y,
         StepHolds(p, kinds, m, v, i, x, y), p[i] \in PathToken, i \in DOMAIN v => v[i] \in Seq(Part)
  PROVE  y \in Seq(Pieces)
<1>1. CASE y = Append(x, p[i])
  <2>1. p[i] \in Pieces
    BY DEF Pieces
  <2>2. QED  BY <1>1, <2>1
<1>2. CASE ValueSaid(p, kinds, v, i, x, y)
  <2> PICK e : e = N!Escape(p[i], v[i])
    OBVIOUS
  <2>1. e \in Seq(Pieces)
    <3>1. CASE v[i] # <<>>
      <4>1. v[i] \in Seq(Part)
        BY <1>2 DEF ValueSaid
      <4>2. EscapeHolds(p[i], e)
        BY <3>1, <4>1, EscapeOf
      <4>3. QED  BY <4>2 DEF EscapeHolds
    <3>2. CASE v[i] = <<>>
      <4>1. Len(v[i]) = 0 /\ 2 * 0 - 1 = -1 /\ 1 .. -1 = {}
        BY <3>2
      <4>2. e = [q \in 1 .. -1 |-> IF q % 2 = 1 THEN N!Text(v[i][(q + 1) \div 2]) ELSE N!Slash]
        BY <4>1 DEF N!Escape, N!Joined
      <4>3. e = <<>>
        BY <4>1, <4>2
      <4>4. QED  BY <4>3
    <3>3. QED  BY <3>1, <3>2
  <2>2. x \o e \in Seq(Pieces)
    BY <2>1
  <2>3. QED  BY <1>2, <2>2 DEF ValueSaid
<1>3. CASE y = N!TrimSuffix(x)
  BY <1>3, TrimOf DEF Trimmed
<1>4. QED  BY <1>1, <1>2, <1>3 DEF StepHolds

(* What Build writes, token after token, is such a path.                     *)
LEMMA WrittenPath ==
  ASSUME NEW p \in Seq(PathToken), NEW kinds, NEW m \in Nat, m = Len(p), KindsHold(p, kinds, m), NEW v, Fits(v, kinds)
  PROVE  Path(p, kinds, m, v, N!Written(p, kinds, v))
<1> PICK w : w = N!Written(p, kinds, v)
  OBVIOUS
<1>1. w[0] = <<>> /\ \A i \in 1 .. m : w[i] = N!Write(p, kinds, v, w[i - 1], i)
  BY WrittenGrows
<1>2. ASSUME NEW i \in 1 .. m PROVE StepHolds(p, kinds, m, v, i, w[i - 1], w[i])
  <2>1. w[i] = N!Write(p, kinds, v, w[i - 1], i)
    BY <1>1
  <2>2. ~N!Gone(kinds, v, i) => i \in DOMAIN v
    BY DEF N!Gone
  <2>3. QED  BY <2>1, <2>2 DEF N!Write, StepHolds, ValueSaid, Cut
<1> PICK V : V = {j \in 0 .. m : w[j] \in Seq(Pieces)}
  OBVIOUS
<1>3. 0 \in V
  <2>1. <<>> \in Seq(Pieces) /\ 0 \in 0 .. m
    OBVIOUS
  <2>2. QED  BY <1>1, <2>1
<1>4. ASSUME NEW i \in 1 .. m, i - 1 \in V PROVE i \in V
  <2>1. p[i] \in PathToken /\ w[i - 1] \in Seq(Pieces) /\ i \in 0 .. m
    BY <1>4
  <2>2. i \in DOMAIN v => v[i] \in Seq(Part)
    BY DEF Fits
  <2>3. w[i] \in Seq(Pieces)
    BY <1>2, <2>1, <2>2, StepTyped
  <2>4. QED  BY <2>1, <2>3
<1>5. \A j \in 0 .. m : j \in V
  BY <1>3, <1>4, SetInduction
<1>6. QED  BY <1>1, <1>2, <1>5 DEF Path

-----------------------------------------------------------------------------
(* Text between any two parameters, and nothing behind a greedy one.         *)
Spaced(p, kinds, m) ==
  \A i \in 1 .. m : kinds[i] # "text" =>
    (i < m => kinds[i + 1] = "text") /\ (p[i].is \in N!Greedy => i = m)

(* No value is empty: only those not given are left out.                     *)
AllFull(v, kinds) == Fits(v, kinds) /\ \A i \in DOMAIN v : v[i] # <<>>

LEMMA FullGone ==
  ASSUME NEW v, NEW kinds, AllFull(v, kinds), NEW i
  PROVE  N!Gone(kinds, v, i) <=> i \notin DOMAIN v
BY DEF AllFull, N!Gone

(* What comes off at a cut is text of the pattern.                           *)
CutShort(p, w, i) ==
  \/ i = 1 /\ w[i] = w[i - 1]
  \/ i > 1 /\ p[i - 1] = N!Slash /\ w[i] = w[i - 2]
  \/ i > 1 /\ p[i - 1] # N!Slash /\ w[i] = w[i - 1]

LEMMA CutOf ==
  ASSUME NEW p, NEW kinds, NEW m \in Nat, NEW v, NEW w, Path(p, kinds, m, v, w), Spaced(p, kinds, m),
         \A i \in 1 .. m : p[i] \in PathToken,
         NEW i \in 1 .. m, kinds[i] # "text", w[i] = N!TrimSuffix(w[i - 1])
  PROVE  CutShort(p, w, i)
<1>1. CASE i = 1
  <2>1. w[0] = <<>> /\ w[i - 1] = <<>>
    BY <1>1 DEF Path
  <2>2. Trimmed(<<>>, w[i])
    <3>1. <<>> \in Seq(Pieces)
      OBVIOUS
    <3>2. QED  BY <2>1, <3>1, TrimOf
  <2>3. w[i] = <<>>
    <3>1. w[i] \in Seq(Pieces) /\ (w[i] = <<>> \/ Len(<<>>) = Len(w[i]) + 1)
      BY <2>2 DEF Trimmed
    <3>2. Len(<<>>) = 0 /\ Len(w[i]) \in Nat
      BY <3>1
    <3>3. QED  BY <3>1, <3>2
  <2>4. QED  BY <1>1, <2>1, <2>3 DEF CutShort
<1>2. CASE i > 1
  <2> PICK j : j = i - 1
    OBVIOUS
  <2>1. j \in 1 .. m /\ j - 1 = i - 2 /\ j - 1 \in 0 .. m /\ j < m /\ j + 1 = i
    BY <1>2
  <2>2. kinds[j] = "text"
    BY <2>1 DEF Spaced
  <2>3. w[j] = Append(w[j - 1], p[j]) /\ w[j - 1] \in Seq(Pieces)
    BY <2>1, <2>2 DEF Path, StepHolds, ValueSaid
  <2>4. p[j] \in Pieces
    BY <2>1 DEF Pieces
  <2>5. w[i] = IF p[j] = N!Slash THEN w[j - 1] ELSE w[j]
    BY <2>3, <2>4, TrimAppended
  <2>6. QED  BY <1>2, <2>1, <2>5 DEF CutShort
<1>3. QED  BY <1>1, <1>2

(* Whoever is given more says more, at the end of the pattern and on the     *)
(* way.                                                                      *)
Ahead(p, m, v, w, more, long, j) ==
  (j = m /\ m \in DOMAIN v => p[m].is \notin N!Greedy) =>
    /\ Len(w[j]) <= Len(long[j])
    /\ (\E i \in 1 .. j : i \in DOMAIN more /\ i \notin DOMAIN v) => Len(w[j]) < Len(long[j])

LEMMA AheadStep ==
  ASSUME NEW p, NEW kinds, NEW m \in Nat, NEW v, NEW w, Path(p, kinds, m, v, w),
         NEW more, NEW long, Path(p, kinds, m, more, long),
         AllFull(v, kinds), AllFull(more, kinds), DOMAIN v \subseteq DOMAIN more,
         \A i \in DOMAIN more : kinds[i] # "text",
         Spaced(p, kinds, m), \A i \in 1 .. m : p[i] \in PathToken,
         NEW i \in 1 .. m, Ahead(p, m, v, w, more, long, i - 1),
         i > 1 => Ahead(p, m, v, w, more, long, i - 2)
  PROVE  Ahead(p, m, v, w, more, long, i)
<1> SUFFICES ASSUME i = m /\ m \in DOMAIN v => p[m].is \notin N!Greedy
             PROVE  /\ Len(w[i]) <= Len(long[i])
                    /\ (\E j \in 1 .. i : j \in DOMAIN more /\ j \notin DOMAIN v) => Len(w[i]) < Len(long[i])
  BY DEF Ahead
<1> PICK J \in BOOLEAN : J = (\E j \in 1 .. i - 1 : j \in DOMAIN more /\ j \notin DOMAIN v)
  OBVIOUS
<1> PICK a, b \in Nat : a = Len(w[i - 1]) /\ b = Len(long[i - 1])
  <2>1. i - 1 \in 0 .. m
    OBVIOUS
  <2>2. w[i - 1] \in Seq(Pieces) /\ long[i - 1] \in Seq(Pieces)
    BY <2>1 DEF Path
  <2>3. QED  BY <2>2
<1>1. a <= b /\ (J => a < b)
  <2>1. ~(i - 1 = m)
    OBVIOUS
  <2>2. QED  BY <2>1 DEF Ahead
<1>2. StepHolds(p, kinds, m, v, i, w[i - 1], w[i]) /\ StepHolds(p, kinds, m, more, i, long[i - 1], long[i])
  BY DEF Path
<1>3. /\ i - 1 \in 0 .. m /\ i \in 0 .. m
      /\ w[i - 1] \in Seq(Pieces) /\ long[i - 1] \in Seq(Pieces) /\ w[i] \in Seq(Pieces) /\ long[i] \in Seq(Pieces)
  <2>1. i - 1 \in 0 .. m /\ i \in 0 .. m
    OBVIOUS
  <2>2. QED  BY <2>1 DEF Path
<1> PICK c, d \in Nat : c = Len(w[i]) /\ d = Len(long[i])
  BY <1>3
<1>4. (\E j \in 1 .. i : j \in DOMAIN more /\ j \notin DOMAIN v) <=> J \/ (i \in DOMAIN more /\ i \notin DOMAIN v)
  OBVIOUS
<1>5. ASSUME i \in DOMAIN more PROVE b < d
  <2>1. ValueSaid(p, kinds, more, i, long[i - 1], long[i])
    BY <1>2, <1>5, FullGone DEF StepHolds
  <2> PICK e : e = N!Escape(p[i], more[i])
    OBVIOUS
  <2>2. EscapeHolds(p[i], e)
    BY <1>5, EscapeOf DEF AllFull, Fits
  <2>3. e \in Seq(Pieces) /\ Len(e) >= 1
    BY <2>2 DEF EscapeHolds
  <2>4. Len(long[i - 1] \o e) = Len(long[i - 1]) + Len(e)
    BY <1>3, <2>3, ConcatProperties
  <2>5. long[i] = long[i - 1] \o e
    BY <2>1 DEF ValueSaid
  <2> PICK l \in Nat : l = Len(e)
    BY <2>3
  <2>6. d = b + l /\ l >= 1
    BY <2>3, <2>4, <2>5
  <2>7. \A q, r \in Nat : r >= 1 => q < q + r
    OBVIOUS
  <2>8. b < b + l
    BY <2>6, <2>7
  <2>9. QED  BY <2>6, <2>8
<1>6. CASE kinds[i] = "text"
  <2>1. w[i] = Append(w[i - 1], p[i]) /\ long[i] = Append(long[i - 1], p[i])
    BY <1>2, <1>6 DEF StepHolds, ValueSaid
  <2>2. c = a + 1 /\ d = b + 1
    BY <1>3, <2>1
  <2>3. i \notin DOMAIN more
    BY <1>6
  <2>4. QED  BY <1>1, <1>4, <2>2, <2>3
<1>7. CASE kinds[i] # "text" /\ i \in DOMAIN v
  <2>1. p[i].is \notin N!Greedy
    BY <1>7 DEF Spaced
  <2>2. ValueSaid(p, kinds, v, i, w[i - 1], w[i])
    BY <1>2, <1>7, FullGone DEF StepHolds
  <2> PICK e : e = N!Escape(p[i], v[i])
    OBVIOUS
  <2>3. EscapeHolds(p[i], e)
    BY <1>7, EscapeOf DEF AllFull, Fits
  <2>4. e \in Seq(Pieces) /\ Len(e) = 1
    BY <2>1, <2>3 DEF EscapeHolds
  <2>5. Len(w[i - 1] \o e) = Len(w[i - 1]) + Len(e)
    BY <1>3, <2>4, ConcatProperties
  <2>6. c = a + 1
    BY <2>2, <2>4, <2>5 DEF ValueSaid
  <2>7. b < d
    BY <1>5, <1>7
  <2>8. QED  BY <1>1, <1>4, <1>7, <2>6, <2>7
<1>8. CASE kinds[i] # "text" /\ i \notin DOMAIN v /\ i \in DOMAIN more
  <2>1. w[i] = w[i - 1] \/ w[i] = N!TrimSuffix(w[i - 1])
    BY <1>2, <1>8 DEF StepHolds, ValueSaid
  <2>2. c <= a
    <3>1. CASE w[i] = w[i - 1]
      BY <3>1
    <3>2. CASE w[i] = N!TrimSuffix(w[i - 1])
      <4>1. Trimmed(w[i - 1], w[i])
        BY <1>3, <3>2, TrimOf
      <4>2. QED  BY <4>1 DEF Trimmed
    <3>3. QED  BY <2>1, <3>1, <3>2
  <2>3. b < d
    BY <1>5, <1>8
  <2>4. QED  BY <1>1, <2>2, <2>3
<1>9. CASE kinds[i] # "text" /\ i \notin DOMAIN more
  <2>1. i \notin DOMAIN v
    BY <1>9
  <2>2. CASE ~Cut(p, kinds, i, m)
    <3>1. w[i] = w[i - 1] /\ long[i] = long[i - 1]
      BY <1>2, <1>9, <2>1, <2>2 DEF StepHolds, ValueSaid
    <3>2. QED  BY <1>1, <1>4, <1>9, <3>1
  <2>3. CASE Cut(p, kinds, i, m)
    <3>1. w[i] = N!TrimSuffix(w[i - 1]) /\ long[i] = N!TrimSuffix(long[i - 1])
      BY <1>2, <1>9, <2>1, <2>3 DEF StepHolds, ValueSaid
    <3>2. CutShort(p, w, i) /\ CutShort(p, long, i)
      BY <1>9, <3>1, CutOf
    <3>3. CASE w[i] = w[i - 1] /\ long[i] = long[i - 1]
      BY <1>1, <1>4, <1>9, <3>3
    <3>4. CASE i > 1 /\ p[i - 1] = N!Slash /\ w[i] = w[i - 2] /\ long[i] = long[i - 2]
      <4>1. ~(i - 2 = m) /\ i - 1 \in 1 .. m /\ (i - 1) + 1 = i
        BY <3>4
      <4>2. kinds[i - 1] = "text"
        BY <1>9, <4>1 DEF Spaced
      <4>3. i - 1 \notin DOMAIN more
        BY <4>2
      <4>4. J <=> \E j \in 1 .. i - 2 : j \in DOMAIN more /\ j \notin DOMAIN v
        BY <4>3
      <4>5. c <= d /\ ((\E j \in 1 .. i - 2 : j \in DOMAIN more /\ j \notin DOMAIN v) => c < d)
        BY <3>4, <4>1 DEF Ahead
      <4>6. QED  BY <1>4, <1>9, <4>4, <4>5
    <3>5. QED  BY <3>2, <3>3, <3>4 DEF CutShort
  <2>4. QED  BY <2>2, <2>3
<1>10. QED  BY <1>6, <1>7, <1>8, <1>9

LEMMA AheadAll ==
  ASSUME NEW p, NEW kinds, NEW m \in Nat, NEW v, NEW w, Path(p, kinds, m, v, w),
         NEW more, NEW long, Path(p, kinds, m, more, long),
         AllFull(v, kinds), AllFull(more, kinds), DOMAIN v \subseteq DOMAIN more,
         \A i \in DOMAIN more : kinds[i] # "text",
         Spaced(p, kinds, m), \A i \in 1 .. m : p[i] \in PathToken
  PROVE  \A j \in 0 .. m : Ahead(p, m, v, w, more, long, j)
<1> PICK V : V = {j \in 0 .. m : Ahead(p, m, v, w, more, long, j) /\ (j > 0 => Ahead(p, m, v, w, more, long, j - 1))}
  OBVIOUS
<1>1. 0 \in V
  <2>1. Len(w[0]) = 0 /\ Len(long[0]) = 0 /\ 1 .. 0 = {} /\ 0 \in 0 .. m
    BY DEF Path
  <2>2. Ahead(p, m, v, w, more, long, 0)
    BY <2>1 DEF Ahead
  <2>3. QED  BY <2>1, <2>2
<1>2. ASSUME NEW i \in 1 .. m, i - 1 \in V PROVE i \in V
  <2>1. Ahead(p, m, v, w, more, long, i - 1)
    BY <1>2
  <2>2. ASSUME i > 1 PROVE Ahead(p, m, v, w, more, long, i - 2)
    <3>1. i - 1 > 0 /\ i - 1 - 1 = i - 2
      BY <2>2
    <3>2. QED  BY <1>2, <3>1
  <2>3. Ahead(p, m, v, w, more, long, i)
    BY <2>1, <2>2, AheadStep
  <2>4. i \in 0 .. m
    OBVIOUS
  <2>5. QED  BY <2>1, <2>3, <2>4
<1>3. \A j \in 0 .. m : j \in V
  BY <1>1, <1>2, SetInduction
<1>4. QED  BY <1>3

(* What is put behind two sequences of one length is told from the result.   *)
Both(x, y, e, f) == x = y /\ e = f

LEMMA ConcatCancels ==
  ASSUME NEW X, NEW x \in Seq(X), NEW y \in Seq(X), NEW e \in Seq(X), NEW f \in Seq(X),
         Len(x) = Len(y), x \o e = y \o f
  PROVE  Both(x, y, e, f)
<1> PICK a \in Nat : a = Len(x)
  OBVIOUS
<1> PICK b \in Nat : b = Len(e)
  OBVIOUS
<1> PICK c \in Nat : c = Len(f)
  OBVIOUS
<1> DEFINE s == x \o e
           t == y \o f
<1>1. Len(s) = a + b /\ \A i \in 1 .. a + b : s[i] = IF i <= a THEN x[i] ELSE e[i - a]
  <2>1. Len(s) = Len(x) + Len(e) /\ \A i \in 1 .. Len(x) + Len(e) : s[i] = IF i <= Len(x) THEN x[i] ELSE e[i - Len(x)]
    BY ConcatProperties
  <2>2. QED  BY <2>1
<1>2. Len(t) = a + c /\ \A i \in 1 .. a + c : t[i] = IF i <= a THEN y[i] ELSE f[i - a]
  <2>1. Len(t) = Len(y) + Len(f) /\ \A i \in 1 .. Len(y) + Len(f) : t[i] = IF i <= Len(y) THEN y[i] ELSE f[i - Len(y)]
    BY ConcatProperties
  <2>2. QED  BY <2>1
<1>0. s = t
  OBVIOUS
<1> HIDE DEF s, t
<1>3. b = c
  BY <1>0, <1>1, <1>2
<1>4. ASSUME NEW i \in 1 .. a PROVE x[i] = y[i]
  <2>1. i \in 1 .. a + b /\ i <= a
    OBVIOUS
  <2>2. QED  BY <1>0, <1>1, <1>2, <1>3, <2>1
<1>5. ASSUME NEW i \in 1 .. b PROVE e[i] = f[i]
  <2>1. a + i \in 1 .. a + b /\ ~(a + i <= a) /\ a + i - a = i
    OBVIOUS
  <2>2. QED  BY <1>0, <1>1, <1>2, <1>3, <2>1
<1>6. x = y
  <2>1. x \in [1 .. a -> X] /\ y \in [1 .. a -> X]
    OBVIOUS
  <2>2. QED  BY <1>4, <2>1
<1>7. e = f
  <2>1. e \in [1 .. b -> X] /\ f \in [1 .. c -> X]
    OBVIOUS
  <2>2. QED  BY <1>3, <1>5, <2>1
<1>8. QED  BY <1>6, <1>7 DEF Both

LEMMA AppendCancels ==
  ASSUME NEW X, NEW x \in Seq(X), NEW y \in Seq(X), NEW c \in X, Append(x, c) = Append(y, c)
  PROVE  Both(x, y, c, c)
<1>1. x \o <<c>> = y \o <<c>>
  BY AppendIsConcat
<1>2. \A s, t, r \in Seq(X) : s \o r = t \o r => s = t
  BY ConcatSimplifications
<1>3. <<c>> \in Seq(X)
  OBVIOUS
<1>4. x = y
  BY <1>1, <1>2, <1>3
<1>5. QED  BY <1>4 DEF Both

(* One path is one list of values.                                           *)
Tells(v, other, w, path, j) == w[j] = path[j] => \A i \in 1 .. j : i \in DOMAIN v => v[i] = other[i]

LEMMA TellsStep ==
  ASSUME NEW p, NEW kinds, NEW m \in Nat, NEW v, NEW w, Path(p, kinds, m, v, w),
         NEW other, NEW path, Path(p, kinds, m, other, path),
         AllFull(v, kinds), AllFull(other, kinds), DOMAIN v = DOMAIN other,
         \A i \in DOMAIN v : kinds[i] # "text",
         Spaced(p, kinds, m), \A i \in 1 .. m : p[i] \in PathToken,
         NEW i \in 1 .. m, Len(w[i - 1]) = Len(path[i - 1]),
         Tells(v, other, w, path, i - 1), i > 1 => Tells(v, other, w, path, i - 2)
  PROVE  Tells(v, other, w, path, i)
<1> SUFFICES ASSUME w[i] = path[i] PROVE \A j \in 1 .. i : j \in DOMAIN v => v[j] = other[j]
  BY DEF Tells
<1>1. StepHolds(p, kinds, m, v, i, w[i - 1], w[i]) /\ StepHolds(p, kinds, m, other, i, path[i - 1], path[i])
  BY DEF Path
<1>2. /\ i - 1 \in 0 .. m /\ i \in 0 .. m
      /\ w[i - 1] \in Seq(Pieces) /\ path[i - 1] \in Seq(Pieces) /\ w[i] \in Seq(Pieces) /\ path[i] \in Seq(Pieces)
  <2>1. i - 1 \in 0 .. m /\ i \in 0 .. m
    OBVIOUS
  <2>2. QED  BY <2>1 DEF Path
<1> PICK x : x = w[i - 1]
  OBVIOUS
<1> PICK y : y = path[i - 1]
  OBVIOUS
<1>3. w[i - 1] = path[i - 1] => \A j \in 1 .. i : j \in DOMAIN v /\ j # i => v[j] = other[j]
  BY DEF Tells
<1>4. CASE kinds[i] = "text"
  <2>1. w[i] = Append(w[i - 1], p[i]) /\ path[i] = Append(path[i - 1], p[i])
    BY <1>1, <1>4 DEF StepHolds, ValueSaid
  <2>5. p[i] \in Pieces
    BY DEF Pieces
  <2>6. x \in Seq(Pieces) /\ y \in Seq(Pieces) /\ Append(x, p[i]) = Append(y, p[i])
    BY <1>2, <2>1
  <2>7. Both(x, y, p[i], p[i])
    BY <2>5, <2>6, AppendCancels
  <2>2. w[i - 1] = path[i - 1]
    BY <2>7 DEF Both
  <2>3. i \notin DOMAIN v
    BY <1>4
  <2>4. QED  BY <1>3, <2>2, <2>3
<1>5. CASE kinds[i] # "text" /\ i \in DOMAIN v
  <2>1. ValueSaid(p, kinds, v, i, w[i - 1], w[i]) /\ ValueSaid(p, kinds, other, i, path[i - 1], path[i])
    BY <1>1, <1>5, FullGone DEF StepHolds
  <2>2. v[i] \in Seq(Part) /\ v[i] # <<>> /\ other[i] \in Seq(Part) /\ other[i] # <<>>
    BY <1>5 DEF AllFull, Fits
  <2> PICK e : e = N!Escape(p[i], v[i])
    OBVIOUS
  <2> PICK f : f = N!Escape(p[i], other[i])
    OBVIOUS
  <2>3. e \in Seq(Pieces) /\ f \in Seq(Pieces)
    BY <2>2, EscapeOf DEF EscapeHolds
  <2>4. x \o e = y \o f /\ x \in Seq(Pieces) /\ y \in Seq(Pieces) /\ Len(x) = Len(y)
    BY <1>2, <2>1 DEF ValueSaid
  <2>8. Both(x, y, e, f)
    BY <2>3, <2>4, ConcatCancels
  <2>5. w[i - 1] = path[i - 1] /\ e = f
    BY <2>8 DEF Both
  <2>6. v[i] = other[i]
    BY <2>2, <2>5, EscapeTells
  <2>7. QED  BY <1>3, <2>5, <2>6
<1>6. CASE kinds[i] # "text" /\ i \notin DOMAIN v
  <2>1. CASE ~Cut(p, kinds, i, m)
    <3>1. w[i] = w[i - 1] /\ path[i] = path[i - 1]
      BY <1>1, <1>6, <2>1 DEF StepHolds, ValueSaid
    <3>2. QED  BY <1>3, <1>6, <3>1
  <2>2. CASE Cut(p, kinds, i, m)
    <3>1. w[i] = N!TrimSuffix(w[i - 1]) /\ path[i] = N!TrimSuffix(path[i - 1])
      BY <1>1, <1>6, <2>2 DEF StepHolds, ValueSaid
    <3>2. CutShort(p, w, i) /\ CutShort(p, path, i)
      BY <1>6, <3>1, CutOf
    <3>3. CASE w[i] = w[i - 1] /\ path[i] = path[i - 1]
      BY <1>3, <1>6, <3>3
    <3>4. CASE i > 1 /\ p[i - 1] = N!Slash /\ w[i] = w[i - 2] /\ path[i] = path[i - 2]
      <4>1. i - 1 \in 1 .. m /\ (i - 1) + 1 = i
        BY <3>4
      <4>2. kinds[i - 1] = "text"
        BY <1>6, <4>1 DEF Spaced
      <4>3. i - 1 \notin DOMAIN v
        BY <4>2
      <4>4. \A j \in 1 .. i - 2 : j \in DOMAIN v => v[j] = other[j]
        BY <3>4 DEF Tells
      <4>5. \A j \in 1 .. i : j = i \/ j = i - 1 \/ j \in 1 .. i - 2
        OBVIOUS
      <4>6. QED  BY <1>6, <4>3, <4>4, <4>5
    <3>5. QED  BY <3>2, <3>3, <3>4 DEF CutShort
  <2>3. QED  BY <2>1, <2>2
<1>7. QED  BY <1>4, <1>5, <1>6

LEMMA TellsAll ==
  ASSUME NEW p, NEW kinds, NEW m \in Nat, NEW v, NEW w, Path(p, kinds, m, v, w),
         NEW other, NEW path, Path(p, kinds, m, other, path),
         AllFull(v, kinds), AllFull(other, kinds), DOMAIN v = DOMAIN other,
         \A i \in DOMAIN v : kinds[i] # "text",
         Spaced(p, kinds, m), \A i \in 1 .. m : p[i] \in PathToken
  PROVE  Tells(v, other, w, path, m)
<1>1. ASSUME NEW i \in 1 .. m PROVE Len(w[i - 1]) = Len(path[i - 1])
  <2>1. i - 1 \in 0 .. m /\ ~(i - 1 = m)
    OBVIOUS
  <2>2. Ahead(p, m, v, w, other, path, i - 1)
    BY <2>1, AheadAll
  <2>3. Ahead(p, m, other, path, v, w, i - 1)
    BY <2>1, AheadAll
  <2>4. w[i - 1] \in Seq(Pieces) /\ path[i - 1] \in Seq(Pieces)
    BY <2>1 DEF Path
  <2>5. Len(w[i - 1]) <= Len(path[i - 1]) /\ Len(path[i - 1]) <= Len(w[i - 1])
    BY <2>1, <2>2, <2>3 DEF Ahead
  <2>6. Len(w[i - 1]) \in Nat /\ Len(path[i - 1]) \in Nat
    BY <2>4
  <2>7. QED  BY <2>5, <2>6
<1> PICK V : V = {j \in 0 .. m : Tells(v, other, w, path, j) /\ (j > 0 => Tells(v, other, w, path, j - 1))}
  OBVIOUS
<1>2. 0 \in V
  <2>1. Tells(v, other, w, path, 0)
    BY DEF Tells
  <2>2. QED  BY <2>1
<1>3. ASSUME NEW i \in 1 .. m, i - 1 \in V PROVE i \in V
  <2>1. Tells(v, other, w, path, i - 1)
    BY <1>3
  <2>2. ASSUME i > 1 PROVE Tells(v, other, w, path, i - 2)
    <3>1. i - 1 > 0 /\ i - 1 - 1 = i - 2
      BY <2>2
    <3>2. QED  BY <1>3, <3>1
  <2>3. Tells(v, other, w, path, i)
    BY <1>1, <2>1, <2>2, TellsStep
  <2>4. i \in 0 .. m
    OBVIOUS
  <2>5. QED  BY <2>1, <2>3, <2>4
<1>4. \A j \in 0 .. m : j \in V
  BY <1>2, <1>3, SetInduction
<1>5. m \in V
  BY <1>4
<1>6. QED  BY <1>5

Follows(x, e, y) == \E q \in 1 .. Len(y) : y[q] = e[1]

LEMMA ConcatFollows ==
  ASSUME NEW X, NEW x \in Seq(X), NEW e \in Seq(X), Len(e) >= 1, NEW y, y = x \o e
  PROVE  Follows(x, e, y)
<1> PICK a \in Nat : a = Len(x)
  OBVIOUS
<1> PICK b \in Nat \ {0} : b = Len(e)
  OBVIOUS
<1> DEFINE z == x \o e
<1>1. Len(z) = a + b /\ \A q \in 1 .. a + b : z[q] = IF q <= a THEN x[q] ELSE e[q - a]
  <2>1. Len(z) = Len(x) + Len(e) /\ \A q \in 1 .. Len(x) + Len(e) : z[q] = IF q <= Len(x) THEN x[q] ELSE e[q - Len(x)]
    BY ConcatProperties
  <2>2. QED  BY <2>1
<1>2. y = z
  OBVIOUS
<1> HIDE DEF z
<1>3. a + 1 \in 1 .. a + b /\ ~(a + 1 <= a) /\ a + 1 - a = 1
  OBVIOUS
<1>4. z[a + 1] = e[1]
  BY <1>1, <1>3
<1>5. QED  BY <1>1, <1>2, <1>3, <1>4 DEF Follows

(* A path with a value in it is more than a slash.                           *)
Shows(v, w, j) == (\E i \in 1 .. j : i \in DOMAIN v) => \E q \in 1 .. Len(w[j]) : w[j][q] # N!Slash

LEMMA ShowsStep ==
  ASSUME NEW p, NEW kinds, NEW m \in Nat, NEW v, NEW w, Path(p, kinds, m, v, w), AllFull(v, kinds),
         \A i \in DOMAIN v : kinds[i] # "text", \A i \in 1 .. m : p[i] \in PathToken,
         NEW i \in 1 .. m, Shows(v, w, i - 1)
  PROVE  Shows(v, w, i)
<1> SUFFICES ASSUME \E j \in 1 .. i : j \in DOMAIN v PROVE \E q \in 1 .. Len(w[i]) : w[i][q] # N!Slash
  BY DEF Shows
<1> PICK x : x = w[i - 1]
  OBVIOUS
<1> PICK y : y = w[i]
  OBVIOUS
<1>1. StepHolds(p, kinds, m, v, i, x, y)
  BY DEF Path
<1>2. x \in Seq(Pieces) /\ y \in Seq(Pieces)
  <2>1. i - 1 \in 0 .. m /\ i \in 0 .. m
    OBVIOUS
  <2>2. QED  BY <2>1 DEF Path
<1>3. CASE i \in DOMAIN v
  <2>1. ValueSaid(p, kinds, v, i, x, y)
    BY <1>1, <1>3, FullGone DEF StepHolds
  <2> PICK e : e = N!Escape(p[i], v[i])
    OBVIOUS
  <2>2. EscapeHolds(p[i], e)
    BY <1>3, EscapeOf DEF AllFull, Fits
  <2>3. e \in Seq(Pieces) /\ Len(e) >= 1 /\ e[1] # N!Slash
    BY <2>2 DEF EscapeHolds
  <2>4. y = x \o e
    BY <2>1 DEF ValueSaid
  <2>5. Follows(x, e, y)
    BY <1>2, <2>3, <2>4, ConcatFollows
  <2>6. PICK q \in 1 .. Len(y) : y[q] = e[1]
    BY <2>5 DEF Follows
  <2>7. QED  BY <2>3, <2>6
<1>4. CASE i \notin DOMAIN v
  <2>1. \E j \in 1 .. i - 1 : j \in DOMAIN v
    <3>1. \A j \in 1 .. i : j = i \/ j \in 1 .. i - 1
      OBVIOUS
    <3>2. QED  BY <1>4, <3>1
  <2>2. PICK q \in 1 .. Len(x) : x[q] # N!Slash
    BY <2>1 DEF Shows
  <2>3. CASE y = Append(x, p[i])
    <3>1. p[i] \in Pieces
      BY DEF Pieces
    <3>2. Len(y) = Len(x) + 1 /\ y[q] = x[q]
      BY <1>2, <2>3, <3>1, AppendProperties
    <3>3. q \in 1 .. Len(y)
      BY <1>2, <3>2
    <3>4. QED  BY <2>2, <3>2, <3>3
  <2>4. CASE y = x
    BY <2>2, <2>4
  <2>5. CASE y = N!TrimSuffix(x)
    <3>1. Trimmed(x, y)
      BY <1>2, <2>5, TrimOf
    <3>2. CASE y = x
      BY <2>2, <3>2
    <3>3. CASE Len(x) = Len(y) + 1 /\ x[Len(x)] = N!Slash /\ \A r \in 1 .. Len(y) : y[r] = x[r]
      <4>1. q # Len(x)
        BY <2>2, <3>3
      <4>2. q \in 1 .. Len(y)
        BY <1>2, <3>3, <4>1
      <4>3. QED  BY <2>2, <3>3, <4>2
    <3>4. QED  BY <3>1, <3>2, <3>3 DEF Trimmed
  <2>6. QED  BY <1>1, <1>4, <2>3, <2>4, <2>5 DEF StepHolds, ValueSaid
<1>5. QED  BY <1>3, <1>4

LEMMA ShowsAll ==
  ASSUME NEW p, NEW kinds, NEW m \in Nat, NEW v, NEW w, Path(p, kinds, m, v, w), AllFull(v, kinds),
         \A i \in DOMAIN v : kinds[i] # "text", \A i \in 1 .. m : p[i] \in PathToken
  PROVE  Shows(v, w, m)
<1> PICK V : V = {j \in 0 .. m : Shows(v, w, j)}
  OBVIOUS
<1>1. 0 \in V
  <2>1. Shows(v, w, 0)
    BY DEF Shows
  <2>2. QED  BY <2>1
<1>2. ASSUME NEW i \in 1 .. m, i - 1 \in V PROVE i \in V
  <2>1. Shows(v, w, i)
    BY <1>2, ShowsStep
  <2>2. QED  BY <2>1
<1>3. \A j \in 0 .. m : j \in V
  BY <1>1, <1>2, SetInduction
<1>4. QED  BY <1>3

(* So it is the URL as it is.                                                *)
LEMMA BuildIsPath ==
  ASSUME NEW p \in Seq(PathToken), NEW kinds, NEW m \in Nat, m = Len(p), KindsHold(p, kinds, m),
         NEW v, AllFull(v, kinds), NEW w, w = N!Written(p, kinds, v)
  PROVE  /\ N!Build(p, kinds, v) = IF w[m] = <<>> THEN <<N!Slash>> ELSE w[m]
         /\ Path(p, kinds, m, v, w)
         /\ \A i \in DOMAIN v : kinds[i] # "text" /\ i \in 1 .. m
         /\ DOMAIN v # {} => w[m] # <<>> /\ w[m] # <<N!Slash>>
<1>1. N!Build(p, kinds, v) = IF w[m] = <<>> THEN <<N!Slash>> ELSE w[m]
  BY DEF N!Build
<1>2. Path(p, kinds, m, v, w)
  BY WrittenPath DEF AllFull
<1>3. \A i \in DOMAIN v : kinds[i] # "text" /\ i \in 1 .. m
  BY ParamsOf DEF AllFull, Fits
<1>4. \A i \in 1 .. m : p[i] \in PathToken
  OBVIOUS
<1>5. Shows(v, w, m)
  BY <1>2, <1>3, <1>4, ShowsAll
<1>6. ASSUME DOMAIN v # {} PROVE w[m] # <<>> /\ w[m] # <<N!Slash>>
  <2>1. PICK q \in 1 .. Len(w[m]) : w[m][q] # N!Slash
    BY <1>3, <1>5, <1>6 DEF Shows
  <2>2. w[m] # <<>>
    BY <2>1
  <2>3. w[m] # <<N!Slash>>
    BY <2>1
  <2>4. QED  BY <2>2, <2>3
<1>7. QED  BY <1>1, <1>2, <1>3, <1>6

LEMMA BuildsDiffer ==
  ASSUME NEW p \in Seq(PathToken), NEW kinds, NEW m \in Nat, m = Len(p), KindsHold(p, kinds, m), Spaced(p, kinds, m),
         NEW v, AllFull(v, kinds), NEW more, AllFull(more, kinds),
         \/ DOMAIN v = DOMAIN more /\ \E i \in DOMAIN v : v[i] # more[i]
         \/ /\ DOMAIN v \subseteq DOMAIN more /\ DOMAIN v # DOMAIN more
            /\ m \in DOMAIN v => p[m].is \notin N!Greedy
  PROVE  N!Build(p, kinds, v) # N!Build(p, kinds, more)
<1> PICK w : w = N!Written(p, kinds, v)
  OBVIOUS
<1> PICK long : long = N!Written(p, kinds, more)
  OBVIOUS
<1>1. /\ N!Build(p, kinds, v) = IF w[m] = <<>> THEN <<N!Slash>> ELSE w[m]
      /\ Path(p, kinds, m, v, w)
      /\ \A i \in DOMAIN v : kinds[i] # "text" /\ i \in 1 .. m
      /\ DOMAIN v # {} => w[m] # <<>> /\ w[m] # <<N!Slash>>
  BY BuildIsPath
<1>2. /\ N!Build(p, kinds, more) = IF long[m] = <<>> THEN <<N!Slash>> ELSE long[m]
      /\ Path(p, kinds, m, more, long)
      /\ \A i \in DOMAIN more : kinds[i] # "text" /\ i \in 1 .. m
      /\ DOMAIN more # {} => long[m] # <<>> /\ long[m] # <<N!Slash>>
  BY BuildIsPath
<1>3. \A i \in 1 .. m : p[i] \in PathToken
  OBVIOUS
<1>4. CASE DOMAIN v = DOMAIN more /\ \E i \in DOMAIN v : v[i] # more[i]
  <2>1. Tells(v, more, w, long, m)
    BY <1>1, <1>2, <1>3, <1>4, TellsAll
  <2>2. w[m] # long[m]
    BY <1>1, <1>4, <2>1 DEF Tells
  <2>3. DOMAIN v # {} /\ DOMAIN more # {}
    BY <1>4
  <2>4. QED  BY <1>1, <1>2, <2>2, <2>3
<1>5. CASE /\ DOMAIN v \subseteq DOMAIN more /\ DOMAIN v # DOMAIN more
           /\ m \in DOMAIN v => p[m].is \notin N!Greedy
  <2>1. PICK i \in DOMAIN more : i \notin DOMAIN v
    BY <1>5
  <2>2. i \in 1 .. m
    BY <1>2
  <2>3. Ahead(p, m, v, w, more, long, m)
    <3>1. m \in 0 .. m
      OBVIOUS
    <3>2. QED  BY <1>1, <1>2, <1>3, <1>5, <3>1, AheadAll
  <2>4. Len(w[m]) < Len(long[m])
    BY <1>5, <2>1, <2>2, <2>3 DEF Ahead
  <2>5. w[m] # long[m]
    <3>1. w[m] \in Seq(Pieces) /\ Len(w[m]) \in Nat
      <4>1. m \in 0 .. m
        OBVIOUS
      <4>2. w[m] \in Seq(Pieces)
        BY <1>1, <4>1 DEF Path
      <4>3. QED  BY <4>2
    <3>2. QED  BY <2>4, <3>1
  <2>6. QED  BY <1>1, <1>2, <2>1, <2>5
<1>6. QED  BY <1>4, <1>5

-----------------------------------------------------------------------------
(* What Readable says of a pattern, in terms of its kinds.                   *)
Read(p, kinds, m) ==
  /\ Spaced(p, kinds, m)
  /\ \A i \in 1 .. m : kinds[i] = "named" /\ p[i].is \in N!Greedy => N!Params(kinds) = N!Required(kinds)

LEMMA ReadableReads ==
  ASSUME NEW p \in Seq(PathToken), NEW m \in Nat, m = Len(p), N!Readable(p), NEW kinds, kinds = N!Kinds(p)
  PROVE  Read(p, kinds, m)
<1>1. KindsHold(p, kinds, m)
  BY KindsOf
<1>2. N!Params(kinds) = {i \in 1 .. m : kinds[i] # "text"}
  BY <1>1, ParamsOf
<1>3. ASSUME NEW i \in 1 .. m, kinds[i] # "text"
      PROVE  /\ i < m => kinds[i + 1] = "text"
             /\ p[i].is \in N!Greedy => i = m
             /\ p[i].is \in N!Greedy /\ kinds[i] = "named" => N!Params(kinds) = N!Required(kinds)
  <2>1. i \in N!Params(kinds)
    BY <1>2, <1>3
  <2>2. i + 1 \notin N!Params(kinds) /\ (p[i].is \in N!Greedy => i = Len(p))
        /\ (p[i].is \in N!Greedy /\ kinds[i] = "named" => N!Params(kinds) = N!Required(kinds))
    BY <2>1 DEF N!Readable
  <2>3. i < m => i + 1 \in 1 .. m
    OBVIOUS
  <2>4. QED  BY <1>2, <2>2, <2>3
<1>4. Spaced(p, kinds, m)
  BY <1>3 DEF Spaced
<1>5. \A i \in 1 .. m : kinds[i] = "named" /\ p[i].is \in N!Greedy => N!Params(kinds) = N!Required(kinds)
  BY <1>3
<1>6. QED  BY <1>4, <1>5 DEF Read

(* The values of a list, on the parameters it is given to.                   *)
Laid(kinds, args) == [i \in N!Given(kinds, Len(args)) |-> args[N!Rank(N!Given(kinds, Len(args)), i)]]

(* As many values as the pattern can take.                                   *)
CountFits(kinds, args) == Len(args) \in Cardinality(N!Required(kinds)) .. Cardinality(N!Params(kinds))

(* The values of a list are values of the parameters.                        *)
Shares(v, kinds, args) == Fits(v, kinds) /\ \A i \in DOMAIN v : v[i] \in N!ToSet(args)

LEMMA LaidFits ==
  ASSUME NEW p, NEW kinds, NEW m \in Nat, KindsHold(p, kinds, m),
         NEW args \in Seq(Seq(Part)), CountFits(kinds, args)
  PROVE  Shares(Laid(kinds, args), kinds, args)
<1> PICK Q : Q = Seq(Part)
  OBVIOUS
<1> PICK n \in Nat : n = Len(args) /\ DOMAIN args = 1 .. n
  OBVIOUS
<1> PICK J : J = N!Given(kinds, n)
  OBVIOUS
<1>1. J \in SUBSET N!Params(kinds) /\ N!Choice(kinds, n, J)
  BY GivenIsChoice DEF CountFits
<1>2. IsFiniteSet(J) /\ J \subseteq Nat /\ Cardinality(J) = n
  <2>1. IsFiniteSet(N!Params(kinds)) /\ N!Params(kinds) \subseteq 1 .. m
    BY ParamsOf
  <2>2. IsFiniteSet(J)
    BY <1>1, <2>1, FS_Subset
  <2>3. J \subseteq Nat
    BY <1>1, <2>1
  <2>4. Cardinality(J) = n
    BY <1>1, SameCardinality DEF N!Choice
  <2>5. QED  BY <2>2, <2>3, <2>4
<1> PICK v : v = Laid(kinds, args)
  OBVIOUS
<1>3. v = [i \in J |-> args[N!Rank(J, i)]]
  BY DEF Laid
<1>4. ASSUME NEW i \in J PROVE v[i] \in Q /\ v[i] \in N!ToSet(args)
  <2> PICK r : r = N!Rank(J, i)
    OBVIOUS
  <2>1. r \in 1 .. n
    BY <1>2, RankBounds
  <2>2. v[i] = args[r]
    BY <1>3
  <2>3. args \in Seq(Q)
    OBVIOUS
  <2>4. args[r] \in Q
    BY <2>1, <2>3
  <2>5. args[r] \in N!ToSet(args)
    BY <2>1 DEF N!ToSet
  <2>6. QED  BY <2>2, <2>4, <2>5
<1>5. DOMAIN v = J
  BY <1>3
<1>6. QED  BY <1>1, <1>4, <1>5 DEF Shares, Fits

LEMMA LaidFull ==
  ASSUME NEW p, NEW kinds, NEW m \in Nat, KindsHold(p, kinds, m),
         NEW args \in Seq(Seq(Part)), CountFits(kinds, args), <<>> \notin N!ToSet(args)
  PROVE  AllFull(Laid(kinds, args), kinds)
<1>1. Shares(Laid(kinds, args), kinds, args)
  BY LaidFits
<1>2. QED  BY <1>1 DEF Shares, AllFull

(* Two lists, laid on the parameters, are two assignments; the longer one    *)
(* leaves none of the parameters of the other out.                           *)
LEMMA LaidDiffer ==
  ASSUME NEW p, NEW kinds, NEW m \in Nat, KindsHold(p, kinds, m), Read(p, kinds, m), NEW X,
         NEW args \in Seq(X), CountFits(kinds, args), NEW others \in Seq(X), CountFits(kinds, others),
         args # others, Len(args) <= Len(others),
         NEW v, v = Laid(kinds, args), NEW more, more = Laid(kinds, others)
  PROVE  \/ DOMAIN v = DOMAIN more /\ \E i \in DOMAIN v : v[i] # more[i]
         \/ /\ DOMAIN v \subseteq DOMAIN more /\ DOMAIN v # DOMAIN more
            /\ m \in DOMAIN v => p[m].is \notin N!Greedy
<1> PICK n \in Nat : n = Len(args)
  OBVIOUS
<1> PICK l \in Nat : l = Len(others)
  OBVIOUS
<1> PICK J : J = N!Given(kinds, n)
  OBVIOUS
<1> PICK H : H = N!Given(kinds, l)
  OBVIOUS
<1> PICK F : F = N!Params(kinds)
  OBVIOUS
<1> PICK R : R = N!Required(kinds)
  OBVIOUS
<1>1. v = [i \in J |-> args[N!Rank(J, i)]] /\ more = [i \in H |-> others[N!Rank(H, i)]]
  BY DEF Laid
<1>2. J \in SUBSET F /\ N!Choice(kinds, n, J)
  BY GivenIsChoice DEF CountFits
<1>3. H \in SUBSET F /\ N!Choice(kinds, l, H)
  BY GivenIsChoice DEF CountFits
<1>4. /\ IsFiniteSet(F) /\ F \subseteq 1 .. m
      /\ F = {i \in 1 .. m : kinds[i] # "text"} /\ R = {i \in 1 .. m : kinds[i] = "named"}
  BY ParamsOf
<1>5. /\ IsFiniteSet(J) /\ J \subseteq Nat /\ Cardinality(J) = n
      /\ IsFiniteSet(H) /\ H \subseteq Nat /\ Cardinality(H) = l
  <2>1. IsFiniteSet(J) /\ IsFiniteSet(H)
    BY <1>2, <1>3, <1>4, FS_Subset
  <2>2. J \subseteq Nat /\ H \subseteq Nat
    BY <1>2, <1>3, <1>4
  <2>3. Cardinality(J) = n /\ Cardinality(H) = l
    BY <1>2, <1>3, SameCardinality DEF N!Choice
  <2>4. QED  BY <2>1, <2>2, <2>3
<1>6. CASE n = l
  <2>1. J = H
    BY <1>6
  <2>2. PICK k \in 1 .. n : args[k] # others[k]
    <3>1. args \in [1 .. n -> X]
      OBVIOUS
    <3>2. others \in [1 .. l -> X]
      OBVIOUS
    <3>3. QED  BY <1>6, <3>1, <3>2
  <2>3. PICK i \in J : N!Rank(J, i) = k
    BY <1>5, RankOnto
  <2>4. v[i] = args[k] /\ more[i] = others[k]
    BY <1>1, <2>1, <2>3
  <2>5. DOMAIN v = J /\ DOMAIN more = J
    BY <1>1, <2>1
  <2>6. QED  BY <2>2, <2>4, <2>5
<1>7. CASE n < l
  <2>1. J \subseteq H
    <3> PICK q : q = Cardinality(R)
      OBVIOUS
    <3>1. q \in Nat
      BY Others
    <3>2. J = R \cup {i \in F \ R : N!Rank(F \ R, i) <= n - q} /\ H = R \cup {i \in F \ R : N!Rank(F \ R, i) <= l - q}
      BY SameCardinality DEF N!Given
    <3>3. ASSUME NEW i \in F \ R PROVE N!Rank(F \ R, i) \in Nat
      <4>1. IsFiniteSet(F \ R) /\ F \ R \subseteq Nat
        BY Others
      <4>2. N!Rank(F \ R, i) \in 1 .. Cardinality(F \ R)
        BY <4>1, RankBounds
      <4>3. QED  BY <4>2
    <3>4. ASSUME NEW i \in F \ R, N!Rank(F \ R, i) <= n - q PROVE N!Rank(F \ R, i) <= l - q
      <4> PICK r \in Nat : r = N!Rank(F \ R, i)
        BY <3>3
      <4>1. r <= n - q => r <= l - q
        BY <1>7, <3>1
      <4>2. QED  BY <3>4, <4>1
    <3>5. QED  BY <3>2, <3>4
  <2>2. J # H
    BY <1>5, <1>7
  <2>3. ASSUME m \in J, p[m].is \in N!Greedy PROVE FALSE
    <3>1. m \in 1 .. m /\ m \in F
      BY <1>2, <1>4, <2>3
    <3>2. kinds[m] \in {"named", "wildcard"}
      BY <1>4, <2>3, <3>1 DEF KindsHold
    <3>3. CASE kinds[m] = "named"
      <4>1. F = R
        BY <2>3, <3>1, <3>3 DEF Read
      <4>2. J = F /\ H = F
        BY <1>2, <1>3, <4>1 DEF N!Choice
      <4>3. QED  BY <2>2, <4>2
    <3>4. CASE kinds[m] = "wildcard"
      <4>1. m \in J \ R
        BY <1>4, <2>3, <3>4
      <4>2. \A j \in F \ R : j = m \/ j < m
        BY <1>4
      <4>3. R \subseteq J /\ \A j \in F \ R : j < m => j \in J
        BY <1>2, <4>1 DEF N!Choice
      <4>4. F \subseteq J
        BY <4>1, <4>2, <4>3
      <4>5. QED  BY <1>3, <2>1, <2>2, <4>4
    <3>5. QED  BY <3>2, <3>3, <3>4
  <2>4. DOMAIN v = J /\ DOMAIN more = H
    BY <1>1
  <2>5. QED  BY <2>1, <2>2, <2>3, <2>4
<1>8. QED  BY <1>6, <1>7

LEMMA ValuesTyped ==
  ASSUME NEW args \in Seq(RouteValues)
  PROVE  args \in Seq(Seq(Part))
<1> PICK Q : Q = Seq(Part)
  OBVIOUS
<1>1. RouteValues \subseteq Q
  BY RouteAssumption, Zenon DEF Part
<1>2. args \in Seq(Q)
  BY <1>1
<1>3. QED  BY <1>2

(* What values in order answer, and (ListsDiffer) where two lists differ.    *)
LEMMA OrderAnswer ==
  ASSUME NEW p \in Seq(PathToken), Plain(p), NEW m \in Nat, m = Len(p), NEW kinds, kinds = N!Kinds(p),
         NEW params, params.by = "order", NEW args, args = params.args, args \in Seq(RouteValues), <<>> \notin N!ToSet(args)
  PROVE  N!ReverseURL(p, params) =
           IF CountFits(kinds, args) THEN Shown("none", N!Build(p, kinds, Laid(kinds, args))) ELSE Shown("params", <<>>)
<1> PICK filled : filled = N!ByOrder(kinds, args)
  OBVIOUS
<1>1. N!ReverseURL(p, params) = Answer(p, kinds, filled)
  <2>1. FilledBy(p, kinds, params) = filled
    BY DEF FilledBy
  <2>2. QED  BY <2>1, Reverses
<1>2. KindsHold(p, kinds, m)
  BY KindsOf
<1>3. CASE CountFits(kinds, args)
  <2>1. filled = [error |-> "none", values |-> Laid(kinds, args)]
    BY <1>2, <1>3, ByOrderFills DEF Laid, CountFits
  <2>2. AllFull(Laid(kinds, args), kinds)
    BY <1>2, <1>3, ValuesTyped, LaidFull
  <2>3. ~EmptyOne(kinds, filled) /\ filled.error = "none" /\ filled.values = Laid(kinds, args)
    <3>1. filled.error = "none" /\ filled.values = Laid(kinds, args)
      BY <2>1
    <3>2. QED  BY <2>2, <3>1 DEF EmptyOne, AllFull
  <2>4. QED  BY <1>1, <1>3, <2>3, AnswerShown
<1>4. CASE ~CountFits(kinds, args)
  <2>1. filled = [error |-> "params", values |-> <<>>]
    BY <1>2, <1>4, ByOrderFills DEF CountFits
  <2>2. filled.error # "none"
    BY <2>1
  <2>3. QED  BY <1>1, <1>4, <2>2, AnswerShown
<1>5. QED  BY <1>3, <1>4

LEMMA ListsDiffer ==
  ASSUME NEW p \in Seq(PathToken), NEW kinds, NEW m \in Nat, m = Len(p), KindsHold(p, kinds, m), Read(p, kinds, m),
         NEW args \in Seq(RouteValues), CountFits(kinds, args), <<>> \notin N!ToSet(args),
         NEW others \in Seq(RouteValues), CountFits(kinds, others), <<>> \notin N!ToSet(others),
         args # others
  PROVE  N!Build(p, kinds, Laid(kinds, args)) # N!Build(p, kinds, Laid(kinds, others))
<1> PICK v : v = Laid(kinds, args)
  OBVIOUS
<1> PICK more : more = Laid(kinds, others)
  OBVIOUS
<1>1. AllFull(v, kinds) /\ AllFull(more, kinds)
  BY ValuesTyped, LaidFull
<1>2. Spaced(p, kinds, m)
  BY DEF Read
<1>3. CASE Len(args) <= Len(others)
  <2>1. \/ DOMAIN v = DOMAIN more /\ \E i \in DOMAIN v : v[i] # more[i]
        \/ /\ DOMAIN v \subseteq DOMAIN more /\ DOMAIN v # DOMAIN more
           /\ m \in DOMAIN v => p[m].is \notin N!Greedy
    BY <1>3, LaidDiffer
  <2>2. QED  BY <1>1, <1>2, <2>1, BuildsDiffer
<1>4. CASE Len(others) <= Len(args)
  <2>1. \/ DOMAIN more = DOMAIN v /\ \E i \in DOMAIN more : more[i] # v[i]
        \/ /\ DOMAIN more \subseteq DOMAIN v /\ DOMAIN more # DOMAIN v
           /\ m \in DOMAIN more => p[m].is \notin N!Greedy
    BY <1>4, LaidDiffer
  <2>2. QED  BY <1>1, <1>2, <2>1, BuildsDiffer
<1>5. Len(args) \in Nat /\ Len(others) \in Nat
  OBVIOUS
<1>6. QED  BY <1>3, <1>4, <1>5

(* Two lists of values without empty ones never make the same URL.           *)
LEMMA TellsApartStep ==
  ASSUME AskedHolds, TemplatesTyped
  PROVE  N!TellsApart
<1> SUFFICES ASSUME N!Parametrised, N!Readable(N!Pattern), urlCall.params.by = "order", url.error = "none",
                    <<>> \notin N!ToSet(urlCall.params.args),
                    NEW params \in N!Calls(N!Pattern), params.by = "order", params # urlCall.params,
                    <<>> \notin N!ToSet(params.args)
             PROVE  N!ReverseURL(N!Pattern, params).path # url.path
  BY DEF N!TellsApart
<1> PICK p : p = N!Pattern
  OBVIOUS
<1> PICK kinds : kinds = N!Kinds(p)
  OBVIOUS
<1> PICK args : args = urlCall.params.args
  OBVIOUS
<1> PICK others : others = params.args
  OBVIOUS
<1>1. /\ Plain(p) /\ p \in Seq(PathToken) /\ urlCall.params \in N!Calls(p)
      /\ url = N!WithQuery(N!ReverseURL(p, urlCall.params), urlCall.query)
  BY AskedPlain
<1> PICK m \in Nat : m = Len(p)
  BY <1>1
<1>2. KindsHold(p, kinds, m) /\ Read(p, kinds, m)
  BY <1>1, KindsOf, ReadableReads
<1>3. args \in Seq(RouteValues) /\ urlCall.params = [by |-> "order", args |-> args]
  BY <1>1, CallKinds
<1>4. others \in Seq(RouteValues) /\ params = [by |-> "order", args |-> others]
  BY CallKinds
<1>5. args # others
  BY <1>3, <1>4
<1>6. N!ReverseURL(p, urlCall.params) =
        IF CountFits(kinds, args) THEN Shown("none", N!Build(p, kinds, Laid(kinds, args))) ELSE Shown("params", <<>>)
  BY <1>1, <1>3, OrderAnswer
<1>7. N!ReverseURL(p, params) =
        IF CountFits(kinds, others) THEN Shown("none", N!Build(p, kinds, Laid(kinds, others))) ELSE Shown("params", <<>>)
  BY <1>1, <1>4, OrderAnswer
<1>8. CountFits(kinds, args) /\ url.path = N!Build(p, kinds, Laid(kinds, args))
  <2>1. CountFits(kinds, args)
    <3>1. CASE ~CountFits(kinds, args)
      <4>1. url = N!WithQuery(Shown("params", <<>>), urlCall.query)
        BY <1>1, <1>6, <3>1
      <4>2. url.error = "params"
        BY <4>1, Queried
      <4>3. QED  BY <4>2
    <3>2. QED  BY <3>1
  <2>2. url = N!WithQuery(Shown("none", N!Build(p, kinds, Laid(kinds, args))), urlCall.query)
    BY <1>1, <1>6, <2>1
  <2>3. QED  BY <2>1, <2>2, Queried
<1>9. CASE CountFits(kinds, others)
  <2>1. N!ReverseURL(p, params).path = N!Build(p, kinds, Laid(kinds, others))
    BY <1>7, <1>9 DEF Shown
  <2>2. N!Build(p, kinds, Laid(kinds, args)) # N!Build(p, kinds, Laid(kinds, others))
    BY <1>1, <1>2, <1>3, <1>4, <1>5, <1>8, <1>9, ListsDiffer
  <2>3. QED  BY <1>8, <2>1, <2>2
<1>10. CASE ~CountFits(kinds, others)
  <2>1. N!ReverseURL(p, params).path = <<>>
    BY <1>7, <1>10 DEF Shown
  <2>2. N!Build(p, kinds, Laid(kinds, args)) # <<>>
    BY DEF N!Build
  <2>3. QED  BY <1>8, <2>1, <2>2
<1>11. QED  BY <1>9, <1>10

-----------------------------------------------------------------------------
(* No segment is empty.                                                      *)
NoDouble(x) == \A q \in 1 .. Len(x) - 1 : x[q] # N!Slash \/ x[q + 1] # N!Slash

(* Where two sequences meet, there are not two slashes.                      *)
Joins(x, e, y) ==
  /\ NoDouble(y) /\ y # <<>>
  /\ y[1] = IF x = <<>> THEN e[1] ELSE x[1]
  /\ y[Len(y)] = e[Len(e)]

LEMMA ConcatJoins ==
  ASSUME NEW X, NEW x \in Seq(X), NEW e \in Seq(X), e # <<>>, NoDouble(x), NoDouble(e),
         x # <<>> => x[Len(x)] # N!Slash \/ e[1] # N!Slash, NEW y, y = x \o e
  PROVE  Joins(x, e, y)
<1> PICK a \in Nat : a = Len(x)
  OBVIOUS
<1> PICK b \in Nat \ {0} : b = Len(e)
  OBVIOUS
<1> DEFINE z == x \o e
<1>1. z \in Seq(X) /\ Len(z) = a + b /\ \A q \in 1 .. a + b : z[q] = IF q <= a THEN x[q] ELSE e[q - a]
  <2>1. z \in Seq(X) /\ Len(z) = Len(x) + Len(e)
        /\ \A q \in 1 .. Len(x) + Len(e) : z[q] = IF q <= Len(x) THEN x[q] ELSE e[q - Len(x)]
    BY ConcatProperties
  <2>2. QED  BY <2>1
<1>2. y = z
  OBVIOUS
<1> HIDE DEF z
<1>3. \A q \in 1 .. a : q \in 1 .. a + b /\ q <= a
  OBVIOUS
<1>4. \A q \in 1 .. b : a + q \in 1 .. a + b /\ ~(a + q <= a) /\ a + q - a = q
  OBVIOUS
<1>5. \A q \in 1 .. a : z[q] = x[q]
  BY <1>1, <1>3
<1>6. \A q \in 1 .. b : z[a + q] = e[q]
  BY <1>1, <1>4
<1>7. z # <<>> /\ z[Len(z)] = e[b]
  <2>1. b \in 1 .. b /\ a + b # 0
    OBVIOUS
  <2>2. QED  BY <1>1, <1>6, <2>1
<1>8. z[1] = IF x = <<>> THEN e[1] ELSE x[1]
  <2>1. CASE x = <<>>
    <3>1. a = 0 /\ 1 \in 1 .. b /\ 0 + 1 = 1
      BY <2>1
    <3>2. QED  BY <1>6, <2>1, <3>1
  <2>2. CASE x # <<>>
    <3>1. 1 \in 1 .. a
      BY <2>2
    <3>2. QED  BY <1>5, <2>2, <3>1
  <2>3. QED  BY <2>1, <2>2
<1>9. ASSUME NEW q \in 1 .. a + b - 1 PROVE z[q] # N!Slash \/ z[q + 1] # N!Slash
  <2>1. CASE q < a
    <3>1. q \in 1 .. Len(x) - 1 /\ q \in 1 .. a /\ q + 1 \in 1 .. a
      BY <2>1
    <3>2. QED  BY <1>5, <3>1 DEF NoDouble
  <2>2. CASE q = a
    <3>1. x # <<>> /\ q \in 1 .. a /\ 1 \in 1 .. b
      BY <2>2
    <3>2. QED  BY <1>5, <1>6, <2>2, <3>1
  <2>3. CASE q > a
    <3> PICK r : r = q - a
      OBVIOUS
    <3>1. r \in 1 .. Len(e) - 1 /\ r \in 1 .. b /\ r + 1 \in 1 .. b /\ a + r = q /\ a + (r + 1) = q + 1
      BY <2>3
    <3>2. z[a + r] = e[r] /\ z[a + (r + 1)] = e[r + 1]
      BY <1>6, <3>1
    <3>3. e[r] # N!Slash \/ e[r + 1] # N!Slash
      BY <3>1 DEF NoDouble
    <3>4. z[q] = e[r] /\ z[q + 1] = e[r + 1]
      BY <3>1, <3>2
    <3>5. QED  BY <3>3, <3>4
  <2>4. QED  BY <2>1, <2>2, <2>3
<1>10. NoDouble(z)
  BY <1>1, <1>9 DEF NoDouble
<1>11. QED  BY <1>2, <1>7, <1>8, <1>10 DEF Joins

(* No empty segment so far, a slash first, and none at the end where text    *)
(* or a value is next.                                                       *)
Unbroken(p, m, x, i) ==
  /\ NoDouble(x)
  /\ x # <<>> => x[1] = N!Slash
  /\ x = <<>> => i = 0 \/ i = m \/ p[i + 1] = N!Slash
  /\ x # <<>> /\ x[Len(x)] = N!Slash => i = m \/ p[i + 1] # N!Slash

(* Every required parameter has a value, and not the empty one.              *)
AllNamed(v, kinds, m) == \A i \in 1 .. m : kinds[i] = "named" => i \in DOMAIN v /\ v[i] # <<>>

LEMMA CleanStep ==
  ASSUME NEW p, NEW kinds, NEW m \in Nat, NEW v, NEW w, Path(p, kinds, m, v, w), KindsHold(p, kinds, m),
         Fits(v, kinds), Spaced(p, kinds, m), AllNamed(v, kinds, m),
         \A j \in 1 .. m : p[j] \in PathToken, p[1] = N!Slash,
         \A j \in 1 .. m - 1 : p[j] # N!Slash \/ p[j + 1] # N!Slash,
         NEW i \in 1 .. m, Unbroken(p, m, w[i - 1], i - 1)
  PROVE  Unbroken(p, m, w[i], i)
<1> PICK x : x = w[i - 1]
  OBVIOUS
<1> PICK y : y = w[i]
  OBVIOUS
<1>1. StepHolds(p, kinds, m, v, i, x, y)
  BY DEF Path
<1>2. x \in Seq(Pieces) /\ y \in Seq(Pieces)
  <2>1. i - 1 \in 0 .. m /\ i \in 0 .. m
    OBVIOUS
  <2>2. QED  BY <2>1 DEF Path
<1>3. /\ NoDouble(x)
      /\ x # <<>> => x[1] = N!Slash
      /\ x = <<>> => i = 1 \/ p[i] = N!Slash
      /\ x # <<>> /\ x[Len(x)] = N!Slash => p[i] # N!Slash
  <2>1. i - 1 # m /\ (i - 1) + 1 = i /\ (i - 1 = 0 => i = 1)
    OBVIOUS
  <2>2. QED  BY <2>1 DEF Unbroken
<1>4. ASSUME kinds[i] # "text" PROVE p[i] # N!Slash /\ x # <<>>
  <2>1. p[i].is # "text"
    BY <1>4 DEF KindsHold
  <2>2. N!Slash.is = "text"
    BY DEF N!Slash, N!Text
  <2>3. p[i] # N!Slash
    BY <2>1, <2>2
  <2>4. QED  BY <1>3, <2>3
<1>5. CASE kinds[i] = "text" /\ y = Append(x, p[i])
  <2> PICK c : c = p[i]
    OBVIOUS
  <2> PICK e : e = <<c>>
    OBVIOUS
  <2>1. c \in Pieces
    BY DEF Pieces
  <2>2. e \in Seq(Pieces) /\ e # <<>> /\ Len(e) = 1 /\ e[1] = c /\ e[Len(e)] = c
    BY <2>1
  <2>3. NoDouble(e)
    <3>1. 1 .. Len(e) - 1 = {}
      BY <2>2
    <3>2. QED  BY <3>1 DEF NoDouble
  <2>4. y = x \o e
    BY <1>2, <1>5, <2>1, AppendIsConcat
  <2>5. x # <<>> => x[Len(x)] # N!Slash \/ e[1] # N!Slash
    BY <1>3, <2>2
  <2>6. Joins(x, e, y)
    BY <1>2, <1>3, <2>2, <2>3, <2>4, <2>5, ConcatJoins
  <2>7. y # <<>> /\ NoDouble(y) /\ y[Len(y)] = c /\ y[1] = IF x = <<>> THEN c ELSE x[1]
    BY <2>2, <2>6 DEF Joins
  <2>8. y[1] = N!Slash
    BY <1>3, <2>7
  <2>9. c = N!Slash => i = m \/ p[i + 1] # N!Slash
    <3>1. i = m \/ i \in 1 .. m - 1
      OBVIOUS
    <3>2. QED  BY <3>1
  <2>10. QED  BY <2>7, <2>8, <2>9 DEF Unbroken
<1>6. CASE ValueSaid(p, kinds, v, i, x, y)
  <2> PICK e : e = N!Escape(p[i], v[i])
    OBVIOUS
  <2>1. kinds[i] # "text" /\ i \in DOMAIN v /\ y = x \o e /\ x # <<>> /\ v[i] \in Seq(Part) /\ ~N!Gone(kinds, v, i)
    BY <1>4, <1>6 DEF ValueSaid, Fits
  <2>2. CASE v[i] # <<>>
    <3>1. EscapeHolds(p[i], e)
      BY <2>1, <2>2, EscapeOf
    <3>2. e \in Seq(Pieces) /\ Len(e) >= 1 /\ e[1] # N!Slash /\ e[Len(e)] # N!Slash /\ NoDouble(e)
      BY <3>1 DEF EscapeHolds, NoDouble
    <3>3. e # <<>>
      BY <3>2
    <3>4. Joins(x, e, y)
      BY <1>2, <1>3, <2>1, <3>2, <3>3, ConcatJoins
    <3>5. y # <<>> /\ NoDouble(y) /\ y[Len(y)] = e[Len(e)] /\ y[1] = x[1]
      BY <2>1, <3>4 DEF Joins
    <3>6. QED  BY <1>3, <2>1, <3>2, <3>5 DEF Unbroken
  <2>3. CASE v[i] = <<>>
    <3>1. kinds[i] # "optional" /\ kinds[i] # "named"
      BY <2>1, <2>3 DEF N!Gone, AllNamed, KindsHold
    <3>2. i = m
      BY <2>1, <3>1 DEF KindsHold, Spaced
    <3>3. y = x
      <4>1. Len(v[i]) = 0 /\ 2 * 0 - 1 = -1 /\ 1 .. -1 = {}
        BY <2>3
      <4>2. e = [q \in 1 .. -1 |-> IF q % 2 = 1 THEN N!Text(v[i][(q + 1) \div 2]) ELSE N!Slash]
        BY <4>1 DEF N!Escape, N!Joined
      <4>3. e = <<>>
        BY <4>1, <4>2
      <4>4. x \o <<>> = x
        BY <1>2
      <4>5. QED  BY <2>1, <4>3, <4>4
    <3>4. QED  BY <1>3, <2>1, <3>2, <3>3 DEF Unbroken
  <2>4. QED  BY <2>2, <2>3
<1>7. CASE kinds[i] # "text" /\ N!Gone(kinds, v, i) /\ ~Cut(p, kinds, i, m) /\ y = x
  <2>1. x # <<>>
    BY <1>4, <1>7
  <2>2. i = m \/ p[i + 1] # N!Slash
    <3>1. CASE kinds[i] = "optional"
      BY <1>7, <3>1 DEF Cut
    <3>2. CASE kinds[i] = "named"
      <4>1. i \in DOMAIN v
        BY <3>2 DEF AllNamed
      <4>2. QED  BY <1>7, <3>2, <4>1 DEF N!Gone
    <3>3. CASE kinds[i] = "wildcard"
      BY <1>7, <3>3 DEF KindsHold, Spaced
    <3>4. QED  BY <1>7, <3>1, <3>2, <3>3 DEF KindsHold
  <2>3. QED  BY <1>3, <1>7, <2>1, <2>2 DEF Unbroken
<1>8. CASE kinds[i] # "text" /\ N!Gone(kinds, v, i) /\ Cut(p, kinds, i, m) /\ y = N!TrimSuffix(x)
  <2>1. Trimmed(x, y)
    BY <1>2, <1>8, TrimOf
  <2>2. i = m \/ p[i + 1] = N!Slash
    BY <1>8 DEF Cut
  <2>3. CASE Len(y) = Len(x) /\ y = x /\ (x = <<>> \/ x[Len(x)] # N!Slash)
    BY <1>3, <2>2, <2>3 DEF Unbroken
  <2>4. CASE Len(x) = Len(y) + 1 /\ x[Len(x)] = N!Slash /\ \A q \in 1 .. Len(y) : y[q] = x[q]
    <3> PICK k \in Nat : k = Len(y)
      BY <1>2
    <3>1. Len(x) = k + 1 /\ x # <<>> /\ \A q \in 1 .. k : y[q] = x[q]
      BY <2>4
    <3>2. \A q \in 1 .. k : x[q] # N!Slash \/ x[q + 1] # N!Slash
      <4>1. Len(x) - 1 = k
        BY <3>1
      <4>2. QED  BY <1>3, <4>1 DEF NoDouble
    <3>3. NoDouble(y)
      <4>1. ASSUME NEW q \in 1 .. k - 1 PROVE y[q] # N!Slash \/ y[q + 1] # N!Slash
        <5>1. q \in 1 .. k /\ q + 1 \in 1 .. k
          OBVIOUS
        <5>2. QED  BY <3>1, <3>2, <5>1
      <4>2. QED  BY <4>1 DEF NoDouble
    <3>4. ASSUME y # <<>> PROVE y[1] = N!Slash /\ y[Len(y)] # N!Slash
      <4>1. k \in 1 .. k /\ 1 \in 1 .. k
        BY <1>2, <3>4
      <4>2. y[1] = x[1] /\ y[k] = x[k]
        BY <3>1, <4>1
      <4>3. x[k] # N!Slash
        BY <2>4, <3>1, <3>2, <4>1
      <4>4. QED  BY <1>3, <3>1, <4>2, <4>3
    <3>5. QED  BY <2>2, <3>3, <3>4 DEF Unbroken
  <2>5. QED  BY <2>1, <2>3, <2>4 DEF Trimmed
<1>9. QED  BY <1>1, <1>5, <1>6, <1>7, <1>8 DEF StepHolds

LEMMA CleanAll ==
  ASSUME NEW p, NEW kinds, NEW m \in Nat, NEW v, NEW w, Path(p, kinds, m, v, w), KindsHold(p, kinds, m),
         Fits(v, kinds), Spaced(p, kinds, m), AllNamed(v, kinds, m),
         \A j \in 1 .. m : p[j] \in PathToken, p[1] = N!Slash,
         \A j \in 1 .. m - 1 : p[j] # N!Slash \/ p[j + 1] # N!Slash
  PROVE  Unbroken(p, m, w[m], m)
<1> PICK V : V = {j \in 0 .. m : Unbroken(p, m, w[j], j)}
  OBVIOUS
<1>1. 0 \in V
  <2>1. w[0] = <<>> /\ Len(<<>>) = 0 /\ 1 .. 0 - 1 = {} /\ 0 \in 0 .. m
    BY DEF Path
  <2>2. Unbroken(p, m, w[0], 0)
    BY <2>1 DEF Unbroken, NoDouble
  <2>3. QED  BY <2>1, <2>2
<1>2. ASSUME NEW i \in 1 .. m, i - 1 \in V PROVE i \in V
  <2>1. Unbroken(p, m, w[i - 1], i - 1)
    BY <1>2
  <2>2. Unbroken(p, m, w[i], i)
    BY <2>1, CleanStep
  <2>3. QED  BY <2>2
<1>3. \A j \in 0 .. m : j \in V
  BY <1>1, <1>2, SetInduction
<1>4. m \in V
  BY <1>3
<1>5. QED  BY <1>4

(* Whatever the call, each value is one, and the required ones are there.    *)
LEMMA FilledFits ==
  ASSUME NEW p, NEW kinds, NEW m \in Nat, KindsHold(p, kinds, m), NEW params \in N!Calls(p),
         NEW filled, filled = FilledBy(p, kinds, params), filled.error = "none", ~EmptyOne(kinds, filled)
  PROVE  Fits(filled.values, kinds) /\ AllNamed(filled.values, kinds, m)
<1> PICK v : v = filled.values
  OBVIOUS
<1> PICK Q : Q = Seq(Part)
  OBVIOUS
<1>1. N!Required(kinds) = {i \in 1 .. m : kinds[i] = "named"}
  BY ParamsOf
<1>2. Fits(v, kinds) /\ N!Required(kinds) \subseteq DOMAIN v
  <2>1. CASE params.by = "order"
    <3> PICK args : args = params.args
      OBVIOUS
    <3>1. args \in Seq(RouteValues)
      BY <2>1, CallKinds
    <3>2. filled = N!ByOrder(kinds, args)
      BY <2>1 DEF FilledBy
    <3> PICK n \in Nat : n = Len(args)
      BY <3>1
    <3>3. filled = IF CountFits(kinds, args) THEN [error |-> "none", values |-> Laid(kinds, args)]
                   ELSE [error |-> "params", values |-> <<>>]
      BY <3>2, ByOrderFills DEF CountFits, Laid
    <3>4. CountFits(kinds, args) /\ v = Laid(kinds, args)
      <4>1. CountFits(kinds, args)
        <5>1. CASE ~CountFits(kinds, args)
          <6>1. filled.error = "params"
            BY <3>3, <5>1
          <6>2. QED  BY <6>1
        <5>2. QED  BY <5>1
      <4>2. QED  BY <3>3, <4>1
    <3>5. Shares(v, kinds, args)
      BY <3>1, <3>4, ValuesTyped, LaidFits
    <3>6. DOMAIN v = N!Given(kinds, n)
      BY <3>4 DEF Laid
    <3>7. N!Choice(kinds, n, N!Given(kinds, n))
      BY <3>4, GivenIsChoice DEF CountFits
    <3>8. QED  BY <3>5, <3>6, <3>7 DEF Shares, N!Choice
  <2>2. CASE params.by = "name" /\ \E keys : params.map \in [keys -> RouteValues]
    <3> PICK map : map = params.map
      OBVIOUS
    <3>1. PICK keys : map \in [keys -> RouteValues]
      BY <2>2
    <3> PICK present : present = {i \in N!Params(kinds) : p[i].s \in DOMAIN map}
      OBVIOUS
    <3>2. filled = N!ByName(p, kinds, map)
      BY <2>2 DEF FilledBy
    <3>3. filled = IF ~(N!Required(kinds) \subseteq present) \/ N!Cardinality(present) # N!Cardinality(DOMAIN map)
                   THEN [error |-> "params", values |-> <<>>]
                   ELSE [error |-> "none", values |-> [i \in present |-> map[p[i].s]]]
      BY <3>2 DEF N!ByName
    <3>4. N!Required(kinds) \subseteq present /\ v = [i \in present |-> map[p[i].s]]
      <4>1. CASE ~(N!Required(kinds) \subseteq present)
        <5>1. filled = [error |-> "params", values |-> <<>>]
          BY <3>3, <4>1, Zenon
        <5>2. QED  BY <5>1
      <4>2. CASE N!Cardinality(present) # N!Cardinality(DOMAIN map)
        <5>1. filled = [error |-> "params", values |-> <<>>]
          BY <3>3, <4>2, Zenon
        <5>2. QED  BY <5>1
      <4>3. CASE N!Required(kinds) \subseteq present /\ N!Cardinality(present) = N!Cardinality(DOMAIN map)
        <5>1. filled = [error |-> "none", values |-> [i \in present |-> map[p[i].s]]]
          BY <3>3, <4>3, Zenon
        <5>2. QED  BY <4>3, <5>1
      <4>4. QED  BY <4>1, <4>2, <4>3
    <3>5. RouteValues \subseteq Q
      BY RouteAssumption, Zenon DEF Part
    <3>6. \A i \in present : v[i] \in Q
      BY <3>1, <3>4, <3>5
    <3>7. DOMAIN v = present
      BY <3>4
    <3>8. QED  BY <3>4, <3>6, <3>7 DEF Fits
  <2>3. QED  BY <2>1, <2>2, CallKinds
<1>3. AllNamed(v, kinds, m)
  BY <1>1, <1>2 DEF AllNamed, EmptyOne
<1>4. QED  BY <1>2, <1>3

(* No segment is empty, whichever parameters are left out.                   *)
LEMMA NoEmptySegmentStep ==
  ASSUME AskedHolds, TemplatesTyped
  PROVE  N!NoEmptySegment
<1> SUFFICES ASSUME N!Parametrised, url.error = "none", N!Readable(N!Pattern), N!Pattern[1] = N!Slash, ~N!Empty(N!Pattern)
             PROVE  url.path[1] = N!Slash /\ ~N!Empty(url.path)
  BY DEF N!NoEmptySegment
<1> PICK p : p = N!Pattern
  OBVIOUS
<1> PICK kinds : kinds = N!Kinds(p)
  OBVIOUS
<1> PICK params : params = urlCall.params
  OBVIOUS
<1>1. /\ Plain(p) /\ p \in Seq(PathToken) /\ params \in N!Calls(p)
      /\ url = N!WithQuery(N!ReverseURL(p, params), urlCall.query)
  BY AskedPlain
<1> PICK m \in Nat : m = Len(p)
  BY <1>1
<1>2. KindsHold(p, kinds, m) /\ Spaced(p, kinds, m)
  BY <1>1, KindsOf, ReadableReads DEF Read
<1> PICK filled : filled = FilledBy(p, kinds, params)
  OBVIOUS
<1>3. N!ReverseURL(p, params) = Answer(p, kinds, filled)
  BY <1>1, Reverses
<1>4. filled.error = "none" /\ ~EmptyOne(kinds, filled)
  <2>1. CASE filled.error # "none" \/ EmptyOne(kinds, filled)
    <3>1. N!ReverseURL(p, params) = Shown("params", <<>>)
      BY <1>3, <2>1, AnswerShown
    <3>2. url.error = "params"
      BY <1>1, <3>1, Queried
    <3>3. QED  BY <3>2
  <2>2. QED  BY <2>1
<1> PICK v : v = filled.values
  OBVIOUS
<1>5. url.path = N!Build(p, kinds, v)
  <2>1. N!ReverseURL(p, params) = Shown("none", N!Build(p, kinds, v))
    BY <1>3, <1>4, AnswerShown
  <2>2. QED  BY <1>1, <2>1, Queried
<1>6. Fits(v, kinds) /\ AllNamed(v, kinds, m)
  BY <1>1, <1>2, <1>4, FilledFits
<1> PICK w : w = N!Written(p, kinds, v)
  OBVIOUS
<1>7. Path(p, kinds, m, v, w)
  BY <1>1, <1>2, <1>6, WrittenPath
<1>8. Unbroken(p, m, w[m], m)
  <2>1. \A j \in 1 .. m : p[j] \in PathToken
    BY <1>1
  <2>2. \A j \in 1 .. m - 1 : p[j] # N!Slash \/ p[j + 1] # N!Slash
    BY DEF N!Empty
  <2>3. QED  BY <1>2, <1>6, <1>7, <2>1, <2>2, CleanAll
<1>9. url.path = IF w[m] = <<>> THEN <<N!Slash>> ELSE w[m]
  BY <1>5 DEF N!Build
<1>10. CASE w[m] = <<>>
  <2> PICK path : path = <<N!Slash>>
    OBVIOUS
  <2>1. path[1] = N!Slash /\ Len(path) = 1 /\ 1 .. 1 - 1 = {}
    OBVIOUS
  <2>2. ~N!Empty(path)
    BY <2>1 DEF N!Empty
  <2>3. QED  BY <1>9, <1>10, <2>1, <2>2
<1>11. CASE w[m] # <<>>
  <2>1. ~N!Empty(w[m]) /\ w[m][1] = N!Slash
    BY <1>8, <1>11 DEF Unbroken, NoDouble, N!Empty
  <2>2. QED  BY <1>9, <1>11, <2>1
<1>12. QED  BY <1>10, <1>11

-----------------------------------------------------------------------------
(* The group knows where it is, and the registry has what it was given.      *)
GroupHolds ==
  /\ group.prefix \in Seq(PathToken) /\ group.at \in Seq(PathToken)
  /\ group.tidy => group.at = group.prefix

Registry ==
  /\ DOMAIN templates = RouteNames /\ DOMAIN routed = RouteNames /\ DOMAIN tidyRoute = RouteNames
  /\ TemplatesTyped
  /\ \A n \in RouteNames : tidyRoute[n] => templates[n] = routed[n]

(* The invariant: beside the registry and the group, the answer is the one   *)
(* of the call, for nothing is registered between the two.                   *)
RouteInv == GroupHolds /\ Registry /\ AskedHolds

(* The helpers of a group give patterns.                                     *)
LEMMA TrimTyped ==
  ASSUME NEW x \in Seq(PathToken)
  PROVE  N!TrimSuffix(x) \in Seq(PathToken)
<1> PICK k \in Nat : k = Len(x)
  OBVIOUS
<1>1. CASE x # <<>> /\ x[k] = N!Slash
  <2>1. N!TrimSuffix(x) = SubSeq(x, 1, k - 1)
    BY <1>1 DEF N!TrimSuffix, N!EndsIn, N!Last, N!Front
  <2>2. k - 1 \in Nat
    BY <1>1
  <2> PICK l \in Nat : l = k - 1
    BY <2>2
  <2>3. SubSeq(x, 1, l) \in Seq(PathToken)
    OBVIOUS
  <2>4. QED  BY <2>1, <2>3
<1>2. CASE ~(x # <<>> /\ x[k] = N!Slash)
  BY <1>2 DEF N!TrimSuffix, N!EndsIn, N!Last
<1>3. QED  BY <1>1, <1>2

LEMMA CleanPrefixTyped ==
  ASSUME NEW x \in Seq(PathToken)
  PROVE  N!CleanPrefix(x) \in Seq(PathToken)
<1> PICK trimmed : trimmed = N!TrimSuffix(x)
  OBVIOUS
<1>1. trimmed \in Seq(PathToken)
  BY TrimTyped
<1>2. <<N!Slash>> \in Seq(PathToken)
  BY DEF PathToken
<1>3. <<N!Slash>> \o trimmed \in Seq(PathToken)
  BY <1>1, <1>2, ConcatProperties
<1>4. QED  BY <1>1, <1>3 DEF N!CleanPrefix

(* A pattern that begins with a slash is put behind the prefix as it is.     *)
LEMMA FullOf ==
  ASSUME NEW prefix \in Seq(PathToken), NEW p \in Seq(PathToken), p # <<>>, p[1] = N!Slash
  PROVE  N!Full(prefix, p) = prefix \o p /\ prefix \o p \in Seq(PathToken)
<1>1. prefix \o p \in Seq(PathToken)
  BY ConcatProperties
<1> PICK slash : slash = <<N!Slash>>
  OBVIOUS
<1> PICK rest : rest = Tail(p)
  OBVIOUS
<1>2. slash \in Seq(PathToken)
  BY DEF PathToken
<1>3. rest \in Seq(PathToken) /\ Len(rest) = Len(p) - 1 /\ \A i \in 1 .. Len(rest) : rest[i] = p[i + 1]
  BY HeadTailProperties
<1> PICK whole : whole = slash \o rest
  OBVIOUS
<1> PICK l \in Nat : l = Len(p) /\ l >= 1
  OBVIOUS
<1>4. whole \in Seq(PathToken) /\ Len(whole) = l /\ \A i \in 1 .. l : whole[i] = IF i <= 1 THEN slash[i] ELSE rest[i - 1]
  <2>1. Len(slash) = 1
    OBVIOUS
  <2>2. Len(rest) = l - 1
    BY <1>3
  <2>3. /\ whole \in Seq(PathToken) /\ Len(whole) = Len(slash) + Len(rest)
        /\ \A i \in 1 .. Len(slash) + Len(rest) :
             whole[i] = IF i <= Len(slash) THEN slash[i] ELSE rest[i - Len(slash)]
    BY <1>2, <1>3, ConcatProperties
  <2>4. 1 + (l - 1) = l
    OBVIOUS
  <2>5. QED  BY <2>1, <2>2, <2>3, <2>4
<1>5. ASSUME NEW i \in 1 .. l PROVE whole[i] = p[i]
  <2>1. CASE i = 1
    BY <1>4, <2>1
  <2>2. CASE i > 1
    <3>1. i - 1 \in 1 .. l - 1 /\ (i - 1) + 1 = i
      BY <2>2
    <3>2. rest[i - 1] = p[i]
      BY <1>3, <3>1
    <3>3. QED  BY <1>4, <2>2, <3>2
  <2>3. QED  BY <2>1, <2>2
<1>6. whole = p
  BY <1>4, <1>5
<1>7. prefix \o slash \o rest = prefix \o p
  BY <1>2, <1>3, <1>6, ConcatAssociative
<1>8. N!Full(prefix, p) = IF prefix = <<>> \/ p = <<>> \/ p = slash THEN prefix \o p ELSE prefix \o slash \o rest
  BY DEF N!Full
<1>9. QED  BY <1>1, <1>7, <1>8

(* What does not end in a slash is not shortened.                            *)
LEMMA EndsAsLast ==
  ASSUME NEW at \in Seq(PathToken), NEW p \in Seq(PathToken), p # <<>>, ~N!EndsIn(p, N!Slash)
  PROVE  N!TrimSuffix(at \o p) = at \o p
<1> PICK both : both = at \o p
  OBVIOUS
<1> PICK a, b \in Nat : a = Len(at) /\ b = Len(p) /\ b >= 1
  OBVIOUS
<1>1. p[b] # N!Slash
  BY DEF N!EndsIn, N!Last
<1>2. Len(both) = a + b /\ both[a + b] = p[b]
  <2>1. /\ Len(both) = Len(at) + Len(p)
        /\ \A i \in 1 .. Len(at) + Len(p) : both[i] = IF i <= Len(at) THEN at[i] ELSE p[i - Len(at)]
    BY ConcatProperties
  <2>2. a + b \in 1 .. a + b /\ ~(a + b <= a) /\ (a + b) - a = b
    OBVIOUS
  <2>3. QED  BY <2>1, <2>2
<1>3. ~N!EndsIn(both, N!Slash)
  BY <1>1, <1>2 DEF N!EndsIn, N!Last
<1>4. QED  BY <1>3 DEF N!TrimSuffix

(* What the constants are, in terms of tokens.                               *)
LEMMA TokenPatterns ==
  /\ \A p \in RoutePatterns \cup ChiPatterns \cup SubPatterns : p \in Seq(PathToken)
  /\ \A p \in ChiPatterns \cup SubPatterns : p # <<>> /\ p[1] = N!Slash
  /\ \A m \in Mounts : m.prefix \in Seq(PathToken) /\ m.at = N!CleanPrefix(m.prefix)
<1> PICK X : X = [is : STRING, s : STRING]
  OBVIOUS
<1>1. X \subseteq PathToken
  BY DEF PathToken
<1>2. Seq(X) \subseteq Seq(PathToken)
  BY <1>1, SeqMonotonic
<1>3. /\ RoutePatterns \cup ChiPatterns \cup SubPatterns \subseteq Seq(X)
      /\ \A m \in Mounts : m.prefix \in Seq(X) /\ m.at = N!CleanPrefix(m.prefix)
  BY RouteAssumption, Zenon
<1>4. QED  BY <1>2, <1>3, RouteAssumption, Zenon

LEMMA RouteInit == N!Init => RouteInv
<1> SUFFICES ASSUME N!Init PROVE RouteInv
  OBVIOUS
<1>1. PICK mount \in Mounts : group = [prefix |-> N!CleanPrefix(mount.prefix), at |-> mount.at, tidy |-> TRUE]
  BY DEF N!Init
<1>2. group.prefix = N!CleanPrefix(mount.prefix) /\ group.at = mount.at
  BY <1>1
<1>3. GroupHolds
  BY <1>2, TokenPatterns, CleanPrefixTyped DEF GroupHolds
<1>4. templates = [n \in RouteNames |-> NoRoute] /\ routed = templates /\ tidyRoute = [n \in RouteNames |-> TRUE]
  BY DEF N!Init
<1>5. Registry
  BY <1>4 DEF Registry, TemplatesTyped
<1>6. AskedHolds
  BY DEF N!Init, AskedHolds
<1>7. QED  BY <1>3, <1>5, <1>6 DEF RouteInv

(* Putting a route keeps the registry; what is asked was asked before.       *)
LEMMA PutStep ==
  ASSUME RouteInv, NEW name \in RouteNames, NEW pattern, NEW path, NEW tidy,
         N!Put(name, pattern, path, tidy),
         pattern = NoRoute \/ pattern \in Seq(PathToken), tidy => pattern = path
  PROVE  RouteInv'
<1>1. UNCHANGED group /\ urlCall = <<>> /\ UNCHANGED urlCall
  BY DEF N!Put
<1>2. GroupHolds' /\ AskedHolds'
  <2>1. GroupHolds /\ urlCall' = <<>>
    BY <1>1 DEF RouteInv
  <2>2. QED  BY <1>1, <2>1 DEF GroupHolds, AskedHolds
<1>3. /\ DOMAIN templates = RouteNames /\ DOMAIN routed = RouteNames /\ DOMAIN tidyRoute = RouteNames
      /\ TemplatesTyped /\ \A n \in RouteNames : tidyRoute[n] => templates[n] = routed[n]
  BY DEF RouteInv, Registry
<1>4. /\ templates' = [templates EXCEPT ![name] = pattern]
      /\ routed' = [routed EXCEPT ![name] = path]
      /\ tidyRoute' = [tidyRoute EXCEPT ![name] = tidy]
  BY DEF N!Put
<1>5. DOMAIN templates' = RouteNames /\ DOMAIN routed' = RouteNames /\ DOMAIN tidyRoute' = RouteNames
  BY <1>3, <1>4
<1>6. /\ templates'[name] = pattern /\ routed'[name] = path /\ tidyRoute'[name] = tidy
      /\ \A n \in RouteNames : n # name => templates'[n] = templates[n] /\ routed'[n] = routed[n] /\ tidyRoute'[n] = tidyRoute[n]
  BY <1>3, <1>4, Zenon
<1>7. TemplatesTyped'
  <2>1. ASSUME NEW n \in RouteNames PROVE templates'[n] = NoRoute \/ templates'[n] \in Seq(PathToken)
    <3>1. CASE n = name
      BY <1>6, <3>1
    <3>2. CASE n # name
      BY <1>3, <1>6, <3>2 DEF TemplatesTyped
    <3>3. QED  BY <3>1, <3>2
  <2>2. QED  BY <2>1 DEF TemplatesTyped
<1>8. ASSUME NEW n \in RouteNames PROVE tidyRoute'[n] => templates'[n] = routed'[n]
  <2>1. CASE n = name
    BY <1>6, <2>1, Zenon
  <2>2. CASE n # name
    BY <1>3, <1>6, <2>2, Zenon
  <2>3. QED  BY <2>1, <2>2
<1>9. Registry'
  BY <1>5, <1>7, <1>8, Zenon DEF Registry
<1>10. QED  BY <1>2, <1>9 DEF RouteInv

LEMMA RegisterRouteStep == RouteInv /\ N!RegisterRoute => RouteInv'
<1> SUFFICES ASSUME RouteInv, N!RegisterRoute PROVE RouteInv'
  OBVIOUS
<1>1. PICK name \in RouteNames, p \in RoutePatterns : N!Put(name, p, p, TRUE)
  BY DEF N!RegisterRoute
<1>2. p \in Seq(PathToken)
  BY TokenPatterns
<1>3. QED  BY <1>1, <1>2, PutStep

LEMMA UnregisterRouteStep == RouteInv /\ N!UnregisterRoute => RouteInv'
<1> SUFFICES ASSUME RouteInv, N!UnregisterRoute PROVE RouteInv'
  OBVIOUS
<1>1. PICK name \in RouteNames : N!Put(name, NoRoute, NoRoute, TRUE)
  BY DEF N!UnregisterRoute
<1>2. QED  BY <1>1, PutStep

LEMMA HandleStep == RouteInv /\ N!Handle => RouteInv'
<1> SUFFICES ASSUME RouteInv, N!Handle PROVE RouteInv'
  OBVIOUS
<1>1. PICK name \in RouteNames, p \in ChiPatterns :
        N!Put(name, N!Full(group.prefix, p), group.at \o p, group.tidy)
  BY DEF N!Handle
<1>2. p \in Seq(PathToken) /\ p # <<>> /\ p[1] = N!Slash
  BY TokenPatterns
<1>3. group.prefix \in Seq(PathToken) /\ (group.tidy => group.at = group.prefix)
  BY DEF RouteInv, GroupHolds
<1>4. N!Full(group.prefix, p) = group.prefix \o p /\ group.prefix \o p \in Seq(PathToken)
  BY <1>2, <1>3, FullOf
<1>5. N!Full(group.prefix, p) \in Seq(PathToken)
  BY <1>4
<1>6. group.tidy => N!Full(group.prefix, p) = group.at \o p
  BY <1>3, <1>4
<1>7. QED  BY <1>1, <1>5, <1>6, PutStep

LEMMA RouteStep == RouteInv /\ N!Route => RouteInv'
<1> SUFFICES ASSUME RouteInv, N!Route PROVE RouteInv'
  OBVIOUS
<1>1. PICK p \in SubPatterns :
        group' = [prefix |-> N!Full(group.prefix, p), at |-> N!TrimSuffix(group.at \o p),
                  tidy |-> group.tidy /\ ~N!EndsIn(p, N!Slash)]
  BY DEF N!Route
<1>2. p \in Seq(PathToken) /\ p # <<>> /\ p[1] = N!Slash
  BY TokenPatterns
<1>3. group.prefix \in Seq(PathToken) /\ group.at \in Seq(PathToken) /\ (group.tidy => group.at = group.prefix)
  BY DEF RouteInv, GroupHolds
<1>4. N!Full(group.prefix, p) = group.prefix \o p /\ group.prefix \o p \in Seq(PathToken)
  BY <1>2, <1>3, FullOf
<1>5. N!TrimSuffix(group.at \o p) \in Seq(PathToken)
  <2>1. group.at \o p \in Seq(PathToken)
    BY <1>2, <1>3, ConcatProperties
  <2>2. QED  BY <2>1, TrimTyped
<1>6. ASSUME group.tidy, ~N!EndsIn(p, N!Slash)
      PROVE  N!TrimSuffix(group.at \o p) = N!Full(group.prefix, p)
  <2>1. N!TrimSuffix(group.at \o p) = group.at \o p
    BY <1>2, <1>3, <1>6, EndsAsLast
  <2>2. QED  BY <1>3, <1>4, <1>6, <2>1
<1>7. /\ group'.prefix = N!Full(group.prefix, p) /\ group'.at = N!TrimSuffix(group.at \o p)
      /\ group'.tidy <=> (group.tidy /\ ~N!EndsIn(p, N!Slash))
  BY <1>1, Zenon
<1>8. GroupHolds'
  <2>1. group'.prefix \in Seq(PathToken) /\ group'.at \in Seq(PathToken)
    BY <1>4, <1>5, <1>7
  <2>2. group'.tidy => group'.at = group'.prefix
    BY <1>6, <1>7
  <2>3. QED  BY <2>1, <2>2 DEF GroupHolds
<1>9. UNCHANGED <<templates, routed, tidyRoute, urlCall, url>>
  BY DEF N!Route
<1>10. Registry'
  BY <1>9 DEF RouteInv, Registry, TemplatesTyped
<1>11. AskedHolds'
  <2>1. urlCall' = <<>>
    BY <1>9 DEF N!Route
  <2>2. QED  BY <2>1 DEF AskedHolds
<1>12. QED  BY <1>8, <1>10, <1>11 DEF RouteInv

LEMMA ReverseURLStep == RouteInv /\ N!ReverseURLWithQuery => RouteInv'
<1> SUFFICES ASSUME RouteInv, N!ReverseURLWithQuery PROVE RouteInv'
  OBVIOUS
<1>1. PICK name \in RouteNames, query \in Queries : \E params \in N!Calls(templates[name]) :
        /\ urlCall' = [name |-> name, params |-> params, query |-> query]
        /\ url' = N!WithQuery(N!ReverseURL(templates[name], params), query)
  BY DEF N!ReverseURLWithQuery
<1>2. PICK params \in N!Calls(templates[name]) :
        /\ urlCall' = [name |-> name, params |-> params, query |-> query]
        /\ url' = N!WithQuery(N!ReverseURL(templates[name], params), query)
  BY <1>1
<1>3. UNCHANGED <<group, templates, routed, tidyRoute>>
  BY DEF N!ReverseURLWithQuery
<1>4. AskedHolds'
  <2>1. urlCall'.name = name /\ urlCall'.params = params /\ urlCall'.query = query
    BY <1>2
  <2>2. N!Calls(templates[name])' = N!Calls(templates'[name])
    BY <1>3 DEF N!Calls
  <2>3. QED  BY <1>2, <1>3, <2>1, <2>2 DEF AskedHolds
<1>5. GroupHolds'
  BY <1>3 DEF RouteInv, GroupHolds
<1>6. Registry'
  BY <1>3 DEF RouteInv, Registry, TemplatesTyped
<1>7. QED  BY <1>4, <1>5, <1>6 DEF RouteInv

LEMMA RouteInvStep == RouteInv /\ [N!Next]_(N!vars) => RouteInv'
<1>1. RouteInv /\ UNCHANGED N!vars => RouteInv'
  BY DEF N!vars, RouteInv, GroupHolds, Registry, TemplatesTyped, AskedHolds
<1>2. QED
  BY <1>1, RegisterRouteStep, UnregisterRouteStep, HandleStep, RouteStep, ReverseURLStep DEF N!Next

LEMMA RoutesRun == AppSpec => N!Init /\ [][N!Next]_(N!vars)
<1>1. AppInit => N!Init
  BY DEF AppInit
<1>2. [AppNext]_appVars => [N!Next]_(N!vars)
  BY DEF AppNext, Bus, Emitting, Policies, Seeding, Menus, Logins, Sessions, Requests, Routing, appVars, routeVars, N!vars
<1>3. QED  BY <1>1, <1>2, PTL DEF AppSpec

(* Whatever the routes, groups and values are: the registry has the path the *)
(* router serves, values in order answer as by name, two lists of values     *)
(* never make the same URL, and no segment is left empty.                    *)
THEOREM RouteTellsHolds == AppSpec => []RouteTells
<1>1. RouteInv => RouteTells
  <2> SUFFICES ASSUME RouteInv PROVE N!RouteTells
    BY DEF RouteTells
  <2>1. AskedHolds /\ TemplatesTyped
    BY DEF RouteInv, Registry
  <2>2. N!RegisteredIsRouted
    BY DEF RouteInv, Registry, N!RegisteredIsRouted
  <2>3. N!OrderIsName /\ N!TellsApart /\ N!NoEmptySegment
    BY <2>1, OrderIsNameStep, TellsApartStep, NoEmptySegmentStep
  <2>4. QED  BY <2>2, <2>3 DEF N!RouteTells
<1>2. QED  BY <1>1, RouteInit, RouteInvStep, RoutesRun, PTL
=============================================================================
