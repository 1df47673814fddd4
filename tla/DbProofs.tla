------------------------------ MODULE DbProofs ------------------------------
(***************************************************************************)
(* Proofs about Db, for any callers, administrators, runtimes, attempts,   *)
(* statements and renderers.  About the pools the invariant says who has   *)
(* each runtime in hand (PoolsInHand); about a call, how many attempts can *)
(* have reached the database at each point of it (CallAt); about a render, *)
(* where each call's values are among the arguments (Laid).                *)
(***************************************************************************)
EXTENDS Db, SequenceTheorems, TLAPS

(* A runtime is the current one, one that its opener alone still has, or one *)
(* that was replaced; never two of these.                                    *)
PoolsInHand ==
  /\ cur # None => pool[cur] = "open"
  /\ \A a \in Admins :
       /\ apc[a] = "opened" <=> mine[a] # None
       /\ mine[a] # None => pool[mine[a]] = "open" /\ mine[a] # cur
       /\ old[a] # None => apc[a] = "swapped" /\ old[a] # cur
       /\ \A b \in Admins : mine[a] # None => mine[a] # old[b] /\ (a # b => mine[a] # mine[b])

(* An attempt begins with nothing applied by itself, and at most one         *)
(* statement of it, its last, can have been.                                 *)
CallAt(c) ==
  /\ pc[c] # "idle" => rt[c] \in Runtimes
  /\ pc[c] # "idle" /\ ~overlapped[c] => rt[c] = cur
  /\ pc[c] \in {"idle", "admission"} => tries[c] = 0 /\ at[c] = 0
  /\ pc[c] \in {"running", "conn"} => applied[c] < tries[c] /\ rows[c] = at[c]
  /\ pc[c] = "backoff" => tries[c] < Attempts(c)
  /\ applied[c] <= tries[c]
  /\ kind[c] = "read" => applied[c] = 0
  /\ pc[c] = "answered" <=> answer[c] # "none"
  /\ answer[c] = "ok" => rows[c] = Due(c) /\ (kind[c] # "read" => applied[c] >= 1)
  /\ answer[c] = "refused" => applied[c] = 0

IInv == TypeOK /\ NoPoolLeaks /\ PoolsInHand /\ \A c \in Callers : CallAt(c)

LEMMA AttemptsFact == \A c \in Callers : Attempts(c) \in Nat /\ Attempts(c) >= 1
BY DbRuntimeAssumption DEF Attempts

LEMMA DueFact == \A c \in Callers : Due(c) \in Nat /\ Due(c) >= 1
BY DbRuntimeAssumption DEF Due

LEMMA ZeroInRange == \A c \in Callers : 0 \in 0 .. Attempts(c)' /\ 0 \in 0 .. Due(c)'
<1> TAKE c \in Callers
<1>1. Attempts(c)' \in Nat /\ Due(c)' \in Nat
  BY DbRuntimeAssumption DEF Attempts, Due
<1>2. QED  BY <1>1

LEMMA InitIInv == Init => IInv
<1> SUFFICES ASSUME Init PROVE IInv
  OBVIOUS
<1>1. TypeOK
  <2>1. overlapped \in [Callers -> BOOLEAN] /\ optIn \in [Callers -> BOOLEAN]
    BY DEF Init
  <2>2. \A c \in Callers : tries[c] \in 0 .. Attempts(c) /\ at[c] \in 0 .. Due(c)
    <3> TAKE c \in Callers
    <3>1. tries[c] = 0 /\ at[c] = 0
      BY DEF Init
    <3>2. Attempts(c) \in Nat /\ Due(c) \in Nat
      BY AttemptsFact, DueFact
    <3>3. 0 \in 0 .. Attempts(c) /\ 0 \in 0 .. Due(c)
      BY <3>2
    <3>4. QED  BY <3>1, <3>3
  <2>3. QED  BY <2>1, <2>2 DEF Init, TypeOK, Kinds
<1>2. NoPoolLeaks /\ PoolsInHand
  BY DEF Init, NoPoolLeaks, PoolsInHand
<1>3. ASSUME NEW c \in Callers PROVE CallAt(c)
  <2>1. /\ pc[c] = "idle" /\ kind[c] = "read" /\ tries[c] = 0 /\ at[c] = 0
        /\ answer[c] = "none" /\ applied[c] = 0
    BY DEF Init
  <2>2. QED  BY <2>1 DEF CallAt
<1>4. QED  BY <1>1, <1>2, <1>3 DEF IInv

-----------------------------------------------------------------------------
(* Init and Close. *)
LEMMA CallsUntouched ==
  ASSUME IInv, UNCHANGED callVars, UNCHANGED cur
  PROVE  \A c \in Callers : CallAt(c)'
<1>1. \A c \in Callers : Attempts(c)' = Attempts(c) /\ Due(c)' = Due(c)
  BY DEF callVars, Attempts, Due
<1>2. QED  BY <1>1 DEF IInv, CallAt, callVars

LEMMA CallTypesUntouched ==
  ASSUME IInv, UNCHANGED <<pc, rt, kind, optIn, tries, at, rows, answer, applied>>
  PROVE  /\ pc' \in [Callers -> {"idle", "admission", "running", "conn", "backoff", "answered"}]
         /\ rt' \in [Callers -> Runtimes \cup {None}]
         /\ kind' \in [Callers -> Kinds]
         /\ optIn' \in [Callers -> BOOLEAN]
         /\ tries' \in [Callers -> Nat] /\ at' \in [Callers -> Nat]
         /\ \A c \in Callers : tries'[c] \in 0 .. Attempts(c)' /\ at'[c] \in 0 .. Due(c)'
         /\ rows' \in [Callers -> Nat]
         /\ answer' \in [Callers -> {"none", "ok", "error", "refused"}]
         /\ applied' \in [Callers -> Nat]
<1>1. \A c \in Callers : Attempts(c)' = Attempts(c) /\ Due(c)' = Due(c)
  BY DEF Attempts, Due
<1>2. QED  BY <1>1 DEF IInv, TypeOK

LEMMA InitOpenStep == ASSUME IInv, NEW a \in Admins, InitOpen(a) PROVE IInv'
<1>1. PICK r \in Runtimes : /\ Unused(r)
                            /\ pool' = [pool EXCEPT ![r] = "open"]
                            /\ mine' = [mine EXCEPT ![a] = r]
  BY DEF InitOpen
<1>2. apc[a] = "idle" /\ apc' = [apc EXCEPT ![a] = "opened"] /\ UNCHANGED <<cur, old, callVars>>
  BY DEF InitOpen
<1>3. TypeOK'
  BY <1>1, <1>2, CallTypesUntouched DEF IInv, TypeOK, callVars
<1>4. NoPoolLeaks'
  <2> SUFFICES ASSUME NEW p \in Runtimes, pool'[p] = "open"
               PROVE  p = cur \/ \E b \in Admins : mine'[b] = p \/ old[b] = p
    BY <1>2 DEF NoPoolLeaks
  <2>1. CASE p = r
    BY <1>1, <2>1 DEF IInv, TypeOK
  <2>2. CASE p # r
    <3>1. p = cur \/ \E b \in Admins : mine[b] = p \/ old[b] = p
      BY <1>1, <2>2 DEF IInv, TypeOK, NoPoolLeaks
    <3>2. \A b \in Admins : mine[b] = p => b # a
      BY <1>2, DbRuntimeAssumption DEF IInv, PoolsInHand
    <3>3. \A b \in Admins : b # a => mine'[b] = mine[b]
      BY <1>1 DEF IInv, TypeOK
    <3>4. QED  BY <3>1, <3>2, <3>3
  <2>3. QED  BY <2>1, <2>2
<1>5. PoolsInHand'
  BY <1>1, <1>2, DbRuntimeAssumption DEF IInv, TypeOK, PoolsInHand, Unused
<1>6. QED  BY <1>2, <1>3, <1>4, <1>5, CallsUntouched DEF IInv

(* The swap: whoever is running is overlapped, and the replaced runtime is   *)
(* in the hand of this administrator.                                        *)
LEMMA SwapStep ==
  ASSUME IInv, NEW a \in Admins, InitSwap(a) \/ CloseSwap(a)
  PROVE  IInv'
<1> DEFINE new == cur'
<1>1. /\ old' = [old EXCEPT ![a] = cur]
      /\ apc' = [apc EXCEPT ![a] = "swapped"]
      /\ overlapped' = [c \in Callers |-> TRUE]
      /\ UNCHANGED <<pool, pc, rt, kind, optIn, tries, at, rows, answer, applied>>
      /\ mine' = [mine EXCEPT ![a] = None]
      /\ new = mine[a]
  <2>1. CASE InitSwap(a)
    BY <2>1 DEF InitSwap, Swap
  <2>2. CASE CloseSwap(a)
    BY <2>2 DEF CloseSwap, Swap, IInv, TypeOK, PoolsInHand
  <2>3. QED  BY <2>1, <2>2
<1>2. TypeOK'
  <2>1. overlapped' \in [Callers -> BOOLEAN]
    BY <1>1
  <2>2. /\ new \in Runtimes \cup {None} /\ old' \in [Admins -> Runtimes \cup {None}]
        /\ mine' \in [Admins -> Runtimes \cup {None}]
        /\ apc' \in [Admins -> {"idle", "opened", "swapped"}]
        /\ pool' \in [Runtimes -> {"open", "closed"}]
    BY <1>1 DEF IInv, TypeOK
  <2>3. QED  BY <1>1, <2>1, <2>2, CallTypesUntouched DEF TypeOK
<1>3. NoPoolLeaks'
  <2> SUFFICES ASSUME NEW r \in Runtimes, pool[r] = "open"
               PROVE  r = cur' \/ \E b \in Admins : mine'[b] = r \/ old'[b] = r
    BY <1>1 DEF NoPoolLeaks
  <2>1. r = cur \/ \E b \in Admins : mine[b] = r \/ old[b] = r
    BY DEF IInv, NoPoolLeaks
  <2>2. CASE r = cur
    BY <1>1, <2>2 DEF IInv, TypeOK
  <2>3. CASE \E b \in Admins : mine[b] = r
    BY <1>1, <2>3 DEF IInv, TypeOK
  <2>4. ASSUME NEW b \in Admins, old[b] = r PROVE r = cur' \/ \E d \in Admins : old'[d] = r
    <3>1. CASE b # a
      BY <1>1, <2>4, <3>1 DEF IInv, TypeOK
    <3>2. CASE b = a
      BY <2>4, <3>2, DbRuntimeAssumption DEF InitSwap, CloseSwap, IInv, PoolsInHand
    <3>3. QED  BY <3>1, <3>2
  <2>5. QED  BY <2>1, <2>2, <2>3, <2>4
<1>4. PoolsInHand'
  BY <1>1, DbRuntimeAssumption DEF IInv, TypeOK, PoolsInHand
<1>5. ASSUME NEW c \in Callers PROVE CallAt(c)'
  <2>1. Attempts(c)' = Attempts(c) /\ Due(c)' = Due(c)
    BY <1>1 DEF Attempts, Due
  <2>2. QED  BY <1>1, <2>1 DEF IInv, CallAt
<1>6. QED  BY <1>2, <1>3, <1>4, <1>5 DEF IInv

LEMMA ShutdownStep == ASSUME IInv, NEW a \in Admins, Shutdown(a) PROVE IInv'
<1>1. TypeOK'
  BY CallTypesUntouched DEF Shutdown, IInv, TypeOK, callVars
<1>2. NoPoolLeaks'
  BY DbRuntimeAssumption DEF Shutdown, IInv, TypeOK, NoPoolLeaks
<1>3. PoolsInHand'
  BY DbRuntimeAssumption DEF Shutdown, IInv, TypeOK, PoolsInHand
<1>4. QED  BY <1>1, <1>2, <1>3, CallsUntouched DEF IInv, Shutdown

-----------------------------------------------------------------------------
(* A call.  Of each step: the types of what it changes, and where it leaves  *)
(* the caller; nobody else's call and no pool is touched.                    *)
Own(c) ==
  /\ UNCHANGED adminVars
  /\ \A d \in Callers : d # c =>
       /\ pc'[d] = pc[d] /\ rt'[d] = rt[d] /\ kind'[d] = kind[d] /\ optIn'[d] = optIn[d]
       /\ tries'[d] = tries[d] /\ at'[d] = at[d] /\ rows'[d] = rows[d]
       /\ answer'[d] = answer[d] /\ applied'[d] = applied[d] /\ overlapped'[d] = overlapped[d]

CallTypes ==
  /\ pc \in [Callers -> {"idle", "admission", "running", "conn", "backoff", "answered"}]
  /\ rt \in [Callers -> Runtimes \cup {None}]
  /\ kind \in [Callers -> Kinds]
  /\ optIn \in [Callers -> BOOLEAN]
  /\ tries \in [Callers -> Nat] /\ at \in [Callers -> Nat] /\ rows \in [Callers -> Nat]
  /\ answer \in [Callers -> {"none", "ok", "error", "refused"}]
  /\ applied \in [Callers -> Nat]
  /\ overlapped \in [Callers -> BOOLEAN]

LEMMA OwnStep ==
  ASSUME IInv, NEW c \in Callers, Own(c), CallTypes', CallAt(c)',
         tries'[c] \in 0 .. Attempts(c)', at'[c] \in 0 .. Due(c)'
  PROVE  IInv'
<1>1. ASSUME NEW d \in Callers, d # c PROVE Attempts(d)' = Attempts(d) /\ Due(d)' = Due(d)
  BY <1>1 DEF Own, Attempts, Due
<1>2. ASSUME NEW d \in Callers PROVE CallAt(d)'
  <2>1. CASE d # c
    BY <1>1, <2>1 DEF Own, adminVars, IInv, CallAt
  <2>2. QED  BY <2>1
<1>3. ASSUME NEW d \in Callers PROVE tries'[d] \in 0 .. Attempts(d)' /\ at'[d] \in 0 .. Due(d)'
  <2>1. CASE d # c
    BY <1>1, <2>1 DEF Own, IInv, TypeOK
  <2>2. QED  BY <2>1
<1>4. TypeOK'
  BY <1>3 DEF Own, adminVars, IInv, TypeOK, CallTypes
<1>5. NoPoolLeaks' /\ PoolsInHand'
  BY DEF Own, adminVars, IInv, NoPoolLeaks, PoolsInHand
<1>6. QED  BY <1>2, <1>4, <1>5 DEF IInv

LEMMA BeginStep ==
  ASSUME IInv, NEW c \in Callers, NEW k \in Kinds, NEW o \in BOOLEAN, Begin(c, k, o)
  PROVE  IInv'
<1>1. Own(c)
  BY DEF Begin, Own, IInv, TypeOK
<1>2. CallTypes'
  BY DEF Begin, CallTypes, IInv, TypeOK
<1>3. /\ pc'[c] = "admission" /\ rt'[c] = cur /\ cur' = cur /\ cur \in Runtimes
      /\ tries'[c] = 0 /\ applied'[c] = 0 /\ at'[c] = 0
      /\ answer'[c] = "none"
  BY DEF Begin, adminVars, IInv, TypeOK, CallAt
<1>4. CallAt(c)'
  BY <1>3 DEF CallAt
<1>5. tries'[c] \in 0 .. Attempts(c)' /\ at'[c] \in 0 .. Due(c)'
  BY <1>3, ZeroInRange
<1>6. QED  BY <1>1, <1>2, <1>4, <1>5, OwnStep

(* In every other step of a call its kind and its option stay what they are. *)
LEMMA SameCall ==
  ASSUME NEW c \in Callers, UNCHANGED <<kind, optIn>>
  PROVE  Attempts(c)' = Attempts(c) /\ Due(c)' = Due(c)
BY DEF Attempts, Due

LEMMA RefusedStep == ASSUME IInv, NEW c \in Callers, Refused(c) PROVE IInv'
<1>1. Own(c)
  BY DEF Refused, Answer, Own, IInv, TypeOK
<1>2. CallTypes'
  BY DEF Refused, Answer, CallTypes, IInv, TypeOK
<1>3. Attempts(c)' = Attempts(c) /\ Due(c)' = Due(c)
  BY SameCall DEF Refused, Answer
<1>4. CallAt(c)'
  BY <1>3 DEF Refused, Answer, adminVars, IInv, TypeOK, CallAt
<1>5. tries'[c] \in 0 .. Attempts(c)' /\ at'[c] \in 0 .. Due(c)'
  BY <1>3 DEF Refused, IInv, TypeOK
<1>6. QED  BY <1>1, <1>2, <1>4, <1>5, OwnStep

LEMMA AttemptStep == ASSUME IInv, NEW c \in Callers, Attempt(c) PROVE IInv'
<1>1. Own(c)
  BY DEF Attempt, Own, IInv, TypeOK
<1>2. CallTypes'
  BY DEF Attempt, CallTypes, IInv, TypeOK
<1>3. Attempts(c)' = Attempts(c) /\ Due(c)' = Due(c)
  BY SameCall DEF Attempt
<1>4. CallAt(c)'
  BY <1>3 DEF Attempt, adminVars, IInv, TypeOK, CallAt
<1>5. tries'[c] \in 0 .. Attempts(c)' /\ at'[c] \in 0 .. Due(c)'
  <2>1. tries[c] \in Nat /\ tries[c] < Attempts(c)
    BY AttemptsFact DEF Attempt, IInv, TypeOK, CallAt
  <2>2. tries'[c] = tries[c] + 1 /\ at'[c] = 0
    BY DEF Attempt, IInv, TypeOK
  <2>3. QED  BY <1>3, <2>1, <2>2, AttemptsFact, DueFact
<1>6. QED  BY <1>1, <1>2, <1>4, <1>5, OwnStep

LEMMA TakeConnStep == ASSUME IInv, NEW c \in Callers, TakeConn(c) PROVE IInv'
<1>1. Own(c)
  BY DEF TakeConn, Own, IInv, TypeOK
<1>2. CallTypes'
  BY DEF TakeConn, CallTypes, IInv, TypeOK
<1>3. Attempts(c)' = Attempts(c) /\ Due(c)' = Due(c)
  BY SameCall DEF TakeConn
<1>4. CallAt(c)'
  BY <1>3 DEF TakeConn, adminVars, IInv, TypeOK, CallAt
<1>5. tries'[c] \in 0 .. Attempts(c)' /\ at'[c] \in 0 .. Due(c)'
  BY <1>3 DEF TakeConn, IInv, TypeOK
<1>6. QED  BY <1>1, <1>2, <1>4, <1>5, OwnStep

LEMMA BackoffCancelledStep == ASSUME IInv, NEW c \in Callers, BackoffCancelled(c) PROVE IInv'
<1>1. Own(c)
  BY DEF BackoffCancelled, Answer, Own, IInv, TypeOK
<1>2. CallTypes'
  BY DEF BackoffCancelled, Answer, CallTypes, IInv, TypeOK
<1>3. Attempts(c)' = Attempts(c) /\ Due(c)' = Due(c)
  BY SameCall DEF BackoffCancelled, Answer
<1>4. CallAt(c)'
  BY <1>3 DEF BackoffCancelled, Answer, adminVars, IInv, TypeOK, CallAt
<1>5. tries'[c] \in 0 .. Attempts(c)' /\ at'[c] \in 0 .. Due(c)'
  BY <1>3 DEF BackoffCancelled, IInv, TypeOK
<1>6. QED  BY <1>1, <1>2, <1>4, <1>5, OwnStep

LEMMA CommitStep == ASSUME IInv, NEW c \in Callers, Commit(c) PROVE IInv'
<1>1. Own(c)
  BY DEF Commit, Answer, Own, IInv, TypeOK
<1>2. CallTypes'
  BY DEF Commit, Answer, CallTypes, IInv, TypeOK
<1>3. Attempts(c)' = Attempts(c) /\ Due(c)' = Due(c)
  BY SameCall DEF Commit, Answer
<1>4. CallAt(c)'
  BY <1>3 DEF Commit, Answer, adminVars, IInv, TypeOK, CallAt
<1>5. tries'[c] \in 0 .. Attempts(c)' /\ at'[c] \in 0 .. Due(c)'
  BY <1>3 DEF Commit, IInv, TypeOK
<1>6. QED  BY <1>1, <1>2, <1>4, <1>5, OwnStep

LEMMA StatementStep == ASSUME IInv, NEW c \in Callers, Statement(c) PROVE IInv'
<1>1. Own(c)
  BY DEF Statement, Answer, Own, IInv, TypeOK
<1>2. CallTypes'
  BY DEF Statement, Answer, CallTypes, IInv, TypeOK
<1>3. Attempts(c)' = Attempts(c) /\ Due(c)' = Due(c)
  BY SameCall DEF Statement, Answer
<1>4. CallAt(c)'
  <2>1. at[c] \in Nat /\ rows[c] = at[c] /\ at'[c] = at[c] + 1 /\ rows'[c] = at'[c]
        /\ at[c] < Due(c) /\ applied[c] \in Nat /\ applied[c] < tries[c] /\ tries[c] \in Nat
    BY DEF Statement, IInv, TypeOK, CallAt
  <2>2. CASE kind[c] = "tx" \/ at[c] + 1 < Due(c)
    BY <1>3, <2>1, <2>2 DEF Statement, adminVars, IInv, TypeOK, CallAt
  <2>3. CASE ~(kind[c] = "tx" \/ at[c] + 1 < Due(c))
    <3>1. rows'[c] = Due(c)
      BY <2>1, <2>3, DueFact
    <3>2. applied'[c] = IF kind[c] = "write" THEN applied[c] + 1 ELSE applied[c]
      BY <2>3 DEF Statement, IInv, TypeOK
    <3>3. pc'[c] = "answered" /\ answer'[c] = "ok"
      BY <2>3 DEF Statement, Answer, IInv, TypeOK
    <3>4. kind[c] \in {"read", "write"}
      BY <2>3 DEF IInv, TypeOK, Kinds
    <3>5. UNCHANGED <<cur, rt, kind, tries, overlapped>>
      BY DEF Statement, adminVars
    <3>6. applied'[c] <= tries[c] /\ (kind[c] = "read" => applied'[c] = 0)
          /\ (kind[c] # "read" => applied'[c] >= 1)
      BY <2>1, <3>2, <3>4 DEF IInv, CallAt
    <3>7. rt[c] \in Runtimes /\ (~overlapped[c] => rt[c] = cur)
      BY DEF Statement, IInv, CallAt
    <3>8. QED  BY <1>3, <3>1, <3>3, <3>5, <3>6, <3>7 DEF CallAt
  <2>4. QED  BY <2>2, <2>3
<1>5. tries'[c] \in 0 .. Attempts(c)' /\ at'[c] \in 0 .. Due(c)'
  BY <1>3, DueFact DEF Statement, IInv, TypeOK
<1>6. QED  BY <1>1, <1>2, <1>4, <1>5, OwnStep

LEMMA FailsStep == ASSUME IInv, NEW c \in Callers, NEW e \in Errors, NEW lost \in BOOLEAN, Fails(c, e, lost) PROVE IInv'
<1>1. Own(c)
  BY DEF Fails, Fail, Answer, Own, IInv, TypeOK
<1>2. CallTypes'
  BY DEF Fails, Fail, Answer, CallTypes, IInv, TypeOK
<1>3. Attempts(c)' = Attempts(c) /\ Due(c)' = Due(c)
  BY SameCall DEF Fails, Fail, Answer
<1>4. CallAt(c)'
  <2>1. /\ applied[c] \in Nat /\ applied[c] < tries[c] /\ tries[c] \in Nat
        /\ rt[c] \in Runtimes /\ (~overlapped[c] => rt[c] = cur)
        /\ (kind[c] = "read" => applied[c] = 0) /\ answer[c] = "none"
    BY DEF Fails, IInv, TypeOK, CallAt
  <2>2. applied'[c] = (IF lost THEN applied[c] + 1 ELSE applied[c]) /\ (lost => kind[c] # "read")
    BY DEF Fails, IInv, TypeOK
  <2>3. applied'[c] <= tries[c] /\ (kind[c] = "read" => applied'[c] = 0)
    BY <2>1, <2>2
  <2>4. UNCHANGED <<cur, rt, kind, tries, overlapped>>
    BY DEF Fails, adminVars
  <2>5. \/ pc'[c] = "backoff" /\ answer'[c] = "none" /\ tries[c] < Attempts(c)
        \/ pc'[c] = "answered" /\ answer'[c] = "error"
    BY <2>1 DEF Fails, Fail, Answer, IInv, TypeOK
  <2>6. QED  BY <1>3, <2>1, <2>3, <2>4, <2>5 DEF CallAt
<1>5. tries'[c] \in 0 .. Attempts(c)' /\ at'[c] \in 0 .. Due(c)'
  BY <1>3 DEF Fails, IInv, TypeOK
<1>6. QED  BY <1>1, <1>2, <1>4, <1>5, OwnStep

LEMMA ReturnStep == ASSUME IInv, NEW c \in Callers, Return(c) PROVE IInv'
<1>1. Own(c)
  BY DEF Return, Own, IInv, TypeOK
<1>2. CallTypes'
  <2>1. optIn' \in [Callers -> BOOLEAN] /\ overlapped' \in [Callers -> BOOLEAN]
    BY DEF Return, IInv, TypeOK
  <2>2. QED  BY <2>1 DEF Return, CallTypes, IInv, TypeOK, Kinds
<1>3. /\ pc'[c] = "idle" /\ tries'[c] = 0 /\ at'[c] = 0 /\ applied'[c] = 0
      /\ answer'[c] = "none"
  BY DEF Return, IInv, TypeOK
<1>4. CallAt(c)'
  BY <1>3 DEF CallAt
<1>5. tries'[c] \in 0 .. Attempts(c)' /\ at'[c] \in 0 .. Due(c)'
  BY <1>3, ZeroInRange
<1>6. QED  BY <1>1, <1>2, <1>4, <1>5, OwnStep

LEMMA NextIInv == IInv /\ [Next]_vars => IInv'
<1> SUFFICES ASSUME IInv, [Next]_vars PROVE IInv'
  OBVIOUS
<1>1. CASE UNCHANGED vars
  <2>1. \A c \in Callers : CallAt(c)'
    BY <1>1, CallsUntouched DEF vars, adminVars
  <2>2. TypeOK'
    BY <1>1, CallTypesUntouched DEF vars, adminVars, callVars, IInv, TypeOK
  <2>3. NoPoolLeaks' /\ PoolsInHand'
    BY <1>1 DEF vars, adminVars, IInv, NoPoolLeaks, PoolsInHand
  <2>4. QED  BY <2>1, <2>2, <2>3 DEF IInv
<1>2. QED
  BY <1>1, InitOpenStep, SwapStep, ShutdownStep, BeginStep, FailsStep, RefusedStep, AttemptStep,
     TakeConnStep, StatementStep, CommitStep, BackoffCancelledStep, ReturnStep DEF Next

LEMMA Invariance == Spec => []IInv
BY InitIInv, NextIInv, PTL DEF Spec

-----------------------------------------------------------------------------
(* Types, with the attempts bounded by the retry rule and the statements by  *)
(* what the call has to do.                                                  *)
THEOREM TypeCorrect == Spec => []TypeOK
<1>1. IInv => TypeOK
  BY DEF IInv
<1>2. QED  BY <1>1, Invariance, PTL

(* Whatever Init and Close overlap with: no pool leaks, and a call that none *)
(* of them overlapped has an open pool.                                      *)
THEOREM PoolLifetimeHolds == Spec => []PoolLifetime
<1>1. IInv => PoolLifetime
  <2> SUFFICES ASSUME IInv PROVE PoolLifetime
    OBVIOUS
  <2>1. PoolOpenUnlessReplaced
    BY DbRuntimeAssumption DEF IInv, CallAt, PoolsInHand, PoolOpenUnlessReplaced
  <2>2. QED  BY <2>1 DEF IInv, PoolLifetime
<1>2. QED  BY <1>1, Invariance, PTL

(* A write that did not opt in has one attempt, and an attempt is applied at *)
(* most once.                                                                *)
THEOREM AppliedOnceHolds == Spec => []AppliedOnce
<1>1. IInv => AppliedOnce
  <2> SUFFICES ASSUME IInv, NEW c \in Callers
               PROVE  /\ kind[c] = "read" => applied[c] = 0
                      /\ ~optIn[c] => applied[c] <= 1
    BY DEF AppliedOnce
  <2>1. kind[c] = "read" => applied[c] = 0
    BY DEF IInv, CallAt
  <2>2. ASSUME ~optIn[c], kind[c] # "read" PROVE applied[c] <= 1
    <3>1. Attempts(c) = 1
      BY <2>2 DEF Attempts
    <3>2. QED  BY <3>1 DEF IInv, TypeOK, CallAt
  <2>3. QED  BY <2>1, <2>2
<1>2. QED  BY <1>1, Invariance, PTL

(* What a call answers is what happened. *)
THEOREM AnswerIsTrueHolds == Spec => []AnswerIsTrue
<1>1. IInv => AnswerIsTrue
  BY DEF IInv, CallAt, AnswerIsTrue
<1>2. QED  BY <1>1, Invariance, PTL

(* Beside the loader and the bulk writes the runtime behaves as it does      *)
(* alone, so that what was proved of it holds of Db.                         *)
THEOREM RuntimeInDb == DbSpec => Spec /\ [](PoolLifetime /\ AppliedOnce /\ AnswerIsTrue)
<1>1. DbInit => Init
  BY DEF DbInit
<1>2. ASSUME [DbNext]_dbVars PROVE [Next]_vars
  <2>1. UNCHANGED dbVars => UNCHANGED vars
    BY DEF dbVars
  <2>2. QED  BY <1>2, <2>1 DEF DbNext, Runtime, Loading, Bulk
<1>3. DbSpec => Spec
  BY <1>1, <1>2, PTL DEF DbSpec, Spec
<1>4. QED  BY <1>3, PoolLifetimeHolds, AppliedOnceHolds, AnswerIsTrueHolds, PTL

-----------------------------------------------------------------------------
(* The loader.  A template in execution is a renderer's own, with its own    *)
(* functions, or it is shared and its functions bind nothing; so the         *)
(* arguments of a renderer are the values of the calls it has executed, laid *)
(* end to end, and each call's marks are where its values begin.             *)
Shared == Renderers \X {"parsed"}

LoaderTypes ==
  /\ renderAt \in [Renderers -> {"lookup", "parse", "store", "ready", "execute", "done"}]
  /\ file \in [Renderers -> Files] /\ data \in [Renderers -> Datas]
  /\ mode \in [Renderers -> {"render", "load", "preload"}]
  /\ cached \in [Files -> Shared \cup {None}]
  /\ functions \in [R!Instances -> Renderers \cup {None}]
  /\ executes \in [Renderers -> R!Instances \cup {None}]
  /\ args \in [Renderers -> Seq(Bindables)]
  /\ DOMAIN text = Renderers /\ DOMAIN calls = Renderers /\ DOMAIN failed = Renderers

SharedBindsNothing == \A g \in Renderers : functions[<<g, "parsed">>] = None

TemplateInHand ==
  \A g \in Renderers :
    /\ renderAt[g] = "ready" => executes[g] \in Shared
    /\ renderAt[g] = "execute" /\ mode[g] = "render" => executes[g] = <<g, "cloned">> /\ functions[<<g, "cloned">>] = g
    /\ renderAt[g] = "execute" /\ mode[g] # "render" => executes[g] \in Shared

(* A list of whatever elements. *)
IsList(s) == \E S : s \in Seq(S)

CallOf(g, i) == Calls(file[g])[i]

(* The i-th piece of a render: its marks and values follow those before it. *)
PieceBinds(g, i) ==
  /\ R!Places(g, i - 1) \in Nat
  /\ R!Places(g, i) = R!Places(g, i - 1) + Len(R!Meant(CallOf(g, i), data[g]))
  /\ \A k \in DOMAIN text[g][i].phs : text[g][i].phs[k] \in {0, R!Places(g, i - 1) + k}
  /\ R!Places(g, i) <= Len(args[g])
  /\ \A k \in 1 .. Len(R!Meant(CallOf(g, i), data[g])) :
       args[g][R!Places(g, i - 1) + k] = R!Meant(CallOf(g, i), data[g])[k]

PieceLeaves(g, i) ==
  /\ CallOf(g, i)[1] \notin {"param", "in"}
  /\ \A k \in DOMAIN text[g][i].phs : text[g][i].phs[k] = 0

Laid(g) ==
  /\ IsList(text[g]) /\ calls[g] = Len(text[g]) /\ calls[g] \in Nat
  /\ calls[g] <= Len(Calls(file[g]))
  /\ R!Places(g, calls[g]) \in Nat
  /\ mode[g] = "render" =>
       R!Places(g, calls[g]) = Len(args[g]) /\ \A i \in 1 .. calls[g] : PieceBinds(g, i)
  /\ mode[g] # "render" =>
       args[g] = <<>> /\ \A i \in 1 .. calls[g] : PieceLeaves(g, i)

LoaderInv == LoaderTypes /\ SharedBindsNothing /\ TemplateInHand /\ \A g \in Renderers : Laid(g)

-----------------------------------------------------------------------------
(* Appending to a list of whatever elements. *)
LEMMA AppendToList ==
  ASSUME NEW s, IsList(s), NEW e
  PROVE  /\ IsList(Append(s, e)) /\ Len(Append(s, e)) = Len(s) + 1 /\ Append(s, e)[Len(s) + 1] = e
         /\ Len(s) \in Nat /\ \A i \in 1 .. Len(s) : Append(s, e)[i] = s[i]
<1>1. PICK S : s \in Seq(S)
  BY DEF IsList
<1>2. PICK T : T = S \cup {e}
  OBVIOUS
<1>3. s \in Seq(T) /\ e \in T
  BY <1>1, <1>2
<1>4. Append(s, e) \in Seq(T)
  BY <1>3
<1>5. QED  BY <1>3, <1>4 DEF IsList

LEMMA EmptyList == IsList(<<>>) /\ Len(<<>>) = 0
<1>1. <<>> \in Seq({})
  OBVIOUS
<1>2. QED  BY <1>1 DEF IsList

(* What a call that is not refused emits is what it means, bound or not; and *)
(* without a binder, param and in are refused.                               *)
LEMMA MeantIsList ==
  ASSUME NEW call \in FunctionNames \X STRING, NEW d \in Datas
  PROVE  R!Meant(call, d) \in Seq(Bindables)
<1>1. d.one \in Bindables /\ d.list \in Seq(Bindables)
  BY LoaderAssumption
<1>2. PICK cols : cols = SortCols(DOMAIN d.map)
  OBVIOUS
<1>3. cols \in Seq(DOMAIN d.map) /\ \A c \in DOMAIN d.map : d.map[c] \in Bindables
  BY <1>2, LoaderAssumption
<1>4. [k \in DOMAIN cols |-> d.map[cols[k]]] \in Seq(Bindables)
  BY <1>3
<1>5. <<d.one>> \in Seq(Bindables) /\ <<>> \in Seq(Bindables)
  BY <1>1
<1>6. QED  BY <1>1, <1>2, <1>4, <1>5 DEF R!Meant

Emits(out, vals) == out = R!Refuse \/ \E what, cols : out = R!Emit(what, cols, vals)

LEMMA EmitsValues ==
  ASSUME NEW out, NEW vals, Emits(out, vals), ~out.err
  PROVE  out.vals = vals
<1>1. R!Refuse.err
  BY DEF R!Refuse
<1>2. out # R!Refuse
  BY <1>1
<1>3. PICK what, cols : out = R!Emit(what, cols, vals)
  BY <1>2 DEF Emits
<1>4. QED  BY <1>3 DEF R!Emit

LEMMA InclusionEmits ==
  ASSUME NEW fn, NEW col, NEW vals
  PROVE  Emits(R!Inclusion(fn, col, vals), vals)
<1>1. CASE col \notin Identifiers
  BY <1>1 DEF R!Inclusion, Emits
<1>2. CASE col \in Identifiers /\ vals = <<>>
  BY <1>2 DEF R!Inclusion, Emits
<1>3. CASE col \in Identifiers /\ vals # <<>>
  BY <1>3 DEF R!Inclusion, Emits
<1>4. QED  BY <1>1, <1>2, <1>3

LEMMA EvaluateEmits ==
  ASSUME NEW call \in FunctionNames \X STRING, NEW d \in Datas, NEW bound \in BOOLEAN
  PROVE  /\ Emits(R!Evaluate(call, d, bound), R!Meant(call, d))
         /\ call[1] \in {"param", "in"} => bound \/ R!Evaluate(call, d, bound) = R!Refuse
<1>1. call[1] \in FunctionNames
  OBVIOUS
<1>2. CASE call[1] \in {"inList", "notInList"}
  <2>1. R!Evaluate(call, d, bound) = R!Inclusion(call[1], call[2], d.list)
    BY <1>2 DEF R!Evaluate
  <2>2. R!Meant(call, d) = d.list
    BY <1>2 DEF R!Meant
  <2>3. QED  BY <1>2, <2>1, <2>2, InclusionEmits
<1>3. CASE call[1] = "setList"
  <2>1. R!Evaluate(call, d, bound) = R!Assignments(d.map)
    BY <1>3 DEF R!Evaluate
  <2>2. PICK cols : cols = SortCols(DOMAIN d.map)
    OBVIOUS
  <2>3. PICK vals : vals = [k \in DOMAIN cols |-> d.map[cols[k]]]
    OBVIOUS
  <2>4. R!Meant(call, d) = vals
    BY <1>3, <2>2, <2>3 DEF R!Meant
  <2>5. R!Assignments(d.map) = R!Refuse \/ \E what : R!Assignments(d.map) = R!Emit(what, cols, vals)
    BY <2>2, <2>3 DEF R!Assignments
  <2>6. QED  BY <1>3, <2>1, <2>4, <2>5 DEF Emits
<1>4. CASE call[1] \in {"spOutDecls", "spOutVals"}
  <2>1. R!Evaluate(call, d, bound) = R!OutParams(call[1], d)
    BY <1>4 DEF R!Evaluate
  <2>2. R!Meant(call, d) = <<>>
    BY <1>4 DEF R!Meant
  <2>3. R!OutParams(call[1], d) = R!Refuse \/ \E cols : R!OutParams(call[1], d) = R!Emit(call[1], cols, <<>>)
    BY Zenon DEF R!OutParams
  <2>4. QED  BY <1>4, <2>1, <2>2, <2>3 DEF Emits
<1>5. CASE call[1] = "ident"
  <2>1. R!Evaluate(call, d, bound) = IF call[2] \in Identifiers THEN R!Emit("ident", <<call[2]>>, <<>>) ELSE R!Refuse
    BY <1>5 DEF R!Evaluate
  <2>2. R!Meant(call, d) = <<>>
    BY <1>5 DEF R!Meant
  <2>3. QED  BY <1>5, <2>1, <2>2 DEF Emits
<1>6. CASE call[1] = "in"
  <2>1. R!Meant(call, d) = d.list
    BY <1>6 DEF R!Meant
  <2>2. CASE ~bound \/ d.list = <<>>
    <3>1. R!Evaluate(call, d, bound) = R!Refuse
      BY <1>6, <2>2 DEF R!Evaluate
    <3>2. QED  BY <3>1 DEF Emits
  <2>3. CASE bound /\ d.list # <<>>
    <3>1. R!Evaluate(call, d, bound) = R!Emit("list", <<>>, d.list)
      BY <1>6, <2>3 DEF R!Evaluate
    <3>2. QED  BY <2>1, <2>3, <3>1 DEF Emits
  <2>4. QED  BY <2>2, <2>3
<1>7. CASE call[1] = "param"
  <2>1. R!Meant(call, d) = <<d.one>>
    BY <1>7 DEF R!Meant
  <2>2. CASE ~bound
    <3>1. R!Evaluate(call, d, bound) = R!Refuse
      BY <1>7, <2>2 DEF R!Evaluate
    <3>2. QED  BY <3>1 DEF Emits
  <2>3. CASE bound
    <3>1. R!Evaluate(call, d, bound) = R!Emit("value", <<>>, <<d.one>>)
      BY <1>7, <2>3 DEF R!Evaluate
    <3>2. QED  BY <2>1, <2>3, <3>1 DEF Emits
  <2>4. QED  BY <2>2, <2>3
<1>8. QED  BY <1>1, <1>2, <1>3, <1>4, <1>5, <1>6, <1>7 DEF FunctionNames

-----------------------------------------------------------------------------
LEMMA LoaderInit == R!Init => LoaderInv
<1> SUFFICES ASSUME R!Init PROVE LoaderInv
  OBVIOUS
<1>1. LoaderTypes
  BY DEF R!Init, LoaderTypes, Shared
<1>2. SharedBindsNothing /\ TemplateInHand
  BY DEF R!Init, SharedBindsNothing, TemplateInHand, R!Instances
<1>3. ASSUME NEW g \in Renderers PROVE Laid(g)
  <2>1. text[g] = <<>> /\ calls[g] = 0 /\ args[g] = <<>>
    BY DEF R!Init
  <2>2. Calls(file[g]) \in Seq(FunctionNames \X STRING)
    BY <1>1, LoaderAssumption DEF LoaderTypes
  <2>3. R!Places(g, 0) = 0 /\ Len(args[g]) = 0 /\ 0 <= Len(Calls(file[g]))
    BY <2>1, <2>2, EmptyList DEF R!Places
  <2>4. 1 .. 0 = {}
    OBVIOUS
  <2>5. QED  BY <2>1, <2>3, <2>4, EmptyList DEF Laid
<1>4. QED  BY <1>1, <1>2, <1>3 DEF LoaderInv

(* What nobody has touched stays laid. *)
LEMMA LaidKept ==
  ASSUME NEW g \in Renderers, Laid(g), text'[g] = text[g], calls'[g] = calls[g], args'[g] = args[g],
         UNCHANGED <<file, data, mode>>
  PROVE  Laid(g)'
<1>1. ASSUME NEW i PROVE R!Places(g, i)' = R!Places(g, i) /\ CallOf(g, i)' = CallOf(g, i)
  BY DEF R!Places, CallOf
<1>2. data'[g] = data[g] /\ file'[g] = file[g] /\ mode'[g] = mode[g]
  OBVIOUS
<1>3. ASSUME NEW i, PieceBinds(g, i) PROVE PieceBinds(g, i)'
  <2>1. R!Places(g, i - 1)' = R!Places(g, i - 1) /\ R!Places(g, i)' = R!Places(g, i)
    BY <1>1
  <2>2. R!Meant(CallOf(g, i), data[g])' = R!Meant(CallOf(g, i), data[g])
    BY <1>1, <1>2 DEF R!Meant
  <2>3. QED  BY <1>3, <2>1, <2>2 DEF PieceBinds
<1>4. ASSUME NEW i, PieceLeaves(g, i) PROVE PieceLeaves(g, i)'
  BY <1>1, <1>4 DEF PieceLeaves
<1>5. R!Places(g, calls[g])' = R!Places(g, calls[g])
  BY DEF R!Places
<1>6. QED  BY <1>2, <1>3, <1>4, <1>5 DEF Laid

LEMMA AllLaid ==
  ASSUME LoaderInv, UNCHANGED <<text, calls, args, file, data, mode>>
  PROVE  \A g \in Renderers : Laid(g)'
BY LaidKept DEF LoaderInv

LEMMA LookupStep == ASSUME LoaderInv, NEW g \in Renderers, R!Lookup(g) PROVE LoaderInv'
<1>1. UNCHANGED <<cached, functions, file, data, mode, calls, text, args, failed>>
  BY DEF R!Lookup, R!asked
<1>2. CASE renderAt' = [renderAt EXCEPT ![g] = "parse"] /\ UNCHANGED executes
  <2>1. LoaderTypes' /\ SharedBindsNothing' /\ TemplateInHand'
    BY <1>1, <1>2 DEF LoaderInv, LoaderTypes, SharedBindsNothing, TemplateInHand
  <2>2. QED  BY <2>1, <1>1, AllLaid DEF LoaderInv
<1>3. CASE /\ cached[file[g]] # None /\ renderAt' = [renderAt EXCEPT ![g] = "ready"]
           /\ executes' = [executes EXCEPT ![g] = cached[file[g]]]
  <2>1. cached[file[g]] \in Shared /\ cached[file[g]] \in R!Instances
    BY <1>3 DEF LoaderInv, LoaderTypes, Shared, R!Instances
  <2>2. LoaderTypes' /\ SharedBindsNothing' /\ TemplateInHand'
    BY <1>1, <1>3, <2>1 DEF LoaderInv, LoaderTypes, SharedBindsNothing, TemplateInHand
  <2>3. QED  BY <2>2, <1>1, AllLaid DEF LoaderInv
<1>4. QED  BY <1>2, <1>3 DEF R!Lookup, R!Goto

LEMMA ParseStep == ASSUME LoaderInv, NEW g \in Renderers, R!Parse(g) PROVE LoaderInv'
<1>1. /\ renderAt' = [renderAt EXCEPT ![g] = "store"]
      /\ UNCHANGED <<cached, functions, file, data, mode, executes, calls, text, args, failed>>
  BY DEF R!Parse, R!asked, R!Goto
<1>2. LoaderTypes' /\ SharedBindsNothing' /\ TemplateInHand'
  BY <1>1 DEF LoaderInv, LoaderTypes, SharedBindsNothing, TemplateInHand
<1>3. QED  BY <1>1, <1>2, AllLaid DEF LoaderInv

LEMMA EndStep ==
  ASSUME LoaderInv, NEW g \in Renderers, renderAt' = [renderAt EXCEPT ![g] = "done"], DOMAIN failed' = Renderers,
         UNCHANGED <<cached, functions, file, data, mode, executes, calls, text, args>>
  PROVE  LoaderInv'
<1>1. LoaderTypes' /\ SharedBindsNothing' /\ TemplateInHand'
  BY DEF LoaderInv, LoaderTypes, SharedBindsNothing, TemplateInHand
<1>2. QED  BY <1>1, AllLaid DEF LoaderInv

LEMMA ParseFailsStep == ASSUME LoaderInv, NEW g \in Renderers, R!ParseFails(g) PROVE LoaderInv'
<1>1. DOMAIN failed' = Renderers
  BY DEF R!ParseFails, LoaderInv, LoaderTypes
<1>2. QED  BY <1>1, EndStep DEF R!ParseFails, R!Goto, R!asked

LEMMA LoaderReturnStep == ASSUME LoaderInv, NEW g \in Renderers, R!Return(g) PROVE LoaderInv'
<1>1. DOMAIN failed' = Renderers
  BY DEF R!Return, LoaderInv, LoaderTypes
<1>2. QED  BY <1>1, EndStep DEF R!Return, R!Goto, R!asked

LEMMA StoreStep == ASSUME LoaderInv, NEW g \in Renderers, R!Store(g) PROVE LoaderInv'
<1>1. PICK shared : shared = IF cached[file[g]] = None THEN <<g, "parsed">> ELSE cached[file[g]]
  OBVIOUS
<1>2. /\ cached' = [cached EXCEPT ![file[g]] = shared] /\ executes' = [executes EXCEPT ![g] = shared]
      /\ renderAt' = [renderAt EXCEPT ![g] = "ready"]
      /\ UNCHANGED <<functions, file, data, mode, calls, text, args, failed>>
  BY <1>1 DEF R!Store, R!asked, R!Goto
<1>3. shared \in Shared /\ shared \in R!Instances
  BY <1>1 DEF LoaderInv, LoaderTypes, Shared, R!Instances
<1>4. LoaderTypes' /\ SharedBindsNothing' /\ TemplateInHand'
  BY <1>2, <1>3 DEF LoaderInv, LoaderTypes, SharedBindsNothing, TemplateInHand
<1>5. QED  BY <1>2, <1>4, AllLaid DEF LoaderInv

LEMMA LoaderBeginStep == ASSUME LoaderInv, NEW g \in Renderers, R!Begin(g) PROVE LoaderInv'
<1>1. /\ renderAt[g] = "ready" /\ renderAt' = [renderAt EXCEPT ![g] = "execute"]
      /\ UNCHANGED <<cached, file, data, mode, calls, text, args, failed>>
  BY DEF R!Begin, R!asked, R!Goto
<1>2. CASE mode[g] # "render" /\ UNCHANGED <<executes, functions>>
  <2>1. LoaderTypes' /\ SharedBindsNothing' /\ TemplateInHand'
    BY <1>1, <1>2 DEF LoaderInv, LoaderTypes, SharedBindsNothing, TemplateInHand
  <2>2. QED  BY <2>1, <1>1, AllLaid DEF LoaderInv
<1>3. CASE /\ mode[g] = "render" /\ executes' = [executes EXCEPT ![g] = <<g, "cloned">>]
           /\ functions' = [functions EXCEPT ![<<g, "cloned">>] = g]
  <2>1. PICK own : own = <<g, "cloned">>
    OBVIOUS
  <2>2. own \in R!Instances /\ \A q \in Renderers : <<q, "parsed">> # own /\ <<q, "parsed">> \in R!Instances
    BY <2>1 DEF R!Instances
  <2>3. LoaderTypes'
    BY <1>1, <1>3, <2>1, <2>2 DEF LoaderInv, LoaderTypes
  <2>4. /\ functions'[own] = g /\ executes'[g] = own
        /\ \A i \in R!Instances : i # own => functions'[i] = functions[i]
    BY <1>3, <2>1, <2>2 DEF LoaderInv, LoaderTypes
  <2>5. SharedBindsNothing'
    BY <2>2, <2>4 DEF LoaderInv, SharedBindsNothing
  <2>6. TemplateInHand'
    <3>1. ASSUME NEW q \in Renderers, q # g PROVE functions'[<<q, "cloned">>] = functions[<<q, "cloned">>]
      <4>1. <<q, "cloned">> \in R!Instances /\ <<q, "cloned">> # own
        BY <3>1, <2>1 DEF R!Instances
      <4>2. QED  BY <4>1, <2>4
    <3>3. functions'[<<g, "cloned">>] = g /\ executes'[g] = <<g, "cloned">> /\ mode'[g] = "render"
      BY <2>1, <2>4, <1>1, <1>3
    <3>4. \A q \in Renderers : q # g => executes'[q] = executes[q] /\ renderAt'[q] = renderAt[q] /\ mode'[q] = mode[q]
      BY <1>1, <1>3 DEF LoaderInv, LoaderTypes
    <3>5. renderAt'[g] = "execute"
      BY <1>1 DEF LoaderInv, LoaderTypes
    <3>6. QED  BY <3>1, <3>3, <3>4, <3>5 DEF LoaderInv, TemplateInHand
  <2>7. QED  BY <1>1, <2>3, <2>5, <2>6, AllLaid DEF LoaderInv
<1>4. QED  BY <1>2, <1>3 DEF R!Begin

(* A piece before the last is what it was, whatever follows it. *)
LEMMA EarlierPiece ==
  ASSUME NEW g \in Renderers, IsList(text[g]), NEW i \in 1 .. Len(text[g]), NEW e, text'[g] = Append(text[g], e)
  PROVE  text'[g][i] = text[g][i] /\ R!Places(g, i)' = R!Places(g, i)
<1>1. text'[g][i] = text[g][i]
  BY AppendToList
<1>2. QED  BY <1>1 DEF R!Places

LEMMA EarlierPlaces ==
  ASSUME NEW g \in Renderers, IsList(text[g]), NEW i \in 0 .. Len(text[g]), NEW e, text'[g] = Append(text[g], e)
  PROVE  R!Places(g, i)' = R!Places(g, i)
<1>1. Len(text[g]) \in Nat
  BY AppendToList
<1>2. CASE i = 0
  BY <1>2 DEF R!Places
<1>3. CASE i # 0
  <2>1. i \in 1 .. Len(text[g])
    BY <1>1, <1>3
  <2>2. QED  BY <2>1, EarlierPiece
<1>4. QED  BY <1>2, <1>3

(* The values go behind the arguments there are, marked by their places. *)
LEMMA RenderLaid ==
  ASSUME LoaderInv, NEW g \in Renderers, mode[g] = "render", calls[g] < Len(Calls(file[g])),
         NEW vals, vals = R!Meant(CallOf(g, calls[g] + 1), data[g]), vals \in Seq(Bindables),
         NEW e, e.upto = R!Places(g, calls[g]) + Len(vals),
         \A k \in DOMAIN e.phs : e.phs[k] \in {0, Len(args[g]) + k},
         text'[g] = Append(text[g], e), calls'[g] = calls[g] + 1, args'[g] = args[g] \o vals,
         UNCHANGED <<file, data, mode>>
  PROVE  Laid(g)'
<1>1. PICK n : n = calls[g]
  OBVIOUS
<1>2. PICK a : a = args[g]
  OBVIOUS
<1>3. PICK new : new = a \o vals
  OBVIOUS
<1>4. a \in Seq(Bindables) /\ args'[g] = new
  BY <1>2, <1>3 DEF LoaderInv, LoaderTypes
<1>5. PICK L \in Nat : L = Len(a)
  BY <1>4
<1>6. PICK V \in Nat : V = Len(vals)
  OBVIOUS
<1>7. /\ n \in Nat /\ IsList(text[g]) /\ Len(text[g]) = n
      /\ R!Places(g, n) = L /\ \A i \in 1 .. n : PieceBinds(g, i)
  BY <1>1, <1>2, <1>5 DEF LoaderInv, Laid
<1>8. /\ new \in Seq(Bindables) /\ Len(new) = L + V
      /\ \A j \in 1 .. L + V : new[j] = IF j <= L THEN a[j] ELSE vals[j - L]
  BY <1>3, <1>4, <1>5, <1>6, ConcatProperties
<1>9. IsList(text'[g]) /\ Len(text'[g]) = n + 1 /\ text'[g][n + 1] = e
  BY <1>7, AppendToList
<1>10. /\ R!Places(g, n)' = L
       /\ \A i \in 1 .. n : /\ R!Places(g, i)' = R!Places(g, i) /\ R!Places(g, i - 1)' = R!Places(g, i - 1)
                            /\ text'[g][i] = text[g][i]
  <2>1. ASSUME NEW i \in 0 .. n PROVE R!Places(g, i)' = R!Places(g, i)
    BY <1>7, EarlierPlaces
  <2>2. n \in 0 .. n /\ \A i \in 1 .. n : i \in 0 .. n /\ i - 1 \in 0 .. n
    BY <1>7
  <2>3. ASSUME NEW i \in 1 .. n PROVE text'[g][i] = text[g][i]
    BY <1>7, EarlierPiece
  <2>4. QED  BY <2>1, <2>2, <2>3, <1>7
<1>11. R!Places(g, n + 1)' = L + V
  <2>1. e.upto = L + V
    BY <1>1, <1>6, <1>7
  <2>2. n + 1 # 0
    BY <1>7
  <2>3. QED  BY <2>1, <2>2, <1>9 DEF R!Places
<1>12. ASSUME NEW i \in 1 .. n PROVE PieceBinds(g, i)'
  <2>1. /\ text'[g][i] = text[g][i] /\ R!Places(g, i)' = R!Places(g, i) /\ R!Places(g, i - 1)' = R!Places(g, i - 1)
    BY <1>10
  <2>2. CallOf(g, i)' = CallOf(g, i) /\ data'[g] = data[g]
    BY DEF CallOf
  <2>3. PICK m : m = R!Meant(CallOf(g, i), data[g])
    OBVIOUS
  <2>4. R!Meant(CallOf(g, i), data[g])' = m
    BY <2>2, <2>3 DEF R!Meant
  <2>5. PICK p : p = R!Places(g, i - 1)
    OBVIOUS
  <2>6. PICK q : q = R!Places(g, i)
    OBVIOUS
  <2>7. Len(m) \in Nat
    <3>1. n <= Len(Calls(file[g])) /\ Calls(file[g]) \in Seq(FunctionNames \X STRING) /\ data[g] \in Datas
      BY <1>1, LoaderAssumption DEF LoaderInv, LoaderTypes, Laid
    <3>2. Len(Calls(file[g])) \in Nat
      BY <3>1
    <3>3. i \in 1 .. Len(Calls(file[g]))
      BY <3>1, <3>2, <1>7
    <3>4. CallOf(g, i) \in FunctionNames \X STRING
      BY <3>1, <3>3 DEF CallOf
    <3>5. QED  BY <2>3, <3>1, <3>4, MeantIsList
  <2>8. PICK M \in Nat : M = Len(m)
    BY <2>7
  <2>9. /\ p \in Nat /\ q = p + M /\ q <= L
        /\ \A k \in DOMAIN text[g][i].phs : text[g][i].phs[k] \in {0, p + k}
        /\ \A k \in 1 .. M : a[p + k] = m[k]
    BY <1>2, <1>5, <1>7, <2>3, <2>5, <2>6, <2>8 DEF PieceBinds
  <2>10. ASSUME NEW k \in 1 .. M PROVE new[p + k] = m[k]
    <3>1. p + k \in 1 .. L + V /\ p + k <= L
      BY <2>9
    <3>2. QED  BY <3>1, <2>9, <1>8
  <2>11. q <= L + V
    BY <2>9
  <2>12. QED  BY <1>4, <1>8, <2>1, <2>4, <2>5, <2>6, <2>8, <2>9, <2>10, <2>11 DEF PieceBinds
<1>13. PieceBinds(g, n + 1)'
  <2>1. CallOf(g, n + 1)' = CallOf(g, n + 1) /\ data'[g] = data[g]
    BY DEF CallOf
  <2>2. R!Meant(CallOf(g, n + 1), data[g])' = vals
    BY <1>1, <2>1 DEF R!Meant
  <2>3. (n + 1) - 1 = n
    BY <1>7
  <2>4. R!Places(g, (n + 1) - 1)' = L
    BY <2>3, <1>10
  <2>5. ASSUME NEW k \in 1 .. V PROVE new[L + k] = vals[k]
    <3>1. L + k \in 1 .. L + V /\ ~(L + k <= L) /\ (L + k) - L = k
      OBVIOUS
    <3>2. QED  BY <3>1, <1>8
  <2>6. \A k \in DOMAIN e.phs : e.phs[k] \in {0, L + k}
    BY <1>2, <1>5
  <2>7. L + V <= L + V
    OBVIOUS
  <2>8. QED  BY <1>4, <1>6, <1>8, <1>9, <1>11, <2>2, <2>4, <2>5, <2>6, <2>7 DEF PieceBinds
<1>14. \A i \in 1 .. n + 1 : PieceBinds(g, i)'
  <2>1. ASSUME NEW i \in 1 .. n + 1 PROVE PieceBinds(g, i)'
    <3>1. i \in 1 .. n \/ i = n + 1
      BY <1>7
    <3>2. QED  BY <3>1, <1>12, <1>13
  <2>2. QED  BY <2>1
<1>15. n + 1 \in Nat /\ n + 1 <= Len(Calls(file'[g])) /\ calls'[g] = n + 1 /\ mode'[g] = "render"
  <2>1. Calls(file[g]) \in Seq(FunctionNames \X STRING)
    BY LoaderAssumption DEF LoaderInv, LoaderTypes
  <2>2. Len(Calls(file[g])) \in Nat /\ n < Len(Calls(file[g]))
    BY <2>1, <1>1
  <2>3. QED  BY <2>2, <1>1, <1>7
<1>16. L + V \in Nat
  OBVIOUS
<1>17. QED  BY <1>4, <1>8, <1>9, <1>11, <1>14, <1>15, <1>16 DEF Laid

(* Without a binder a call marks no place and binds nothing. *)
LEMMA LoadLaid ==
  ASSUME LoaderInv, NEW g \in Renderers, mode[g] # "render", calls[g] < Len(Calls(file[g])),
         CallOf(g, calls[g] + 1)[1] \notin {"param", "in"},
         NEW e, e.upto \in Nat, \A k \in DOMAIN e.phs : e.phs[k] = 0,
         text'[g] = Append(text[g], e), calls'[g] = calls[g] + 1, args'[g] = args[g],
         UNCHANGED <<file, data, mode>>
  PROVE  Laid(g)'
<1>1. PICK n : n = calls[g]
  OBVIOUS
<1>2. /\ n \in Nat /\ IsList(text[g]) /\ Len(text[g]) = n
      /\ args[g] = <<>> /\ \A i \in 1 .. n : PieceLeaves(g, i)
  BY <1>1 DEF LoaderInv, Laid
<1>3. IsList(text'[g]) /\ Len(text'[g]) = n + 1 /\ text'[g][n + 1] = e
  BY <1>2, AppendToList
<1>4. R!Places(g, n + 1)' = e.upto
  <2>1. n + 1 # 0
    BY <1>2
  <2>2. QED  BY <2>1, <1>3 DEF R!Places
<1>5. ASSUME NEW i \in 1 .. n PROVE PieceLeaves(g, i)'
  <2>1. text'[g][i] = text[g][i]
    BY <1>2, EarlierPiece
  <2>2. CallOf(g, i)' = CallOf(g, i)
    BY DEF CallOf
  <2>3. QED  BY <1>2, <2>1, <2>2 DEF PieceLeaves
<1>6. PieceLeaves(g, n + 1)'
  <2>1. CallOf(g, n + 1)' = CallOf(g, n + 1)
    BY DEF CallOf
  <2>2. QED  BY <1>1, <1>3, <2>1 DEF PieceLeaves
<1>7. ASSUME NEW i \in 1 .. n + 1 PROVE PieceLeaves(g, i)'
  <2>1. i \in 1 .. n \/ i = n + 1
    BY <1>2
  <2>2. QED  BY <2>1, <1>5, <1>6
<1>8. n + 1 \in Nat /\ n + 1 <= Len(Calls(file'[g])) /\ calls'[g] = n + 1 /\ mode'[g] # "render" /\ args'[g] = <<>>
  <2>1. Calls(file[g]) \in Seq(FunctionNames \X STRING)
    BY LoaderAssumption DEF LoaderInv, LoaderTypes
  <2>2. Len(Calls(file[g])) \in Nat /\ n < Len(Calls(file[g]))
    BY <2>1, <1>1
  <2>3. QED  BY <2>2, <1>1, <1>2
<1>9. QED  BY <1>3, <1>4, <1>7, <1>8 DEF Laid

(* The next call of a template: its renderer's own functions collect what    *)
(* the call means, the shared template's refuse param and in.                *)
LEMMA CallStep == ASSUME LoaderInv, NEW g \in Renderers, R!Call(g) PROVE LoaderInv'
<1>1. /\ renderAt[g] = "execute" /\ calls[g] < Len(Calls(file[g]))
      /\ UNCHANGED <<cached, functions, file, data, mode, executes>>
  BY DEF R!Call, R!asked
<1>2. PICK call : call = CallOf(g, calls[g] + 1)
  OBVIOUS
<1>3. data[g] \in Datas /\ call \in FunctionNames \X STRING
  <2>1. Calls(file[g]) \in Seq(FunctionNames \X STRING) /\ data[g] \in Datas
    BY LoaderAssumption DEF LoaderInv, LoaderTypes
  <2>2. Len(Calls(file[g])) \in Nat /\ calls[g] \in Nat
    BY <2>1 DEF LoaderInv, Laid
  <2>3. calls[g] + 1 \in 1 .. Len(Calls(file[g]))
    BY <2>2, <1>1
  <2>4. QED  BY <2>1, <2>3, <1>2 DEF CallOf
<1>4. PICK bound \in BOOLEAN : bound = (functions[executes[g]] # None)
  OBVIOUS
<1>5. PICK out : out = R!Evaluate(call, data[g], bound)
  OBVIOUS
<1>6. CASE out.err
  <2>1. UNCHANGED <<calls, text, args>> /\ renderAt' = [renderAt EXCEPT ![g] = "done"]
        /\ failed' = [failed EXCEPT ![g] = TRUE]
    BY <1>2, <1>4, <1>5, <1>6 DEF R!Call, R!Goto, CallOf
  <2>2. DOMAIN failed' = Renderers
    BY <2>1 DEF LoaderInv, LoaderTypes
  <2>3. QED  BY <1>1, <2>1, <2>2, EndStep
<1>7. CASE ~out.err
  <2>1. PICK vals : vals = R!Meant(call, data[g])
    OBVIOUS
  <2>2. vals \in Seq(Bindables)
    BY <1>3, <2>1, MeantIsList
  <2>3. Emits(out, vals)
    BY <1>3, <1>5, <2>1, EvaluateEmits
  <2>4. out.vals = vals
    BY <1>7, <2>3, EmitsValues
  <2>5. call[1] \in {"param", "in"} => bound
    <3>1. call[1] \in {"param", "in"} => bound \/ out = R!Refuse
      BY <1>3, <1>5, EvaluateEmits
    <3>2. R!Refuse.err
      BY DEF R!Refuse
    <3>3. QED  BY <1>7, <3>1, <3>2
  <2>6. PICK e : e = R!Piece(out.what, out.cols,
                             [i \in DOMAIN vals |-> R!Mark((IF bound THEN Len(args[functions[executes[g]]]) ELSE 0) + i, bound)],
                             R!Places(g, calls[g]) + Len(vals))
    OBVIOUS
  <2>7. /\ calls' = [calls EXCEPT ![g] = @ + 1] /\ text' = [text EXCEPT ![g] = Append(@, e)]
        /\ args' = IF bound THEN [args EXCEPT ![functions[executes[g]]] = @ \o vals] ELSE args
        /\ UNCHANGED <<failed, renderAt>>
    <3>1. R!Evaluate(Calls(file[g])[calls[g] + 1], data[g], functions[executes[g]] # None) = out
      BY <1>2, <1>4, <1>5 DEF CallOf
    <3>2. bound <=> functions[executes[g]] # None
      BY <1>4
    <3>3. /\ calls' = [calls EXCEPT ![g] = @ + 1]
          /\ UNCHANGED <<failed, renderAt>>
      BY <1>7, <3>1 DEF R!Call
    <3>4. args' = IF bound THEN [args EXCEPT ![functions[executes[g]]] = @ \o vals] ELSE args
      BY <1>7, <2>4, <3>1, <3>2 DEF R!Call
    <3>5. text' = [text EXCEPT ![g] = Append(@, e)]
      <4>1. PICK b : b = (functions[executes[g]] # None)
        OBVIOUS
      <4>2. PICK piece :
              piece = R!Piece(out.what, out.cols,
                              [i \in DOMAIN out.vals |-> R!Mark((IF b THEN Len(args[functions[executes[g]]]) ELSE 0) + i, b)],
                              R!Places(g, calls[g]) + Len(out.vals))
        OBVIOUS
      <4>3. text' = [text EXCEPT ![g] = Append(@, piece)]
        BY <1>7, <3>1, <4>1, <4>2 DEF R!Call
      <4>4. b = bound
        BY <1>4, <4>1
      <4>5. piece = e
        BY <2>4, <2>6, <4>2, <4>4
      <4>6. QED  BY <4>3, <4>5
    <3>6. QED  BY <3>3, <3>4, <3>5
  <2>8. /\ DOMAIN calls' = Renderers /\ DOMAIN text' = Renderers /\ DOMAIN failed' = Renderers
        /\ calls'[g] = calls[g] + 1 /\ text'[g] = Append(text[g], e)
        /\ \A q \in Renderers : q # g => calls'[q] = calls[q] /\ text'[q] = text[q]
    BY <2>7 DEF LoaderInv, LoaderTypes
  <2>9. SharedBindsNothing' /\ TemplateInHand'
    BY <1>1, <2>7 DEF LoaderInv, SharedBindsNothing, TemplateInHand
  <2>10. e.upto = R!Places(g, calls[g]) + Len(vals)
    BY <2>6 DEF R!Piece
  <2>11. CASE mode[g] = "render"
    <3>1. functions[executes[g]] = g /\ bound
      BY <1>1, <1>4, <2>11, LoaderAssumption DEF LoaderInv, TemplateInHand
    <3>2. args' = [args EXCEPT ![g] = @ \o vals]
      BY <2>7, <3>1
    <3>3. args'[g] = args[g] \o vals /\ \A q \in Renderers : q # g => args'[q] = args[q]
      BY <3>2 DEF LoaderInv, LoaderTypes
    <3>4. args[g] \o vals \in Seq(Bindables)
      BY <2>2 DEF LoaderInv, LoaderTypes
    <3>5. LoaderTypes'
      <4>1. args' \in [Renderers -> Seq(Bindables)]
        BY <3>2, <3>4 DEF LoaderInv, LoaderTypes
      <4>2. QED  BY <1>1, <2>7, <2>8, <4>1 DEF LoaderInv, LoaderTypes
    <3>6. \A k \in DOMAIN e.phs : e.phs[k] \in {0, Len(args[g]) + k}
      BY <2>6, <3>1 DEF R!Piece, R!Mark
    <3>7. Laid(g)'
      BY <1>1, <1>2, <2>1, <2>2, <2>8, <2>10, <2>11, <3>3, <3>6, RenderLaid
    <3>8. ASSUME NEW q \in Renderers PROVE Laid(q)'
      BY <1>1, <2>8, <3>3, <3>7, LaidKept DEF LoaderInv
    <3>9. QED  BY <2>9, <3>5, <3>8 DEF LoaderInv
  <2>12. CASE mode[g] # "render"
    <3>1. functions[executes[g]] = None
      <4>1. executes[g] \in Shared
        BY <1>1, <2>12 DEF LoaderInv, TemplateInHand
      <4>2. PICK q \in Renderers : executes[g] = <<q, "parsed">>
        BY <4>1 DEF Shared
      <4>3. QED  BY <4>2 DEF LoaderInv, SharedBindsNothing
    <3>2. ~bound
      BY <3>1, <1>4
    <3>3. args' = args
      BY <2>7, <3>2
    <3>4. LoaderTypes'
      BY <1>1, <2>7, <2>8, <3>3 DEF LoaderInv, LoaderTypes
    <3>5. \A k \in DOMAIN e.phs : e.phs[k] = 0
      BY <2>6, <3>2 DEF R!Piece, R!Mark
    <3>6. e.upto \in Nat
      BY <2>2, <2>10 DEF LoaderInv, Laid
    <3>7. Laid(g)'
      BY <1>1, <1>2, <2>5, <2>8, <2>12, <3>2, <3>3, <3>5, <3>6, LoadLaid
    <3>8. ASSUME NEW q \in Renderers PROVE Laid(q)'
      BY <1>1, <2>8, <3>3, <3>7, LaidKept DEF LoaderInv
    <3>9. QED  BY <2>9, <3>4, <3>8 DEF LoaderInv
  <2>13. QED  BY <2>11, <2>12
<1>8. QED  BY <1>6, <1>7

LEMMA LoaderStep == LoaderInv /\ [R!Next]_(R!vars) => LoaderInv'
<1> SUFFICES ASSUME LoaderInv, [R!Next]_(R!vars) PROVE LoaderInv'
  OBVIOUS
<1>1. CASE UNCHANGED R!vars
  <2>1. UNCHANGED <<cached, functions, renderAt, file, data, mode, executes, calls, text, args, failed>>
    BY <1>1 DEF R!vars
  <2>2. LoaderTypes' /\ SharedBindsNothing' /\ TemplateInHand'
    BY <2>1 DEF LoaderInv, LoaderTypes, SharedBindsNothing, TemplateInHand
  <2>3. QED  BY <2>1, <2>2, AllLaid DEF LoaderInv
<1>2. CASE R!Next
  <2>1. PICK g \in Renderers :
          R!Lookup(g) \/ R!Parse(g) \/ R!ParseFails(g) \/ R!Store(g) \/ R!Begin(g) \/ R!Call(g) \/ R!Return(g)
    BY <1>2 DEF R!Next
  <2>2. QED  BY <2>1, LookupStep, ParseStep, ParseFailsStep, StoreStep, LoaderBeginStep, CallStep, LoaderReturnStep
<1>3. QED  BY <1>1, <1>2

(* In every behaviour of Db the loader takes steps of its own or none. *)
LEMMA LoadersRun == DbSpec => R!Init /\ [][R!Next]_(R!vars)
<1>1. DbInit => R!Init
  BY DEF DbInit
<1>2. ASSUME [DbNext]_dbVars PROVE [R!Next]_(R!vars)
  <2>1. CASE R!Next
    BY <2>1
  <2>2. CASE UNCHANGED loaderVars
    BY <2>2 DEF loaderVars, R!vars
  <2>3. UNCHANGED dbVars => UNCHANGED loaderVars
    BY DEF dbVars
  <2>4. QED  BY <1>2, <2>1, <2>2, <2>3 DEF DbNext, Runtime, Loading, Bulk
<1>3. QED  BY <1>1, <1>2, PTL DEF DbSpec

(* The values of a piece are a stretch of the arguments. *)
LEMMA PieceIsStretch ==
  ASSUME LoaderInv, NEW g \in Renderers, NEW i \in 1 .. calls[g], PieceBinds(g, i)
  PROVE  SubSeq(args[g], R!Places(g, i - 1) + 1, R!Places(g, i)) = R!Meant(CallOf(g, i), data[g])
<1>1. PICK m : m = R!Meant(CallOf(g, i), data[g])
  OBVIOUS
<1>2. m \in Seq(Bindables)
  <2>1. calls[g] \in Nat /\ calls[g] <= Len(Calls(file[g])) /\ Calls(file[g]) \in Seq(FunctionNames \X STRING) /\ data[g] \in Datas
    BY LoaderAssumption DEF LoaderInv, LoaderTypes, Laid
  <2>2. Len(Calls(file[g])) \in Nat
    BY <2>1
  <2>3. i \in 1 .. Len(Calls(file[g]))
    BY <2>1, <2>2
  <2>4. CallOf(g, i) \in FunctionNames \X STRING
    BY <2>1, <2>3 DEF CallOf
  <2>5. QED  BY <1>1, <2>1, <2>4, MeantIsList
<1>3. PICK a : a = args[g]
  OBVIOUS
<1>4. a \in Seq(Bindables)
  BY <1>3 DEF LoaderInv, LoaderTypes
<1>5. PICK p : p = R!Places(g, i - 1)
  OBVIOUS
<1>6. PICK M \in Nat : M = Len(m)
  BY <1>2
<1>7. PICK L \in Nat : L = Len(a)
  BY <1>4
<1>8. /\ p \in Nat /\ R!Places(g, i) = p + M /\ p + M <= L
      /\ \A k \in 1 .. M : a[p + k] = m[k]
  BY <1>1, <1>3, <1>5, <1>6, <1>7 DEF PieceBinds
<1>9. PICK s : s = SubSeq(a, p + 1, p + M)
  OBVIOUS
<1>10. s \in Seq(Bindables)
  BY <1>4, <1>7, <1>8, <1>9, SubSeqProperties
<1>11. /\ Len(s) = IF p + 1 <= p + M THEN (p + M) - (p + 1) + 1 ELSE 0
       /\ \A k \in 1 .. (p + M) - (p + 1) + 1 : s[k] = a[p + 1 + k - 1]
  BY <1>4, <1>7, <1>8, <1>9, SubSeqProperties
<1>12. Len(s) = M /\ \A k \in 1 .. M : s[k] = m[k]
  <2>1. (p + M) - (p + 1) + 1 = M /\ (~(p + 1 <= p + M) => M = 0)
    BY <1>8
  <2>2. ASSUME NEW k \in 1 .. M PROVE p + 1 + k - 1 = p + k
    BY <1>8
  <2>3. QED  BY <1>8, <1>11, <2>1, <2>2
<1>13. s = m
  BY <1>2, <1>6, <1>10, <1>12, SeqEqual
<1>14. QED  BY <1>1, <1>3, <1>5, <1>8, <1>9, <1>13

LEMMA LaidIsBound == LoaderInv => RenderBinds
<1> SUFFICES ASSUME LoaderInv, NEW g \in Renderers
             PROVE  /\ mode[g] = "render" =>
                         /\ R!Places(g, Len(text[g])) = Len(args[g])
                         /\ \A i \in DOMAIN text[g] :
                              /\ \A k \in DOMAIN text[g][i].phs : text[g][i].phs[k] \in {0, R!Places(g, i - 1) + k}
                              /\ SubSeq(args[g], R!Places(g, i - 1) + 1, R!Places(g, i)) = R!Meant(CallOf(g, i), data[g])
                    /\ mode[g] # "render" =>
                         /\ args[g] = <<>>
                         /\ \A i \in DOMAIN text[g] : PieceLeaves(g, i)
  BY DEF RenderBinds, R!RenderBinds, CallOf, PieceLeaves
<1>1. Laid(g)
  BY DEF LoaderInv
<1>2. calls[g] = Len(text[g]) /\ DOMAIN text[g] = 1 .. calls[g]
  BY <1>1 DEF Laid, IsList
<1>3. CASE mode[g] = "render"
  <2>1. R!Places(g, Len(text[g])) = Len(args[g])
    BY <1>1, <1>2, <1>3 DEF Laid
  <2>2. ASSUME NEW i \in DOMAIN text[g] PROVE i \in 1 .. calls[g] /\ PieceBinds(g, i)
    BY <1>1, <1>2, <1>3 DEF Laid
  <2>3. ASSUME NEW i \in DOMAIN text[g]
        PROVE  /\ \A k \in DOMAIN text[g][i].phs : text[g][i].phs[k] \in {0, R!Places(g, i - 1) + k}
               /\ SubSeq(args[g], R!Places(g, i - 1) + 1, R!Places(g, i)) = R!Meant(CallOf(g, i), data[g])
    <3>1. \A k \in DOMAIN text[g][i].phs : text[g][i].phs[k] \in {0, R!Places(g, i - 1) + k}
      BY <2>2 DEF PieceBinds
    <3>2. QED  BY <2>2, <3>1, PieceIsStretch
  <2>4. QED  BY <1>3, <2>1, <2>3
<1>4. CASE mode[g] # "render"
  BY <1>1, <1>2, <1>4 DEF Laid
<1>5. QED  BY <1>3, <1>4

(* A Render returns a statement about its own data, whatever else is being   *)
(* rendered: the arguments are what its own calls mean, in the order of      *)
(* their places; a Load collects none (sqlutil: Render, Load, binder).       *)
THEOREM RenderBindsHolds == DbSpec => []RenderBinds
<1>1. LoaderInv /\ [R!Next]_(R!vars) => LoaderInv'
  BY LoaderStep
<1>2. R!Init /\ [][R!Next]_(R!vars) => []LoaderInv
  BY <1>1, LoaderInit, PTL
<1>3. QED  BY <1>2, LoadersRun, LaidIsBound, PTL
=============================================================================
