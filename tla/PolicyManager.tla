---------------------------- MODULE PolicyManager ----------------------------
(***************************************************************************)
(* pkg/policy: a Manager around a casbin enforcer under an RWMutex, the    *)
(* default Manager, and the adapter given before there is one.  An answer  *)
(* is what it was computed from: a model and the rules loaded for it.      *)
(***************************************************************************)
EXTENDS Integers

CONSTANTS
  Callers,   \* goroutines; each runs one call after the other
  Managers,  \* Managers that may exist at once
  File, Db,  \* adapters: a read-only policy file, a table (gormpolicy)
  None

VARIABLES
  default,   \* defaultManager, or None
  pending,   \* pendingAdapter, or None
  manager,   \* [adapter, model, base, extra]: base is the model its policies
             \* were loaded for, None without them; extra is a rule added later
  writer,    \* who holds a Manager's mu for writing
  modelFile, \* the model there is to load, 0 or 1
  stored,    \* the table holds the extra rule; a file never does
  call,      \* [op, on, at] of each caller
  answer,    \* what the last Enforce was computed from
  broken,    \* history: Managers whose policies failed to load
  given,     \* history: SetAdapter(Db) has returned
  replaced   \* history: a default Manager has been replaced

vars == <<default, pending, manager, writer, modelFile, stored, call, answer, broken, given, replaced>>

Idle == [op |-> "none", on |-> None, at |-> "start"]
Blank == [adapter |-> File, model |-> 0, base |-> None, extra |-> FALSE]

Init ==
  /\ default = None /\ pending = None
  /\ manager = [m \in Managers |-> Blank] /\ writer = [m \in Managers |-> None]
  /\ modelFile = 0 /\ stored = FALSE
  /\ call = [c \in Callers |-> Idle] /\ answer = None
  /\ broken = {} /\ given = FALSE /\ replaced = FALSE

-----------------------------------------------------------------------------
(* Making a Manager: the model and then the policies of its adapter.         *)
ModelOnly(a) == [adapter |-> a, model |-> modelFile, base |-> None, extra |-> FALSE]
WithPolicies(m) == [adapter |-> m.adapter, model |-> m.model, base |-> m.model, extra |-> m.adapter = Db /\ stored]
Made(a) == WithPolicies(ModelOnly(a))

Unused(m) == m # default /\ \A c \in Callers : call[c].on # m

Install(m, a) ==
  /\ Unused(m)
  /\ default' = m
  /\ manager' = [manager EXCEPT ![m] = Made(a)]
  /\ broken' = broken \ {m}
  /\ replaced' = (replaced \/ default # None)

(* Mutant: the pending adapter is taken before it is known to work. *)
InitDefaultTakesPending ==
  /\ pending' = None
  /\ \/ \E m \in Managers : Install(m, IF pending = None THEN File ELSE pending)
     \/ UNCHANGED <<default, manager, broken, replaced>>
  /\ UNCHANGED <<writer, modelFile, stored, call, answer, given>>

(* policy.Init, under defaultMu throughout; when it fails nothing changes.   *)
InitDefault ==
  /\ \E m \in Managers : Install(m, IF pending = None THEN File ELSE pending)
  /\ pending' = None
  /\ UNCHANGED <<writer, modelFile, stored, call, answer, given>>

(* gormpolicy.Init or an application's SetDefault: pending is not looked at. *)
SetDefault ==
  /\ \E m \in Managers, a \in {File, Db} : Install(m, a)
  /\ UNCHANGED <<pending, writer, modelFile, stored, call, answer, given>>

(* policy.SetDefault(nil): requests are denied from here on.                 *)
ResetDefault ==
  /\ default # None
  /\ default' = None /\ replaced' = TRUE
  /\ UNCHANGED <<pending, manager, writer, modelFile, stored, call, answer, broken, given>>

-----------------------------------------------------------------------------
(* Package functions fetch the default Manager first, without keeping a lock.*)
Fetch(c, op) ==
  /\ call[c] = Idle /\ default # None
  /\ call' = [call EXCEPT ![c] = [op |-> op, on |-> default, at |-> "fetched"]]
  /\ answer' = None
  /\ UNCHANGED <<default, pending, manager, writer, modelFile, stored, broken, given, replaced>>

(* Without a Manager everything but SetAdapter fails and requests are denied.*)
SetAdapterEarly(c) ==
  /\ call[c] = Idle /\ default = None
  /\ pending' = Db /\ given' = TRUE
  /\ UNCHANGED <<default, manager, writer, modelFile, stored, call, answer, broken, replaced>>

At(c, op, step) == call[c].op = op /\ call[c].at = step
Return(c) == call' = [call EXCEPT ![c] = Idle]
Unlocked(c) == writer[call[c].on] = None

SetAdapter(c) ==
  /\ At(c, "setAdapter", "fetched") /\ Unlocked(c)
  /\ manager' = [manager EXCEPT ![call[c].on].adapter = Db]
  /\ given' = TRUE
  /\ \/ Return(c)
     \/ call' = [call EXCEPT ![c].op = "reload"]   \* InitGormAdapter, autoLoad
  /\ UNCHANGED <<default, pending, writer, modelFile, stored, answer, broken, replaced>>

(* What a middleware allows or denies a request by.                          *)
Decision(m) == [was |-> manager[m], failed |-> m \in broken]

Enforce(c) ==
  /\ At(c, "enforce", "fetched") /\ Unlocked(c)
  /\ answer' = Decision(call[c].on)
  /\ Return(c)
  /\ UNCHANGED <<default, pending, manager, writer, modelFile, stored, broken, given, replaced>>

(* Reload, under the write lock: the model first, which empties the          *)
(* enforcer, then the policies.                                              *)
ReloadModel(c) ==
  /\ At(c, "reload", "fetched") /\ Unlocked(c)
  /\ LET m == call[c].on IN
     \/ /\ writer' = [writer EXCEPT ![m] = c]
        /\ manager' = [manager EXCEPT ![m] = ModelOnly(@.adapter)]
        /\ call' = [call EXCEPT ![c].at = "modelSet"]
     \/ Return(c) /\ UNCHANGED <<writer, manager>>   \* the model does not load
  /\ UNCHANGED <<default, pending, modelFile, stored, answer, broken, given, replaced>>

ReloadPolicy(c) ==
  /\ At(c, "reload", "modelSet")
  /\ LET m == call[c].on IN
     /\ \/ /\ manager' = [manager EXCEPT ![m] = WithPolicies(@)]
           /\ broken' = broken \ {m}
        \/ broken' = broken \cup {m} /\ UNCHANGED manager
     /\ writer' = [writer EXCEPT ![m] = None]
  /\ Return(c)
  /\ UNCHANGED <<default, pending, modelFile, stored, answer, given, replaced>>

(* AddPolicy and RemovePolicy: stored first, a file takes no rules; the      *)
(* enforcer synchronises them against each other.                            *)
Change(c, present) ==
  /\ At(c, "change", "fetched") /\ Unlocked(c)
  /\ LET m == call[c].on
         a == manager[m].adapter IN
     \/ /\ manager' = [manager EXCEPT ![m].extra = present]
        /\ stored' = IF a = Db THEN present ELSE stored
     \/ UNCHANGED <<manager, stored>>   \* no such rule, or the table refuses it
  /\ Return(c)
  /\ UNCHANGED <<default, pending, writer, modelFile, answer, broken, given, replaced>>

NewModel ==
  /\ modelFile = 0 /\ modelFile' = 1
  /\ UNCHANGED <<default, pending, manager, writer, stored, call, answer, broken, given, replaced>>

Next ==
  \/ InitDefault \/ SetDefault \/ ResetDefault \/ NewModel
  \/ \E c \in Callers :
       \/ \E op \in {"setAdapter", "enforce", "reload", "change"} : Fetch(c, op)
       \/ SetAdapterEarly(c) \/ SetAdapter(c)
       \/ Enforce(c) \/ ReloadModel(c) \/ ReloadPolicy(c)
       \/ \E present \in BOOLEAN : Change(c, present)

Spec == Init /\ [][Next]_vars

-----------------------------------------------------------------------------
(* A decision is computed from a model and the policies loaded for it; from  *)
(* a model without policies only after a failed reload, which the comment of *)
(* Reload warns of.  A request during a reload sees the old or the new.      *)
DecisionFromWholePolicy ==
  answer # None =>
    IF answer.was.base = None THEN answer.failed ELSE answer.was.base = answer.was.model

(* An adapter given to SetAdapter is in use or waits for Init, also when     *)
(* SetAdapter and Init overlap or an Init fails, unless a later Init or      *)
(* SetDefault put another Manager in the place of the one that got it.       *)
AdapterNotLost ==
  given /\ ~replaced =>
    pending = Db \/ (default # None /\ manager[default].adapter = Db)

(* Both: what answers and what it was given are what the callers think.      *)
ManagerKeepsFaith == DecisionFromWholePolicy /\ AdapterNotLost
=============================================================================
