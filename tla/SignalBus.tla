------------------------------ MODULE SignalBus ------------------------------
(***************************************************************************)
(* pkg/signals, Bus, for one topic name: the map entry comes and goes with *)
(* RemoveTopic while Subscribe and Emit first look the Signal up under the *)
(* bus lock and use it afterwards under the Signal's own.  The Signal is   *)
(* here its set of subscribers (module Signal has the rest).               *)
(***************************************************************************)
EXTENDS Integers

CONSTANTS
  Users,     \* goroutines subscribing to the topic
  Emitters,  \* goroutines emitting on it
  Signals,   \* Signal objects; one nobody can reach is free to be New
  None

ASSUME SignalBusAssumption == None \notin Signals

VARIABLES
  topic,     \* b.topics[name]
  members,   \* Signal -> its subscribers
  pc, sig,   \* each user's place in Subscribe and the Signal it looked up
  em,        \* the Signal each emission looked up
  removal    \* history: whether RemoveTopic ran on the Signal a user holds,
             \* "before" or "after" it had subscribed, or not at all

vars == <<topic, members, pc, sig, em, removal>>

Init ==
  /\ topic = None
  /\ members = [s \in Signals |-> {}]
  /\ pc = [u \in Users |-> "out"]
  /\ sig = [u \in Users |-> None]
  /\ em = [e \in Emitters |-> None]
  /\ removal = [u \in Users |-> "no"]

-----------------------------------------------------------------------------
Goto(u, label) == pc' = [pc EXCEPT ![u] = label]

Unreachable(s) ==
  /\ s # topic
  /\ \A u \in Users : sig[u] # s
  /\ \A e \in Emitters : em[e] # s

(* Topic: the read-locked look-up ... *)
Lookup(u) ==
  /\ pc[u] = "out"
  /\ sig' = [sig EXCEPT ![u] = topic]
  /\ Goto(u, IF topic # None THEN "found" ELSE "missing")
  /\ UNCHANGED <<topic, members, em, removal>>

(* ... and, when it found nothing, the write-locked one that looks again.    *)
CreateOrFind(u) ==
  /\ pc[u] = "missing"
  /\ \/ /\ topic # None
        /\ sig' = [sig EXCEPT ![u] = topic]
        /\ UNCHANGED <<topic, members>>
     \/ /\ topic = None
        /\ \E s \in Signals :
             /\ Unreachable(s)
             /\ topic' = s
             /\ members' = [members EXCEPT ![s] = {}]
             /\ sig' = [sig EXCEPT ![u] = s]
  /\ Goto(u, "found")
  /\ UNCHANGED <<em, removal>>

(* Signal.Subscribe on the Signal found. *)
Subscribe(u) ==
  /\ pc[u] = "found"
  /\ members' = [members EXCEPT ![sig[u]] = @ \cup {u}]
  /\ Goto(u, "in")
  /\ UNCHANGED <<topic, sig, em, removal>>

Unsubscribe(u) ==
  /\ pc[u] = "in"
  /\ members' = [members EXCEPT ![sig[u]] = @ \ {u}]
  /\ sig' = [sig EXCEPT ![u] = None]
  /\ Goto(u, "out")
  /\ removal' = [removal EXCEPT ![u] = "no"]
  /\ UNCHANGED <<topic, em>>

(* Mutant: the topic is forgotten but its Signal not cleared. *)
RemoveTopicUncleared ==
  /\ topic # None
  /\ topic' = None
  /\ removal' = [u \in Users |->
                   IF sig[u] # topic THEN removal[u]
                   ELSE IF pc[u] = "in" THEN "after" ELSE "before"]
  /\ UNCHANGED <<members, pc, sig, em>>

RemoveTopic ==
  /\ topic # None
  /\ members' = [members EXCEPT ![topic] = {}]
  /\ topic' = None
  /\ removal' = [u \in Users |->
                   IF sig[u] # topic THEN removal[u]
                   ELSE IF pc[u] = "in" THEN "after" ELSE "before"]
  /\ UNCHANGED <<pc, sig, em>>

(* Emit: look the Signal up; its own Emit takes the list later.  A topic     *)
(* that does not exist is not created.                                       *)
EmitLookup(e) ==
  /\ em[e] = None /\ topic # None
  /\ em' = [em EXCEPT ![e] = topic]
  /\ UNCHANGED <<topic, members, pc, sig, removal>>

EmitSignal(e) ==
  /\ em[e] # None
  /\ em' = [em EXCEPT ![e] = None]
  /\ UNCHANGED <<topic, members, pc, sig, removal>>

Next ==
  \/ RemoveTopic
  \/ \E u \in Users : Lookup(u) \/ CreateOrFind(u) \/ Subscribe(u) \/ Unsubscribe(u)
  \/ \E e \in Emitters : EmitLookup(e) \/ EmitSignal(e)

Spec == Init /\ [][Next]_vars

-----------------------------------------------------------------------------
TypeOK ==
  /\ topic \in Signals \cup {None}
  /\ members \in [Signals -> SUBSET Users]
  /\ pc \in [Users -> {"out", "missing", "found", "in"}]
  /\ sig \in [Users -> Signals \cup {None}]
  /\ \A u \in Users : sig[u] # None <=> pc[u] \in {"found", "in"}
  /\ em \in [Emitters -> Signals \cup {None}]
  /\ removal \in [Users -> {"no", "before", "after"}]

(* A subscriber hears the topic unless RemoveTopic ran on the Signal it had  *)
(* looked up: goroutines creating the topic at the same time, or just after  *)
(* it was removed, end up on the same Signal.                                *)
SubscribersReachable ==
  \A u \in Users : pc[u] = "in" /\ removal[u] = "no"
                     => topic # None /\ u \in members[topic]

(* "konuyu ve tüm abonelerini kaldırır": a subscriber that RemoveTopic       *)
(* removed is on no Signal at all, not even for an Emit that had looked the  *)
(* Signal up before, and one whose Subscribe it overtook is not on the topic *)
(* that may have been created since.                                         *)
RemovedHearNothing ==
  \A u \in Users :
    /\ removal[u] = "after" => \A s \in Signals : u \notin members[s]
    /\ removal[u] = "before" /\ topic # None => u \notin members[topic]

(* Both: who subscribed hears the topic until it, or he, is removed.         *)
TopicDelivers == SubscribersReachable /\ RemovedHearNothing
=============================================================================
