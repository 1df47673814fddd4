----------------------------- MODULE MenuLoader -----------------------------
(***************************************************************************)
(* cmd/crm/menusvc, Loader: the menu cached for a TTL and reloaded by the  *)
(* requests that find it expired, several at once, and by Reload.  What is *)
(* read from the store is known by its age.                                *)
(***************************************************************************)
EXTENDS Integers

CONSTANTS
  Callers,   \* requests
  TTL,       \* 0 keeps the menu until the next Reload
  LoadTime,  \* ticks the store takes to answer at most
  None

VARIABLES
  items,     \* Loader.items: the age of the data, or None
  loaded,    \* ticks since Loader.loadedAt
  at,        \* idle, loading, storing
  call,      \* Items or Reload
  seen,      \* the items a caller found expired
  read,      \* the age of the records it has read
  took,      \* ticks since its load began
  served     \* the last answer of Items: [age, failed]

vars == <<items, loaded, at, call, seen, read, took, served>>

(* Ages are counted up to here.                                              *)
MaxAge == TTL + LoadTime + LoadTime

Init ==
  /\ items = None /\ loaded = 0
  /\ at = [c \in Callers |-> "idle"] /\ call = [c \in Callers |-> "Items"]
  /\ seen = [c \in Callers |-> None] /\ read = [c \in Callers |-> None]
  /\ took = [c \in Callers |-> 0]
  /\ served = None

Older(age) == IF age = None \/ age = MaxAge THEN age ELSE age + 1

-----------------------------------------------------------------------------
Answer(age, failed) == served' = [age |-> age, failed |-> failed]

(* Mutant: a hit renews the entry. *)
HitRenews(c) ==
  /\ at[c] = "idle" /\ items # None
  /\ TTL <= 0 \/ loaded < TTL
  /\ loaded' = 0
  /\ Answer(items, FALSE)
  /\ UNCHANGED <<items, at, call, seen, read, took>>

Hit(c) ==
  /\ at[c] = "idle" /\ items # None
  /\ TTL <= 0 \/ loaded < TTL
  /\ Answer(items, FALSE)
  /\ UNCHANGED <<items, loaded, at, call, seen, read, took>>

Begin(c, name) ==
  /\ at' = [at EXCEPT ![c] = "loading"]
  /\ call' = [call EXCEPT ![c] = name]
  /\ seen' = [seen EXCEPT ![c] = items]
  /\ took' = [took EXCEPT ![c] = 0]
  /\ UNCHANGED <<items, loaded, read, served>>

Miss(c) == at[c] = "idle" /\ (items = None \/ (TTL > 0 /\ loaded >= TTL)) /\ Begin(c, "Items")
Reload(c) == at[c] = "idle" /\ Begin(c, "Reload")

(* The store answers with the records of this moment; BuildTree follows.     *)
MenuRecords(c) ==
  /\ at[c] = "loading"
  /\ at' = [at EXCEPT ![c] = "storing"]
  /\ read' = [read EXCEPT ![c] = 0]
  /\ UNCHANGED <<items, loaded, call, seen, took, served>>

Done(c) ==
  /\ at' = [at EXCEPT ![c] = "idle"]
  /\ seen' = [seen EXCEPT ![c] = None] /\ read' = [read EXCEPT ![c] = None]
  /\ took' = [took EXCEPT ![c] = 0] /\ call' = [call EXCEPT ![c] = "Items"]

(* An error of the store or of BuildTree: Items serves what it found.        *)
LoadFails(c) ==
  /\ at[c] \in {"loading", "storing"}
  /\ Done(c)
  /\ IF call[c] = "Items" THEN Answer(seen[c], TRUE) ELSE UNCHANGED served
  /\ UNCHANGED <<items, loaded>>

Store(c) ==
  /\ at[c] = "storing"
  /\ items' = read[c] /\ loaded' = 0
  /\ IF call[c] = "Reload" THEN Done(c) ELSE at' = [at EXCEPT ![c] = "stored"] /\ UNCHANGED <<call, seen, read, took>>
  /\ UNCHANGED served

(* Items reads the cache again: by now it may be another caller's.           *)
ServeStored(c) ==
  /\ at[c] = "stored"
  /\ Answer(items, FALSE)
  /\ Done(c)
  /\ UNCHANGED <<items, loaded>>

Tick ==
  /\ \A c \in Callers : at[c] # "idle" => took[c] < LoadTime
  /\ items' = Older(items)
  /\ loaded' = IF items = None \/ loaded = MaxAge THEN loaded ELSE loaded + 1
  /\ seen' = [c \in Callers |-> Older(seen[c])]
  /\ read' = [c \in Callers |-> Older(read[c])]
  /\ took' = [c \in Callers |-> IF at[c] = "idle" THEN 0 ELSE took[c] + 1]
  /\ UNCHANGED <<at, call, served>>

Next ==
  \/ \E c \in Callers :
       \/ Hit(c) \/ Miss(c) \/ Reload(c) \/ MenuRecords(c)
       \/ LoadFails(c) \/ Store(c) \/ ServeStored(c)
  \/ Tick

Spec == Init /\ [][Next]_vars

-----------------------------------------------------------------------------
(* However reloads overlap, a menu that Items serves without having failed   *)
(* to load was read from the store at most a TTL and one load ago, or two    *)
(* loads where they take longer than the TTL: an older read that is stored   *)
(* last cannot add a second TTL to its age.                                  *)
MenuFreshEnough ==
  served # None /\ ~served.failed =>
    /\ served.age # None
    /\ TTL > 0 => served.age < TTL + LoadTime \/ served.age <= LoadTime + LoadTime
=============================================================================
