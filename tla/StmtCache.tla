------------------------------ MODULE StmtCache ------------------------------
(***************************************************************************)
(* The prepared-statement cache of pkg/db (stmtCache): an LRU of           *)
(* reference-counted entries.  acquire looks the key up under the lock,    *)
(* prepares outside it and looks again; entries are evicted while other    *)
(* goroutines still execute their statement, and the last of those closes  *)
(* it.  An entry and its *sql.Stmt are one member of Stmts; a closed       *)
(* member that nobody refers to stands for any statement not yet prepared. *)
(***************************************************************************)
EXTENDS Integers, FiniteSets, SequencesExt

CONSTANTS
  Callers,  \* goroutines executing ExecPrepared / QueryPrepared
  Keys,     \* distinct SQL texts
  Stmts,    \* prepared statements (entries)
  Size,     \* StmtCacheSize; 0 stands for every value <= 0: unbounded
  None

ASSUME StmtCacheAssumption ==
  /\ Size \in Nat
  /\ None \notin Stmts \cup Keys
  /\ IsFiniteSet(Callers)

VARIABLES
  items,    \* c.items: key -> entry, None when absent
  lru,      \* c.lru, front first
  closed,   \* c.closed
  refs, evicted,   \* fields of stmtEntry
  keyOf,           \* stmtEntry.key (None before the first use)
  handle,   \* the *sql.Stmt: "open" or "closed"
  pc,       \* where each goroutine is between acquire and release
  key,      \* the key it asked for
  held      \* the statement it prepared or acquired

vars == <<items, lru, closed, refs, evicted, keyOf, handle, pc, key, held>>

Init ==
  /\ items = [k \in Keys |-> None]
  /\ lru = <<>>
  /\ closed = FALSE
  /\ refs = [s \in Stmts |-> 0]
  /\ evicted = [s \in Stmts |-> FALSE]
  /\ keyOf = [s \in Stmts |-> None]
  /\ handle = [s \in Stmts |-> "closed"]
  /\ pc = [c \in Callers |-> "idle"]
  /\ key = [c \in Callers |-> None]
  /\ held = [c \in Callers |-> None]

-----------------------------------------------------------------------------
Goto(c, label) == pc' = [pc EXCEPT ![c] = label]

MoveToFront(q, s) == <<s>> \o RemoveAt(q, CHOOSE i \in 1 .. Len(q) : q[i] = s)

(* Mutant: eviction closes a statement in use. *)
EvictAtOnce(E, m, r) ==
  /\ evicted' = [s \in Stmts |-> evicted[s] \/ s \in E]
  /\ items' = [k \in Keys |-> IF m[k] \in E THEN None ELSE m[k]]
  /\ handle' = [s \in Stmts |-> IF s \in E THEN "closed" ELSE handle[s]]

(* evictLocked for every entry of E: m is the map and r the reference        *)
(* counts at that moment.                                                    *)
Evict(E, m, r) ==
  /\ evicted' = [s \in Stmts |-> evicted[s] \/ s \in E]
  /\ items' = [k \in Keys |-> IF m[k] \in E THEN None ELSE m[k]]
  /\ handle' = [s \in Stmts |-> IF s \in E /\ r[s] = 0 THEN "closed" ELSE handle[s]]

(* A hit: take a reference and make the entry the most recently used.        *)
Hit(c, s) ==
  /\ refs' = [refs EXCEPT ![s] = @ + 1]
  /\ lru' = MoveToFront(lru, s)
  /\ held' = [held EXCEPT ![c] = s]
  /\ Goto(c, "using")

(* acquire, first critical section. *)
AcquireHit(c, k) ==
  /\ pc[c] = "idle"
  /\ items[k] # None /\ ~closed
  /\ Hit(c, items[k])
  /\ key' = [key EXCEPT ![c] = k]
  /\ UNCHANGED <<items, closed, evicted, keyOf, handle>>

AcquireMiss(c, k) ==
  /\ pc[c] = "idle"
  /\ items[k] = None \/ closed
  /\ Goto(c, "preparing")
  /\ key' = [key EXCEPT ![c] = k]
  /\ UNCHANGED <<items, lru, closed, refs, evicted, keyOf, handle, held>>

(* PrepareContext runs without the lock. *)
Fresh(s) == handle[s] = "closed" /\ \A c \in Callers : held[c] # s

PrepareOK(c, s) ==
  /\ pc[c] = "preparing"
  /\ Fresh(s)
  /\ handle' = [handle EXCEPT ![s] = "open"]
  /\ held' = [held EXCEPT ![c] = s]
  /\ refs' = [refs EXCEPT ![s] = 0]
  /\ evicted' = [evicted EXCEPT ![s] = FALSE]
  /\ keyOf' = [keyOf EXCEPT ![s] = None]
  /\ Goto(c, "prepared")
  /\ UNCHANGED <<items, lru, closed, key>>

PrepareFails(c) ==
  /\ pc[c] = "preparing"
  /\ Goto(c, "idle")
  /\ key' = [key EXCEPT ![c] = None]
  /\ UNCHANGED <<items, lru, closed, refs, evicted, keyOf, handle, held>>

(* Mutant: the entry handed out by a closed cache has no reference. *)
InsertClosedUncounted(c) ==
  /\ pc[c] = "prepared" /\ closed
  /\ evicted' = [evicted EXCEPT ![held[c]] = TRUE]
  /\ keyOf' = [keyOf EXCEPT ![held[c]] = key[c]]
  /\ Goto(c, "using")
  /\ UNCHANGED <<items, lru, closed, refs, handle, key, held>>

(* acquire, second critical section: the cache was closed meanwhile ...      *)
InsertClosed(c) ==
  /\ pc[c] = "prepared" /\ closed
  /\ refs' = [refs EXCEPT ![held[c]] = 1]
  /\ evicted' = [evicted EXCEPT ![held[c]] = TRUE]
  /\ keyOf' = [keyOf EXCEPT ![held[c]] = key[c]]
  /\ Goto(c, "using")
  /\ UNCHANGED <<items, lru, closed, handle, key, held>>

(* Mutant: the loser of the race forgets to close its statement. *)
InsertLostLeaks(c) ==
  /\ pc[c] = "prepared" /\ ~closed
  /\ items[key[c]] # None
  /\ Hit(c, items[key[c]])
  /\ UNCHANGED <<items, closed, evicted, keyOf, handle, key>>

(* ... or another goroutine has cached the same key: close our own ...       *)
InsertLost(c) ==
  /\ pc[c] = "prepared" /\ ~closed
  /\ items[key[c]] # None
  /\ Hit(c, items[key[c]])
  /\ handle' = [handle EXCEPT ![held[c]] = "closed"]
  /\ UNCHANGED <<items, closed, evicted, keyOf, key>>

(* ... or ours becomes the entry, and the overflow is evicted from the back. *)
InsertNew(c) ==
  /\ pc[c] = "prepared" /\ ~closed
  /\ items[key[c]] = None
  /\ LET s == held[c]
         r == [refs EXCEPT ![s] = 1]
         q == <<s>> \o lru
         kept == IF Size > 0 /\ Len(q) > Size THEN Size ELSE Len(q)
     IN  /\ refs' = r
         /\ lru' = SubSeq(q, 1, kept)
         /\ Evict({q[i] : i \in kept + 1 .. Len(q)}, [items EXCEPT ![key[c]] = s], r)
         /\ keyOf' = [keyOf EXCEPT ![s] = key[c]]
  /\ Goto(c, "using")
  /\ UNCHANGED <<closed, key, held>>

Release(c) ==
  /\ pc[c] = "using"
  /\ LET s == held[c]
     IN  /\ refs' = [refs EXCEPT ![s] = @ - 1]
         /\ handle' = [handle EXCEPT ![s] = IF evicted[s] /\ refs[s] = 1 THEN "closed" ELSE @]
  /\ held' = [held EXCEPT ![c] = None]
  /\ key' = [key EXCEPT ![c] = None]
  /\ Goto(c, "idle")
  /\ UNCHANGED <<items, lru, closed, evicted, keyOf>>

(* runtime.shutdown calls closeAll once; acquires that took the runtime      *)
(* before it was replaced go on afterwards.                                  *)
CloseAll ==
  /\ ~closed
  /\ closed' = TRUE
  /\ lru' = <<>>
  /\ Evict({items[k] : k \in Keys} \ {None}, items, refs)
  /\ UNCHANGED <<refs, keyOf, pc, key, held>>

Next ==
  \/ CloseAll
  \/ \E c \in Callers :
       \/ \E k \in Keys : AcquireHit(c, k) \/ AcquireMiss(c, k)
       \/ \E s \in Stmts : PrepareOK(c, s)
       \/ PrepareFails(c) \/ InsertClosed(c) \/ InsertLost(c) \/ InsertNew(c)
       \/ Release(c)

Spec == Init /\ [][Next]_vars

-----------------------------------------------------------------------------
TypeOK ==
  /\ items \in [Keys -> Stmts \cup {None}]
  /\ lru \in Seq(Stmts)
  /\ closed \in BOOLEAN
  /\ refs \in [Stmts -> Nat]
  /\ evicted \in [Stmts -> BOOLEAN]
  /\ keyOf \in [Stmts -> Keys \cup {None}]
  /\ handle \in [Stmts -> {"open", "closed"}]
  /\ pc \in [Callers -> {"idle", "preparing", "prepared", "using"}]
  /\ key \in [Callers -> Keys \cup {None}]
  /\ held \in [Callers -> Stmts \cup {None}]

Using(s) == {c \in Callers : pc[c] = "using" /\ held[c] = s}
Cached == {items[k] : k \in Keys} \ {None}

(* Nobody executes a closed statement, whatever is evicted or closed         *)
(* meanwhile, and the statement is the one for the key that was asked for.   *)
InUseIsOpen ==
  \A c \in Callers : pc[c] = "using" => /\ handle[held[c]] = "open"
                                        /\ keyOf[held[c]] = key[c]

(* A server-side statement is open only while the cache can still find it or *)
(* a goroutine still holds it: eviction, losing the race to insert and       *)
(* closing the cache leak nothing.                                           *)
NoLeak ==
  \A s \in Stmts : handle[s] = "open" => s \in Cached \/ \E c \in Callers : held[c] = s

(* refs counts exactly the goroutines executing the entry's statement, so    *)
(* the last of them, and only the last, closes an evicted one.               *)
RefsExact ==
  \A s \in Stmts : handle[s] = "open" => refs[s] = Cardinality(Using(s))

(* The map and the list hold the same entries, each open, not evicted and    *)
(* under its own key; the list has no duplicates and the bound is kept;      *)
(* a closed cache is empty.                                                  *)
MapAndListAgree ==
  /\ ToSet(lru) = Cached /\ Cardinality(Cached) = Len(lru)
  /\ \A k \in Keys : items[k] # None => /\ handle[items[k]] = "open"
                                        /\ ~evicted[items[k]]
                                        /\ keyOf[items[k]] = k
  /\ Size > 0 => Len(lru) <= Size
  /\ closed => lru = <<>>

(* The books of the cache as a whole: what is counted and what is listed is  *)
(* what there is.                                                            *)
Bookkeeping == RefsExact /\ MapAndListAgree
=============================================================================
