--------------------------- MODULE StmtCacheProofs ---------------------------
(***************************************************************************)
(* Proofs about StmtCache, for any callers, texts, statements and size.    *)
(* The order of the LRU list plays no part: whatever Evict is given to     *)
(* evict, nobody is left with a closed statement and none leaks.  What the *)
(* two promises need besides RefsExact is that a statement between prepare *)
(* and insertion belongs to one goroutine alone, and that an entry in use  *)
(* which the map has lost is marked evicted.                               *)
(***************************************************************************)
EXTENDS StmtCache, FiniteSetTheorems, FunctionTheorems, TLAPS

Types ==
  /\ items \in [Keys -> Stmts \cup {None}]
  /\ closed \in BOOLEAN
  /\ refs \in [Stmts -> Int]
  /\ evicted \in [Stmts -> BOOLEAN]
  /\ keyOf \in [Stmts -> Keys \cup {None}]
  /\ handle \in [Stmts -> {"open", "closed"}]
  /\ pc \in [Callers -> {"idle", "preparing", "prepared", "using"}]
  /\ key \in [Callers -> Keys \cup {None}]
  /\ held \in [Callers -> Stmts \cup {None}]
  /\ \A c \in Callers : /\ held[c] # None <=> pc[c] \in {"prepared", "using"}
                        /\ pc[c] # "idle" => key[c] \in Keys

(* What the map leads to can be executed. *)
EntriesOpen ==
  \A k \in Keys : items[k] # None => /\ handle[items[k]] = "open"
                                     /\ ~evicted[items[k]]
                                     /\ keyOf[items[k]] = k

(* A prepared statement is its goroutine's alone. *)
PreparedIsPrivate ==
  \A c \in Callers : pc[c] = "prepared" =>
    /\ handle[held[c]] = "open" /\ ~evicted[held[c]]
    /\ \A d \in Callers : d # c => held[d] # held[c]
    /\ \A k \in Keys : items[k] # held[c]

(* A statement in use that is not in the map any more is marked evicted.     *)
InUseCachedOrEvicted ==
  \A c \in Callers : pc[c] = "using" => evicted[held[c]] \/ items[key[c]] = held[c]

(* NoLeak, by the keys. *)
OpenIsReachable ==
  \A s \in Stmts : handle[s] = "open" =>
    (\E k \in Keys : items[k] = s) \/ (\E c \in Callers : held[c] = s)

Safe ==
  /\ Types /\ EntriesOpen /\ PreparedIsPrivate
  /\ InUseCachedOrEvicted /\ InUseIsOpen /\ OpenIsReachable

(* The list and the map, element by element. *)
ListMatchesMap ==
  /\ lru \in Seq(Stmts)
  /\ \A i \in 1 .. Len(lru) : \E k \in Keys : items[k] = lru[i]
  /\ \A k \in Keys : items[k] # None => \E i \in 1 .. Len(lru) : lru[i] = items[k]
  /\ \A i, j \in 1 .. Len(lru) : lru[i] = lru[j] => i = j
  /\ Size > 0 => Len(lru) <= Size
  /\ closed => lru = <<>>

IInv == Safe /\ RefsExact /\ ListMatchesMap

-----------------------------------------------------------------------------
(* What MoveToFront does to each place of a list. *)
LEMMA MoveToFrontPlaces ==
  ASSUME NEW q \in Seq(Stmts), NEW s \in Stmts, \E i \in 1 .. Len(q) : q[i] = s
  PROVE  \E i \in 1 .. Len(q) :
           /\ q[i] = s
           /\ MoveToFront(q, s) \in Seq(Stmts)
           /\ Len(MoveToFront(q, s)) = Len(q)
           /\ MoveToFront(q, s)[1] = s
           /\ \A j \in 2 .. i : MoveToFront(q, s)[j] = q[j - 1]
           /\ \A j \in i + 1 .. Len(q) : MoveToFront(q, s)[j] = q[j]
<1> DEFINE i == CHOOSE n \in 1 .. Len(q) : q[n] = s
           head == SubSeq(q, 1, i - 1)
           tail == SubSeq(q, i + 1, Len(q))
           rest == head \o tail
<1>1. i \in 1 .. Len(q) /\ q[i] = s
  OBVIOUS
<1>2. MoveToFront(q, s) = <<s>> \o rest
  BY DEF MoveToFront, RemoveAt
<1> HIDE DEF i
<1>3. head \in Seq(Stmts) /\ Len(head) = i - 1 /\ \A j \in 1 .. i - 1 : head[j] = q[j]
  BY <1>1
<1>4. tail \in Seq(Stmts) /\ Len(tail) = Len(q) - i
      /\ \A j \in 1 .. Len(q) - i : tail[j] = q[j + i]
  BY <1>1
<1> HIDE DEF head, tail
<1>5. rest \in Seq(Stmts) /\ Len(rest) = Len(q) - 1
  <2>1. rest \in Seq(Stmts)
    BY <1>3, <1>4
  <2>2. Len(rest) = Len(head) + Len(tail)
    BY <1>3, <1>4
  <2>3. Len(q) \in Nat
    OBVIOUS
  <2>4. QED  BY <1>1, <1>3, <1>4, <2>1, <2>2, <2>3
<1>6. \A j \in 1 .. i - 1 : rest[j] = q[j]
  BY <1>1, <1>3, <1>4
<1>7. ASSUME NEW j \in i .. Len(q) - 1 PROVE rest[j] = q[j + 1]
  <2>1. j \in Nat /\ j > Len(head) /\ j <= Len(head) + Len(tail) /\ j - (i - 1) \in 1 .. Len(q) - i
    BY <1>1, <1>3, <1>4
  <2>2. rest[j] = tail[j - Len(head)]
    BY <2>1, <1>3, <1>4
  <2>3. tail[j - (i - 1)] = q[(j - (i - 1)) + i]
    BY <2>1, <1>4
  <2>4. QED  BY <1>1, <1>3, <2>1, <2>2, <2>3
<1> HIDE DEF rest
<1>8. MoveToFront(q, s) \in Seq(Stmts) /\ Len(MoveToFront(q, s)) = Len(q)
      /\ MoveToFront(q, s)[1] = s
  BY <1>1, <1>2, <1>5
<1>9. ASSUME NEW j \in 2 .. Len(q) PROVE MoveToFront(q, s)[j] = rest[j - 1]
  BY <1>1, <1>2, <1>5
<1>10. \A j \in 2 .. i : MoveToFront(q, s)[j] = q[j - 1]
  BY <1>1, <1>6, <1>9
<1>11. ASSUME NEW j \in i + 1 .. Len(q) PROVE MoveToFront(q, s)[j] = q[j]
  <2>1. j - 1 \in i .. Len(q) - 1 /\ j \in 2 .. Len(q) /\ (j - 1) + 1 = j
    BY <1>1
  <2>2. QED  BY <2>1, <1>7, <1>9
<1>12. QED  BY <1>1, <1>8, <1>10, <1>11

-----------------------------------------------------------------------------
(* Counting users. *)
LEMMA UsingFinite ==
  ASSUME NEW s PROVE IsFiniteSet(Using(s)) /\ Cardinality(Using(s)) \in Nat
<1>1. Using(s) \in SUBSET Callers
  BY DEF Using
<1>2. QED  BY <1>1, StmtCacheAssumption, FS_Subset, FS_CardinalityType

(* The use of a statement by one goroutine is in its count ... *)
LEMMA UserCounted ==
  ASSUME IInv, NEW c \in Callers, pc[c] = "using"
  PROVE  refs[held[c]] >= 1
<1>1. held[c] \in Stmts /\ handle[held[c]] = "open" /\ c \in Using(held[c])
  BY DEF IInv, Safe, Types, InUseIsOpen, Using
<1>2. Cardinality(Using(held[c])) # 0
  BY <1>1, UsingFinite, FS_EmptySet
<1>3. QED  BY <1>1, <1>2, UsingFinite DEF IInv, RefsExact

(* ... and when it is all of the count, there is no other user.              *)
LEMMA LastUser ==
  ASSUME IInv, NEW c \in Callers, pc[c] = "using", refs[held[c]] = 1,
         NEW d \in Callers, pc[d] = "using", held[d] = held[c]
  PROVE  d = c
<1>1. held[c] \in Stmts /\ handle[held[c]] = "open"
  BY DEF IInv, Safe, Types, InUseIsOpen
<1>2. Cardinality(Using(held[c])) = 1
  BY <1>1 DEF IInv, RefsExact
<1>3. PICK x : Using(held[c]) = {x}
  BY <1>2, UsingFinite, FS_Singleton
<1>4. c \in Using(held[c]) /\ d \in Using(held[c])
  BY DEF Using
<1>5. QED  BY <1>3, <1>4

(* Nobody uses a statement that nobody, or only its preparer, holds.         *)
LEMMA NoUserNoCount ==
  ASSUME NEW s, \A c \in Callers : ~(pc[c] = "using" /\ held[c] = s)
  PROVE  Cardinality(Using(s)) = 0
<1>1. Using(s) = {}
  BY DEF Using
<1>2. QED  BY <1>1, FS_EmptySet

(* One more user. *)
LEMMA OneMore ==
  ASSUME NEW c \in Callers, NEW s \in Stmts, pc[c] # "using",
         pc' = [pc EXCEPT ![c] = "using"], held' = [held EXCEPT ![c] = s],
         pc \in [Callers -> {"idle", "preparing", "prepared", "using"}],
         held \in [Callers -> Stmts \cup {None}]
  PROVE  /\ Cardinality(Using(s)') = Cardinality(Using(s)) + 1
         /\ \A t \in Stmts : t # s => Using(t)' = Using(t)
<1>1. Using(s)' = Using(s) \cup {c} /\ c \notin Using(s)
  BY DEF Using
<1>2. \A t \in Stmts : t # s => Using(t)' = Using(t)
  BY DEF Using
<1>3. QED  BY <1>1, <1>2, UsingFinite, FS_AddElement

-----------------------------------------------------------------------------
(* Safe is kept by every action. *)
LEMMA HitSafe == ASSUME Safe, NEW c \in Callers, NEW k \in Keys, AcquireHit(c, k) PROVE Safe'
<1>1. Types'
  BY DEF Safe, Types, AcquireHit, Hit, Goto
<1>2. EntriesOpen'
  BY DEF Safe, Types, EntriesOpen, AcquireHit, Hit, Goto
<1>3. PreparedIsPrivate'
  BY DEF Safe, Types, PreparedIsPrivate, EntriesOpen, AcquireHit, Hit, Goto
<1>4. InUseCachedOrEvicted'
  BY DEF Safe, Types, InUseCachedOrEvicted, PreparedIsPrivate, AcquireHit, Hit, Goto
<1>5. InUseIsOpen'
  BY DEF Safe, Types, EntriesOpen, PreparedIsPrivate, InUseCachedOrEvicted, InUseIsOpen, AcquireHit, Hit, Goto
<1>6. OpenIsReachable'
  <2>1. \A d \in Callers : held[d] \in Stmts => held'[d] = held[d]
    BY StmtCacheAssumption DEF Safe, Types, AcquireHit, Hit, Goto
  <2>2. handle' = handle /\ items' = items
    BY DEF Safe, Types, AcquireHit, Hit, Goto
  <2>3. QED  BY <2>1, <2>2 DEF Safe, Types, OpenIsReachable
<1>7. QED  BY <1>1, <1>2, <1>3, <1>4, <1>5, <1>6 DEF Safe

LEMMA MissSafe == ASSUME Safe, NEW c \in Callers, NEW k \in Keys, AcquireMiss(c, k) PROVE Safe'
<1>1. Types'
  BY DEF Safe, Types, AcquireMiss, Goto
<1>2. EntriesOpen'
  BY DEF Safe, Types, EntriesOpen, AcquireMiss, Goto
<1>3. PreparedIsPrivate'
  BY DEF Safe, Types, PreparedIsPrivate, EntriesOpen, AcquireMiss, Goto
<1>4. InUseCachedOrEvicted'
  BY DEF Safe, Types, InUseCachedOrEvicted, PreparedIsPrivate, AcquireMiss, Goto
<1>5. InUseIsOpen'
  BY DEF Safe, Types, EntriesOpen, PreparedIsPrivate, InUseCachedOrEvicted, InUseIsOpen, AcquireMiss, Goto
<1>6. OpenIsReachable'
  BY DEF Safe, Types, PreparedIsPrivate, InUseCachedOrEvicted, OpenIsReachable, AcquireMiss, Goto
<1>7. QED  BY <1>1, <1>2, <1>3, <1>4, <1>5, <1>6 DEF Safe

LEMMA PrepareSafe == ASSUME Safe, NEW c \in Callers, NEW s \in Stmts, PrepareOK(c, s) PROVE Safe'
<1>1. Types'
  BY DEF Safe, Types, PrepareOK, Fresh, Goto
<1>2. EntriesOpen'
  BY DEF Safe, Types, EntriesOpen, PrepareOK, Fresh, Goto
<1>3. PreparedIsPrivate'
  BY DEF Safe, Types, PreparedIsPrivate, EntriesOpen, PrepareOK, Fresh, Goto
<1>4. InUseCachedOrEvicted'
  BY DEF Safe, Types, InUseCachedOrEvicted, PreparedIsPrivate, PrepareOK, Fresh, Goto
<1>5. InUseIsOpen'
  BY DEF Safe, Types, EntriesOpen, PreparedIsPrivate, InUseCachedOrEvicted, InUseIsOpen, PrepareOK, Fresh, Goto
<1>6. OpenIsReachable'
  <2>1. \A d \in Callers : held[d] \in Stmts => held'[d] = held[d]
    BY StmtCacheAssumption DEF Safe, Types, PrepareOK, Fresh, Goto
  <2>2. items' = items /\ handle' = [handle EXCEPT ![s] = "open"] /\ held'[c] = s
    BY DEF Safe, Types, PrepareOK, Fresh, Goto
  <2>3. QED  BY <2>1, <2>2 DEF Safe, Types, OpenIsReachable
<1>7. QED  BY <1>1, <1>2, <1>3, <1>4, <1>5, <1>6 DEF Safe

LEMMA PrepareFailsSafe == ASSUME Safe, NEW c \in Callers, PrepareFails(c) PROVE Safe'
<1>1. Types'
  BY DEF Safe, Types, PrepareFails, Goto
<1>2. EntriesOpen'
  BY DEF Safe, Types, EntriesOpen, PrepareFails, Goto
<1>3. PreparedIsPrivate'
  BY DEF Safe, Types, PreparedIsPrivate, EntriesOpen, PrepareFails, Goto
<1>4. InUseCachedOrEvicted'
  BY DEF Safe, Types, InUseCachedOrEvicted, PreparedIsPrivate, PrepareFails, Goto
<1>5. InUseIsOpen'
  BY DEF Safe, Types, EntriesOpen, PreparedIsPrivate, InUseCachedOrEvicted, InUseIsOpen, PrepareFails, Goto
<1>6. OpenIsReachable'
  BY DEF Safe, Types, PreparedIsPrivate, InUseCachedOrEvicted, OpenIsReachable, PrepareFails, Goto
<1>7. QED  BY <1>1, <1>2, <1>3, <1>4, <1>5, <1>6 DEF Safe

LEMMA InsertClosedSafe == ASSUME Safe, NEW c \in Callers, InsertClosed(c) PROVE Safe'
<1>1. Types'
  BY DEF Safe, Types, InsertClosed, Goto
<1>2. EntriesOpen'
  BY DEF Safe, Types, EntriesOpen, PreparedIsPrivate, InsertClosed, Goto
<1>3. PreparedIsPrivate'
  BY DEF Safe, Types, PreparedIsPrivate, EntriesOpen, InsertClosed, Goto
<1>4. InUseCachedOrEvicted'
  BY DEF Safe, Types, InUseCachedOrEvicted, PreparedIsPrivate, InsertClosed, Goto
<1>5. InUseIsOpen'
  BY DEF Safe, Types, EntriesOpen, PreparedIsPrivate, InUseCachedOrEvicted, InUseIsOpen, InsertClosed, Goto
<1>6. OpenIsReachable'
  BY DEF Safe, Types, PreparedIsPrivate, InUseCachedOrEvicted, OpenIsReachable, InsertClosed, Goto
<1>7. QED  BY <1>1, <1>2, <1>3, <1>4, <1>5, <1>6 DEF Safe

LEMMA InsertLostSafe == ASSUME Safe, NEW c \in Callers, InsertLost(c) PROVE Safe'
<1>1. Types'
  BY DEF Safe, Types, InsertLost, Hit, Goto
<1>2. EntriesOpen'
  BY DEF Safe, Types, EntriesOpen, PreparedIsPrivate, InsertLost, Hit, Goto
<1>3. PreparedIsPrivate'
  BY DEF Safe, Types, PreparedIsPrivate, EntriesOpen, InsertLost, Hit, Goto
<1>4. InUseCachedOrEvicted'
  BY DEF Safe, Types, InUseCachedOrEvicted, PreparedIsPrivate, InsertLost, Hit, Goto
<1>5. InUseIsOpen'
  BY DEF Safe, Types, EntriesOpen, PreparedIsPrivate, InUseCachedOrEvicted, InUseIsOpen, InsertLost, Hit, Goto
<1>6. OpenIsReachable'
  BY DEF Safe, Types, PreparedIsPrivate, InUseCachedOrEvicted, OpenIsReachable, InsertLost, Hit, Goto
<1>7. QED  BY <1>1, <1>2, <1>3, <1>4, <1>5, <1>6 DEF Safe

(* What is counted is held. *)
LEMMA CountedIsHeld ==
  ASSUME IInv, NEW s \in Stmts, handle[s] = "open", refs[s] # 0
  PROVE  \E c \in Callers : held[c] = s
<1>1. Using(s) # {}
  BY NoUserNoCount DEF IInv, RefsExact, Using
<1>2. QED  BY <1>1 DEF Using

(* Evict, for whatever set E of entries: closed are those nobody uses.       *)
LEMMA InsertNewSafe == ASSUME IInv, NEW c \in Callers, InsertNew(c) PROVE Safe'
<1> DEFINE s == held[c]
           q == <<s>> \o lru
           kept == IF Size > 0 /\ Len(q) > Size THEN Size ELSE Len(q)
           E == {q[i] : i \in kept + 1 .. Len(q)}
<1>0. \A t \in E : t = s \/ \E k \in Keys : items[k] = t
  <2> SUFFICES ASSUME NEW i \in kept + 1 .. Len(q) PROVE q[i] = s \/ \E k \in Keys : items[k] = q[i]
    OBVIOUS
  <2>1. lru \in Seq(Stmts) /\ s \in Stmts
    BY StmtCacheAssumption DEF IInv, Safe, Types, ListMatchesMap, InsertNew
  <2>2. Len(q) = Len(lru) + 1 /\ i \in 1 .. Len(q)
    BY <2>1, StmtCacheAssumption
  <2>3. i = 1 \/ (i - 1 \in 1 .. Len(lru) /\ q[i] = lru[i - 1])
    BY <2>1, <2>2
  <2>4. QED  BY <2>1, <2>3 DEF IInv, ListMatchesMap
<1>1. /\ pc[c] = "prepared" /\ ~closed /\ items[key[c]] = None
      /\ refs' = [refs EXCEPT ![s] = 1]
      /\ evicted' = [t \in Stmts |-> evicted[t] \/ t \in E]
      /\ items' = [k \in Keys |-> IF [items EXCEPT ![key[c]] = s][k] \in E THEN None
                                  ELSE [items EXCEPT ![key[c]] = s][k]]
      /\ handle' = [t \in Stmts |-> IF t \in E /\ [refs EXCEPT ![s] = 1][t] = 0
                                    THEN "closed" ELSE handle[t]]
      /\ keyOf' = [keyOf EXCEPT ![s] = key[c]]
      /\ pc' = [pc EXCEPT ![c] = "using"]
      /\ UNCHANGED <<closed, key, held>>
  BY DEF InsertNew, Evict, Goto
<1>2. s \in Stmts /\ key[c] \in Keys /\ s # None
  BY <1>1, StmtCacheAssumption DEF IInv, Safe, Types
<1>3. \A d \in Callers : pc[d] = "using" => held[d] \in Stmts /\ held[d] # s /\ refs[held[d]] >= 1
  BY <1>1, UserCounted DEF IInv, Safe, Types, PreparedIsPrivate
<1>4. \A t \in Stmts : handle[t] = "open" /\ refs[t] # 0 => \E d \in Callers : held[d] = t
  BY CountedIsHeld
<1> HIDE DEF s, E
<1>5. Types'
  BY <1>1, <1>2 DEF IInv, Safe, Types
<1>6. EntriesOpen'
  BY <1>1, <1>2, StmtCacheAssumption DEF s, IInv, Safe, Types, EntriesOpen, PreparedIsPrivate
<1>7. PreparedIsPrivate'
  <2> SUFFICES ASSUME NEW d \in Callers, pc'[d] = "prepared"
               PROVE  /\ handle'[held'[d]] = "open" /\ ~evicted'[held'[d]]
                      /\ \A e \in Callers : e # d => held'[e] # held'[d]
                      /\ \A k \in Keys : items'[k] # held'[d]
    BY DEF PreparedIsPrivate
  <2>1. d # c /\ pc[d] = "prepared" /\ held'[d] = held[d] /\ held[d] \in Stmts /\ held[d] # s
    BY <1>1 DEF s, IInv, Safe, Types, PreparedIsPrivate
  <2>2. held[d] \notin E
    BY <1>0, <2>1, StmtCacheAssumption DEF IInv, Safe, Types, PreparedIsPrivate
  <2>3. QED
    BY <1>1, <1>2, <2>1, <2>2, StmtCacheAssumption
       DEF IInv, Safe, Types, PreparedIsPrivate
<1>8. InUseCachedOrEvicted'
  BY <1>1, <1>2, <1>3 DEF s, IInv, Safe, Types, InUseCachedOrEvicted
<1>9. InUseIsOpen'
  BY <1>1, <1>2, <1>3 DEF s, IInv, Safe, Types, InUseIsOpen, PreparedIsPrivate
<1>10. OpenIsReachable'
  <2> SUFFICES ASSUME NEW t \in Stmts, handle'[t] = "open"
               PROVE  (\E k \in Keys : items'[k] = t) \/ (\E d \in Callers : held'[d] = t)
    BY DEF OpenIsReachable
  <2>1. CASE t = s
    BY <1>1, <2>1 DEF s
  <2>2. CASE t # s /\ t \in E
    BY <1>1, <1>2, <1>4, <2>2 DEF IInv, Safe, Types
  <2>3. CASE t # s /\ t \notin E
    <3>1. handle[t] = "open"
      BY <1>1, <2>3
    <3>2. CASE \E d \in Callers : held[d] = t
      BY <1>1, <3>2
    <3>3. CASE \E k \in Keys : items[k] = t
      <4> PICK k \in Keys : items[k] = t
        BY <3>3
      <4>1. k # key[c] /\ t # None
        BY <1>1, StmtCacheAssumption
      <4>2. items'[k] = t
        BY <1>1, <2>3, <4>1 DEF IInv, Safe, Types
      <4>3. QED  BY <4>2
    <3>4. QED  BY <3>1, <3>2, <3>3 DEF IInv, Safe, OpenIsReachable
  <2>4. QED  BY <2>1, <2>2, <2>3
<1>11. QED  BY <1>5, <1>6, <1>7, <1>8, <1>9, <1>10 DEF Safe

LEMMA ReleaseSafe == ASSUME IInv, NEW c \in Callers, Release(c) PROVE Safe'
<1> DEFINE s == held[c]
<1>1. s \in Stmts /\ key[c] \in Keys /\ handle[s] = "open" /\ refs[s] >= 1
  BY UserCounted DEF Release, IInv, Safe, Types, InUseIsOpen
<1>2. \A d \in Callers : refs[s] = 1 /\ pc[d] = "using" /\ held[d] = s => d = c
  BY LastUser DEF Release
<1>3. \A t \in Stmts : t # s => handle'[t] = handle[t]
  BY DEF Release, IInv, Safe, Types
<1>4. handle'[s] = IF evicted[s] /\ refs[s] = 1 THEN "closed" ELSE "open"
  BY <1>1 DEF Release, IInv, Safe, Types
<1>5. \A d \in Callers : d # c => held'[d] = held[d] /\ pc'[d] = pc[d] /\ key'[d] = key[d]
  BY DEF Release, Goto, IInv, Safe, Types
<1>6. held'[c] = None /\ pc'[c] = "idle"
  BY DEF Release, Goto, IInv, Safe, Types
<1>7. Types'
  BY <1>1, StmtCacheAssumption DEF Release, Goto, IInv, Safe, Types
<1>8. UNCHANGED <<items, lru, closed, evicted, keyOf>>
  BY DEF Release
<1> HIDE DEF s
<1>9. EntriesOpen'
  BY <1>1, <1>3, <1>4, <1>8 DEF IInv, Safe, Types, EntriesOpen
<1>10. PreparedIsPrivate'
  <2> SUFFICES ASSUME NEW d \in Callers, pc'[d] = "prepared"
               PROVE  /\ handle'[held'[d]] = "open" /\ ~evicted'[held'[d]]
                      /\ \A e \in Callers : e # d => held'[e] # held'[d]
                      /\ \A k \in Keys : items'[k] # held'[d]
    BY DEF PreparedIsPrivate
  <2>1. d # c /\ pc[d] = "prepared" /\ held'[d] = held[d]
    BY <1>5, <1>6
  <2>2. held[d] # s /\ held[d] \in Stmts
    BY <2>1, StmtCacheAssumption DEF s, IInv, Safe, Types, PreparedIsPrivate
  <2>3. QED
    BY <1>3, <1>5, <1>6, <1>8, <2>1, <2>2, StmtCacheAssumption DEF IInv, Safe, PreparedIsPrivate
<1>11. InUseCachedOrEvicted'
  BY <1>5, <1>6, <1>8 DEF IInv, Safe, InUseCachedOrEvicted
<1>12. InUseIsOpen'
  <2> SUFFICES ASSUME NEW d \in Callers, pc'[d] = "using"
               PROVE  handle'[held'[d]] = "open" /\ keyOf'[held'[d]] = key'[d]
    BY DEF InUseIsOpen
  <2>1. d # c /\ pc[d] = "using" /\ held'[d] = held[d] /\ key'[d] = key[d]
    BY <1>5, <1>6
  <2>2. held[d] \in Stmts /\ handle[held[d]] = "open" /\ keyOf[held[d]] = key[d]
    BY <2>1, StmtCacheAssumption DEF IInv, Safe, Types, InUseIsOpen
  <2>3. CASE held[d] = s
    BY <1>2, <1>4, <1>8, <2>1, <2>2, <2>3
  <2>4. CASE held[d] # s
    BY <1>3, <1>8, <2>1, <2>2, <2>4
  <2>5. QED  BY <2>3, <2>4
<1>13. OpenIsReachable'
  <2> SUFFICES ASSUME NEW t \in Stmts, handle'[t] = "open"
               PROVE  (\E k \in Keys : items'[k] = t) \/ (\E d \in Callers : held'[d] = t)
    BY DEF OpenIsReachable
  <2>1. CASE t # s
    <3>1. (\E k \in Keys : items[k] = t) \/ (\E d \in Callers : held[d] = t)
      BY <1>3, <2>1 DEF IInv, Safe, OpenIsReachable
    <3>2. QED  BY <1>5, <1>8, <2>1, <3>1 DEF s
  <2>2. CASE t = s /\ ~evicted[s]
    <3>1. items[key[c]] = s
      BY <2>2 DEF s, Release, IInv, Safe, InUseCachedOrEvicted
    <3>2. QED  BY <1>1, <1>8, <2>2, <3>1
  <2>3. CASE t = s /\ evicted[s]
    <3>1. refs[s] # 1
      BY <1>4, <2>3
    <3>2. Cardinality(Using(s)) # 1
      BY <1>1, <3>1 DEF IInv, RefsExact
    <3>3. Using(s) # {c}
      BY <3>2, FS_Singleton
    <3>4. c \in Using(s)
      BY DEF s, Release, Using
    <3>5. PICK d \in Callers : d # c /\ held[d] = s
      BY <3>3, <3>4 DEF Using
    <3>6. QED  BY <1>5, <2>3, <3>5
  <2>4. QED  BY <2>1, <2>2, <2>3
<1>14. QED  BY <1>7, <1>9, <1>10, <1>11, <1>12, <1>13 DEF Safe

LEMMA CloseAllSafe == ASSUME IInv, CloseAll PROVE Safe'
<1> DEFINE E == {items[k] : k \in Keys} \ {None}
<1>1. /\ evicted' = [t \in Stmts |-> evicted[t] \/ t \in E]
      /\ \A k \in Keys : items'[k] = None
      /\ handle' = [t \in Stmts |-> IF t \in E /\ refs[t] = 0 THEN "closed" ELSE handle[t]]
      /\ closed' = TRUE
      /\ UNCHANGED <<refs, keyOf, pc, key, held>>
      /\ items' = [k \in Keys |-> IF items[k] \in E THEN None ELSE items[k]]
  <2>1. /\ evicted' = [t \in Stmts |-> evicted[t] \/ t \in E]
        /\ handle' = [t \in Stmts |-> IF t \in E /\ refs[t] = 0 THEN "closed" ELSE handle[t]]
        /\ closed' = TRUE
        /\ UNCHANGED <<refs, keyOf, pc, key, held>>
        /\ items' = [k \in Keys |-> IF items[k] \in E THEN None ELSE items[k]]
    BY DEF CloseAll, Evict
  <2>2. \A k \in Keys : items[k] # None => items[k] \in E
    OBVIOUS
  <2>3. QED  BY <2>1, <2>2
<1>2. \A t \in Stmts : t \in E <=> \E k \in Keys : items[k] = t
  BY StmtCacheAssumption
<1>3. \A d \in Callers : pc[d] = "using" => refs[held[d]] >= 1
  BY UserCounted
<1>4. \A t \in Stmts : handle[t] = "open" /\ refs[t] # 0 => \E d \in Callers : held[d] = t
  BY CountedIsHeld
<1> HIDE DEF E
<1>5. Types'
  BY <1>1 DEF IInv, Safe, Types
<1>6. EntriesOpen'
  BY <1>1 DEF EntriesOpen
<1>7. PreparedIsPrivate'
  BY <1>1, <1>2, StmtCacheAssumption DEF IInv, Safe, Types, PreparedIsPrivate
<1>8. InUseCachedOrEvicted'
  <2> SUFFICES ASSUME NEW d \in Callers, pc[d] = "using" PROVE evicted'[held[d]]
    BY <1>1 DEF InUseCachedOrEvicted
  <2>1. held[d] \in Stmts /\ key[d] \in Keys
    BY StmtCacheAssumption DEF IInv, Safe, Types
  <2>2. evicted[held[d]] \/ held[d] \in E
    BY <1>2, <2>1 DEF IInv, Safe, InUseCachedOrEvicted
  <2>3. QED  BY <1>1, <2>1, <2>2
<1>9. InUseIsOpen'
  BY <1>1, <1>3, StmtCacheAssumption DEF IInv, Safe, Types, InUseIsOpen
<1>10. OpenIsReachable'
  BY <1>1, <1>2, <1>4 DEF IInv, Safe, Types, OpenIsReachable
<1>11. QED  BY <1>5, <1>6, <1>7, <1>8, <1>9, <1>10 DEF Safe

-----------------------------------------------------------------------------
(* ListMatchesMap is kept by every action. *)
LEMMA HitList ==
  ASSUME ListMatchesMap, Types, NEW k \in Keys, items[k] # None,
         lru' = MoveToFront(lru, items[k]), UNCHANGED <<items, closed>>
  PROVE  ListMatchesMap'
<1>1. items[k] \in Stmts /\ \E i \in 1 .. Len(lru) : lru[i] = items[k]
  BY DEF ListMatchesMap, Types
<1>2. PICK i \in 1 .. Len(lru) :
        /\ lru[i] = items[k]
        /\ lru' \in Seq(Stmts)
        /\ Len(lru') = Len(lru)
        /\ lru'[1] = items[k]
        /\ \A j \in 2 .. i : lru'[j] = lru[j - 1]
        /\ \A j \in i + 1 .. Len(lru) : lru'[j] = lru[j]
  BY <1>1, MoveToFrontPlaces DEF ListMatchesMap
<1>3. Len(lru) \in Nat
  BY DEF ListMatchesMap
<1> DEFINE from(j) == IF j = 1 THEN i ELSE IF j <= i THEN j - 1 ELSE j
<1>4. \A j \in 1 .. Len(lru) : from(j) \in 1 .. Len(lru) /\ lru'[j] = lru[from(j)]
  BY <1>2, <1>3
<1>5. \A j, n \in 1 .. Len(lru) : from(j) = from(n) => j = n
  BY <1>3
<1>6. \A n \in 1 .. Len(lru) : \E j \in 1 .. Len(lru) : from(j) = n
  <2> TAKE n \in 1 .. Len(lru)
  <2>1. CASE n = i
    <3>1. from(1) = n /\ 1 \in 1 .. Len(lru)
      BY <1>3, <2>1
    <3>2. QED  BY <3>1
  <2>2. CASE n < i
    <3>1. from(n + 1) = n /\ n + 1 \in 1 .. Len(lru)
      BY <1>3, <2>2
    <3>2. QED  BY <3>1
  <2>3. CASE n > i
    <3>1. from(n) = n
      BY <1>3, <2>3
    <3>2. QED  BY <3>1
  <2>4. QED  BY <1>3, <2>1, <2>2, <2>3
<1> HIDE DEF from
<1>7. \A j \in 1 .. Len(lru') : \E n \in Keys : items'[n] = lru'[j]
  BY <1>2, <1>4 DEF ListMatchesMap
<1>8. \A n \in Keys : items'[n] # None => \E j \in 1 .. Len(lru') : lru'[j] = items'[n]
  <2> SUFFICES ASSUME NEW n \in Keys, items[n] # None
               PROVE  \E j \in 1 .. Len(lru) : lru'[j] = items[n]
    BY <1>2
  <2>1. PICK p \in 1 .. Len(lru) : lru[p] = items[n]
    BY DEF ListMatchesMap
  <2>2. PICK j \in 1 .. Len(lru) : from(j) = p
    BY <1>6
  <2>3. QED  BY <1>4, <2>1, <2>2
<1>9. \A j, n \in 1 .. Len(lru') : lru'[j] = lru'[n] => j = n
  BY <1>2, <1>4, <1>5 DEF ListMatchesMap
<1>10. closed' => lru' = <<>>
  BY <1>2, <1>3 DEF ListMatchesMap
<1>11. Size > 0 => Len(lru') <= Size
  BY <1>2 DEF ListMatchesMap
<1>12. QED  BY <1>2, <1>7, <1>8, <1>9, <1>10, <1>11 DEF ListMatchesMap

LEMMA InsertNewList == ASSUME IInv, NEW c \in Callers, InsertNew(c) PROVE ListMatchesMap'
<1> DEFINE s == held[c]
           q == <<s>> \o lru
           kept == IF Size > 0 /\ Len(q) > Size THEN Size ELSE Len(q)
           E == {q[i] : i \in kept + 1 .. Len(q)}
           m == [items EXCEPT ![key[c]] = s]
<1>1. /\ items' = [k \in Keys |-> IF m[k] \in E THEN None ELSE m[k]]
      /\ lru' = SubSeq(q, 1, kept)
      /\ ~closed /\ closed' = closed
  BY DEF InsertNew, Evict
<1>2. s \in Stmts /\ key[c] \in Keys /\ s # None /\ items[key[c]] = None
      /\ \A k \in Keys : items[k] # s
  BY StmtCacheAssumption DEF InsertNew, IInv, Safe, Types, PreparedIsPrivate
<1>3. lru \in Seq(Stmts) /\ Len(lru) \in Nat /\ \A i \in 1 .. Len(lru) : lru[i] # s /\ lru[i] # None
  <2>1. lru \in Seq(Stmts) /\ \A i \in 1 .. Len(lru) : lru[i] \in Stmts
    BY DEF IInv, ListMatchesMap
  <2>2. QED  BY <1>2, <2>1, StmtCacheAssumption DEF IInv, ListMatchesMap
<1>4. /\ q \in Seq(Stmts) /\ Len(q) = Len(lru) + 1 /\ q[1] = s
      /\ \A i \in 2 .. Len(q) : q[i] = lru[i - 1]
  BY <1>2, <1>3
<1>5. \A i, j \in 1 .. Len(q) : q[i] = q[j] => i = j
  <2>1. ASSUME NEW i \in 1 .. Len(q), NEW j \in 1 .. Len(q), q[i] = q[j], i = 1 PROVE i = j
    BY <1>3, <1>4, <2>1
  <2>2. ASSUME NEW i \in 2 .. Len(q), NEW j \in 2 .. Len(q), q[i] = q[j] PROVE i = j
    <3>1. i - 1 \in 1 .. Len(lru) /\ j - 1 \in 1 .. Len(lru) /\ lru[i - 1] = lru[j - 1]
      BY <1>3, <1>4, <2>2
    <3>2. i - 1 = j - 1
      BY <3>1 DEF IInv, ListMatchesMap
    <3>3. QED  BY <1>3, <1>4, <3>2
  <2>3. QED  BY <1>3, <1>4, <2>1, <2>2
<1>6. kept \in 1 .. Len(q) /\ (Size > 0 => kept <= Size)
  BY <1>3, <1>4, StmtCacheAssumption
<1>7. lru' \in Seq(Stmts) /\ Len(lru') = kept /\ \A i \in 1 .. kept : lru'[i] = q[i]
  BY <1>1, <1>4, <1>6
<1> HIDE DEF q, kept
<1>8. \A i \in 1 .. Len(q) : q[i] \in E <=> i > kept
  BY <1>4, <1>5, <1>6
<1>9. m \in [Keys -> Stmts \cup {None}] /\ m[key[c]] = s
      /\ \A k \in Keys : k # key[c] => m[k] = items[k]
  BY <1>2 DEF IInv, Safe, Types
<1>10. \A i \in 1 .. Len(q) : \E k \in Keys : m[k] = q[i]
  <2> TAKE i \in 1 .. Len(q)
  <2>1. CASE i = 1
    BY <1>2, <1>4, <1>9, <2>1
  <2>2. CASE i # 1
    <3>1. i - 1 \in 1 .. Len(lru) /\ q[i] = lru[i - 1]
      BY <1>3, <1>4, <2>2
    <3>2. PICK k \in Keys : items[k] = lru[i - 1]
      BY <3>1 DEF IInv, ListMatchesMap
    <3>3. QED  BY <1>2, <1>3, <1>9, <3>1, <3>2
  <2>3. QED  BY <2>1, <2>2
<1>11. \A k \in Keys : m[k] # None => \E i \in 1 .. Len(q) : q[i] = m[k]
  <2> SUFFICES ASSUME NEW k \in Keys, m[k] # None PROVE \E i \in 1 .. Len(q) : q[i] = m[k]
    OBVIOUS
  <2>1. CASE k = key[c]
    BY <1>3, <1>4, <1>9, <2>1
  <2>2. CASE k # key[c]
    <3>1. PICK i \in 1 .. Len(lru) : lru[i] = m[k]
      BY <1>9, <2>2 DEF IInv, ListMatchesMap
    <3>2. i + 1 \in 2 .. Len(q) /\ i + 1 \in 1 .. Len(q) /\ (i + 1) - 1 = i
      BY <1>3, <1>4
    <3>3. q[i + 1] = lru[i]
      BY <1>4, <3>2
    <3>4. QED  BY <3>1, <3>2, <3>3
  <2>3. QED  BY <2>1, <2>2
<1> HIDE DEF m, E, s
<1>12. \A i \in 1 .. Len(lru') : \E k \in Keys : items'[k] = lru'[i]
  <2> SUFFICES ASSUME NEW i \in 1 .. kept PROVE \E k \in Keys : items'[k] = q[i]
    BY <1>7
  <2>1. i \in 1 .. Len(q) /\ q[i] \notin E
    BY <1>6, <1>8
  <2>2. PICK k \in Keys : m[k] = q[i]
    BY <1>10, <2>1
  <2>3. QED  BY <1>1, <2>1, <2>2
<1>13. \A k \in Keys : items'[k] # None => \E i \in 1 .. Len(lru') : lru'[i] = items'[k]
  <2> SUFFICES ASSUME NEW k \in Keys, items'[k] # None
               PROVE  \E i \in 1 .. kept : q[i] = items'[k]
    BY <1>7
  <2>1. items'[k] = m[k] /\ m[k] # None /\ m[k] \notin E
    BY <1>1
  <2>2. PICK i \in 1 .. Len(q) : q[i] = m[k]
    BY <1>11, <2>1
  <2>3. i \in 1 .. kept
    BY <1>4, <1>6, <1>8, <2>1, <2>2
  <2>4. QED  BY <2>1, <2>2, <2>3
<1>14. \A i, j \in 1 .. Len(lru') : lru'[i] = lru'[j] => i = j
  BY <1>4, <1>5, <1>6, <1>7
<1>15. QED
  BY <1>1, <1>6, <1>7, <1>12, <1>13, <1>14 DEF ListMatchesMap

LEMMA CloseAllList == ASSUME IInv, CloseAll PROVE ListMatchesMap'
<1>1. lru' = <<>> /\ \A k \in Keys : items'[k] = None
  BY DEF CloseAll, Evict
<1>2. QED  BY <1>1, StmtCacheAssumption DEF ListMatchesMap

-----------------------------------------------------------------------------
(* The counts, and so the whole, are kept by every action. *)
LEMMA HitStep == ASSUME IInv, NEW c \in Callers, NEW k \in Keys, AcquireHit(c, k) PROVE IInv'
<1>1. Safe'
  BY HitSafe DEF IInv
<1>2. ListMatchesMap'
  BY HitList DEF IInv, Safe, AcquireHit, Hit
<1>3. RefsExact'
  <2> PICK s \in Stmts : s = items[k]
    BY DEF AcquireHit, IInv, Safe, Types
  <2>1. /\ Cardinality(Using(s)') = Cardinality(Using(s)) + 1
        /\ \A t \in Stmts : t # s => Using(t)' = Using(t)
    BY OneMore DEF AcquireHit, Hit, Goto, IInv, Safe, Types
  <2>2. handle' = handle /\ refs' = [refs EXCEPT ![s] = @ + 1] /\ handle[s] = "open"
    BY DEF AcquireHit, Hit, IInv, Safe, EntriesOpen
  <2>3. refs[s] = Cardinality(Using(s)) /\ refs \in [Stmts -> Int]
    BY <2>2 DEF IInv, Safe, Types, RefsExact
  <2>4. \A t \in Stmts : t # s /\ handle[t] = "open" => refs[t] = Cardinality(Using(t))
    BY DEF IInv, RefsExact
  <2>5. QED  BY <2>1, <2>2, <2>3, <2>4 DEF RefsExact
<1>4. QED  BY <1>1, <1>2, <1>3 DEF IInv

LEMMA MissStep == ASSUME IInv, NEW c \in Callers, NEW k \in Keys, AcquireMiss(c, k) PROVE IInv'
<1>1. Safe'
  BY MissSafe DEF IInv
<1>2. ListMatchesMap'
  BY DEF IInv, ListMatchesMap, AcquireMiss, Goto
<1>3. RefsExact'
  <2>1. \A t \in Stmts : Using(t)' = Using(t)
    BY DEF AcquireMiss, Goto, IInv, Safe, Types, Using
  <2>2. QED  BY <2>1 DEF IInv, RefsExact, AcquireMiss, Goto
<1>4. QED  BY <1>1, <1>2, <1>3 DEF IInv

LEMMA PrepareFailsStep == ASSUME IInv, NEW c \in Callers, PrepareFails(c) PROVE IInv'
<1>1. Safe'
  BY PrepareFailsSafe DEF IInv
<1>2. ListMatchesMap'
  BY DEF IInv, ListMatchesMap, PrepareFails, Goto
<1>3. RefsExact'
  <2>1. \A t \in Stmts : Using(t)' = Using(t)
    BY DEF PrepareFails, Goto, IInv, Safe, Types, Using
  <2>2. QED  BY <2>1 DEF IInv, RefsExact, PrepareFails, Goto
<1>4. QED  BY <1>1, <1>2, <1>3 DEF IInv

LEMMA PrepareStep == ASSUME IInv, NEW c \in Callers, NEW s \in Stmts, PrepareOK(c, s) PROVE IInv'
<1>1. Safe'
  BY PrepareSafe DEF IInv
<1>2. ListMatchesMap'
  BY DEF IInv, ListMatchesMap, PrepareOK
<1>3. RefsExact'
  <2>1. Using(s)' = {}
    BY DEF PrepareOK, Fresh, Goto, IInv, Safe, Types, Using
  <2>2. \A t \in Stmts : t # s => Using(t)' = Using(t)
    BY StmtCacheAssumption DEF PrepareOK, Goto, IInv, Safe, Types, Using
  <2>3. \A t \in Stmts : t # s => handle'[t] = handle[t] /\ refs'[t] = refs[t]
    BY DEF PrepareOK, IInv, Safe, Types
  <2>4. refs'[s] = 0
    BY DEF PrepareOK, IInv, Safe, Types
  <2>5. QED  BY <2>1, <2>2, <2>3, <2>4, FS_EmptySet DEF IInv, RefsExact
<1>4. QED  BY <1>1, <1>2, <1>3 DEF IInv

(* The preparer is the first user of its statement. *)
LEMMA FirstUse ==
  ASSUME IInv, NEW c \in Callers, NEW s \in Stmts, pc[c] = "prepared", held[c] = s,
         pc' = [pc EXCEPT ![c] = "using"], held' = held
  PROVE  /\ Cardinality(Using(s)') = 1
         /\ \A t \in Stmts : t # s => Using(t)' = Using(t)
<1>1. held' = [held EXCEPT ![c] = s]
  BY DEF IInv, Safe, Types
<1>2. Cardinality(Using(s)) = 0
  BY NoUserNoCount DEF IInv, Safe, PreparedIsPrivate
<1>3. /\ Cardinality(Using(s)') = Cardinality(Using(s)) + 1
      /\ \A t \in Stmts : t # s => Using(t)' = Using(t)
  <2>1. pc \in [Callers -> {"idle", "preparing", "prepared", "using"}]
        /\ held \in [Callers -> Stmts \cup {None}]
    BY DEF IInv, Safe, Types
  <2>2. QED  BY <1>1, <2>1, OneMore
<1>4. QED  BY <1>2, <1>3

LEMMA InsertClosedStep == ASSUME IInv, NEW c \in Callers, InsertClosed(c) PROVE IInv'
<1>1. Safe'
  BY InsertClosedSafe DEF IInv
<1>2. ListMatchesMap'
  BY DEF IInv, ListMatchesMap, InsertClosed
<1>3. RefsExact'
  <2> PICK s \in Stmts : s = held[c]
    BY StmtCacheAssumption DEF InsertClosed, IInv, Safe, Types
  <2>1. /\ Cardinality(Using(s)') = 1
        /\ \A t \in Stmts : t # s => Using(t)' = Using(t)
    BY FirstUse DEF InsertClosed, Goto
  <2>2. handle' = handle /\ refs' = [refs EXCEPT ![s] = 1]
    BY DEF InsertClosed
  <2>3. refs \in [Stmts -> Int] /\ \A t \in Stmts : handle[t] = "open" => refs[t] = Cardinality(Using(t))
    BY DEF IInv, Safe, Types, RefsExact
  <2>4. QED  BY <2>1, <2>2, <2>3 DEF RefsExact
<1>4. QED  BY <1>1, <1>2, <1>3 DEF IInv

LEMMA InsertNewStep == ASSUME IInv, NEW c \in Callers, InsertNew(c) PROVE IInv'
<1>1. RefsExact'
  <2> PICK s \in Stmts : s = held[c]
    BY StmtCacheAssumption DEF InsertNew, IInv, Safe, Types
  <2>1. /\ Cardinality(Using(s)') = 1
        /\ \A t \in Stmts : t # s => Using(t)' = Using(t)
    BY FirstUse DEF InsertNew, Goto
  <2>2. refs' = [refs EXCEPT ![s] = 1]
        /\ \A t \in Stmts : handle'[t] = "open" => handle[t] = "open"
    BY DEF InsertNew, Evict
  <2>3. refs \in [Stmts -> Int] /\ \A t \in Stmts : handle[t] = "open" => refs[t] = Cardinality(Using(t))
    BY DEF IInv, Safe, Types, RefsExact
  <2>4. QED  BY <2>1, <2>2, <2>3 DEF RefsExact
<1>2. QED  BY <1>1, InsertNewSafe, InsertNewList DEF IInv

LEMMA InsertLostStep == ASSUME IInv, NEW c \in Callers, InsertLost(c) PROVE IInv'
<1>1. Safe'
  BY InsertLostSafe DEF IInv
<1>2. ListMatchesMap'
  BY HitList DEF IInv, Safe, Types, InsertLost, Hit
<1>3. RefsExact'
  <2> PICK s \in Stmts : s = items[key[c]]
    BY DEF InsertLost, IInv, Safe, Types
  <2> PICK mine \in Stmts : mine = held[c]
    BY StmtCacheAssumption DEF InsertLost, IInv, Safe, Types
  <2>1. s # mine /\ handle[s] = "open"
    BY DEF InsertLost, IInv, Safe, Types, EntriesOpen, PreparedIsPrivate
  <2>2. /\ Cardinality(Using(s)') = Cardinality(Using(s)) + 1
        /\ \A t \in Stmts : t # s => Using(t)' = Using(t)
    BY OneMore DEF InsertLost, Hit, Goto, IInv, Safe, Types
  <2>3. refs \in [Stmts -> Int] /\ \A t \in Stmts : handle[t] = "open" => refs[t] = Cardinality(Using(t))
    BY DEF IInv, Safe, Types, RefsExact
  <2>4. refs' = [refs EXCEPT ![s] = @ + 1] /\ handle' = [handle EXCEPT ![mine] = "closed"]
        /\ handle \in [Stmts -> {"open", "closed"}]
    BY DEF InsertLost, Hit, IInv, Safe, Types
  <2>5. refs'[s] = Cardinality(Using(s)')
    BY <2>1, <2>2, <2>3, <2>4
  <2>6. QED  BY <2>2, <2>3, <2>4, <2>5 DEF RefsExact
<1>4. QED  BY <1>1, <1>2, <1>3 DEF IInv

LEMMA ReleaseStep == ASSUME IInv, NEW c \in Callers, Release(c) PROVE IInv'
<1>1. ListMatchesMap'
  BY DEF IInv, ListMatchesMap, Release
<1>2. RefsExact'
  <2> PICK s \in Stmts : s = held[c]
    BY DEF Release, IInv, Safe, Types
  <2>1. c \in Using(s) /\ handle[s] = "open"
    BY DEF Release, IInv, Safe, Types, InUseIsOpen, Using
  <2>2. Using(s)' = Using(s) \ {c}
    BY StmtCacheAssumption DEF Release, Goto, IInv, Safe, Types, Using
  <2>3. \A t \in Stmts : t # s => Using(t)' = Using(t)
    BY StmtCacheAssumption DEF Release, Goto, IInv, Safe, Types, Using
  <2>4. Cardinality(Using(s)') = Cardinality(Using(s)) - 1
    BY <2>1, <2>2, UsingFinite, FS_RemoveElement
  <2>5. refs' = [refs EXCEPT ![s] = @ - 1] /\ refs \in [Stmts -> Int]
        /\ \A t \in Stmts : t # s => handle'[t] = handle[t]
    BY DEF Release, IInv, Safe, Types
  <2>6. \A t \in Stmts : handle[t] = "open" => refs[t] = Cardinality(Using(t))
    BY DEF IInv, RefsExact
  <2>7. refs'[s] = Cardinality(Using(s)')
    BY <2>1, <2>4, <2>5, <2>6
  <2>8. QED  BY <2>3, <2>5, <2>6, <2>7 DEF RefsExact
<1>3. QED  BY <1>1, <1>2, ReleaseSafe DEF IInv

LEMMA CloseAllStep == IInv /\ CloseAll => IInv'
<1> SUFFICES ASSUME IInv, CloseAll PROVE IInv'
  OBVIOUS
<1>1. RefsExact'
  <2>1. \A t \in Stmts : Using(t)' = Using(t)
    BY DEF CloseAll, Using
  <2>2. refs' = refs /\ \A t \in Stmts : handle'[t] = "open" => handle[t] = "open"
    BY DEF CloseAll, Evict
  <2>3. QED  BY <2>1, <2>2 DEF IInv, RefsExact
<1>2. QED  BY <1>1, CloseAllSafe, CloseAllList DEF IInv

LEMMA InitIInv == Init => IInv
<1> SUFFICES ASSUME Init PROVE IInv
  OBVIOUS
<1>1. Safe
  <2>1. Types
    <3>1. pc = [c \in Callers |-> "idle"] /\ key = [c \in Callers |-> None]
          /\ held = [c \in Callers |-> None]
      BY DEF Init
    <3>2. items = [k \in Keys |-> None] /\ closed = FALSE /\ refs = [s \in Stmts |-> 0]
          /\ evicted = [s \in Stmts |-> FALSE] /\ keyOf = [s \in Stmts |-> None]
          /\ handle = [s \in Stmts |-> "closed"]
      BY DEF Init
    <3>3. \A c \in Callers : pc[c] = "idle" /\ held[c] = None
      BY <3>1
    <3>4. evicted \in [Stmts -> BOOLEAN] /\ closed \in BOOLEAN
      BY <3>2
    <3>5. /\ items \in [Keys -> Stmts \cup {None}]
          /\ refs \in [Stmts -> Int]
          /\ keyOf \in [Stmts -> Keys \cup {None}]
          /\ handle \in [Stmts -> {"open", "closed"}]
          /\ pc \in [Callers -> {"idle", "preparing", "prepared", "using"}]
          /\ key \in [Callers -> Keys \cup {None}]
          /\ held \in [Callers -> Stmts \cup {None}]
      BY <3>1, <3>2
    <3>6. QED  BY <3>3, <3>4, <3>5 DEF Types
  <2>2. QED
    BY <2>1 DEF Init, Safe, EntriesOpen, PreparedIsPrivate,
       InUseCachedOrEvicted, InUseIsOpen, OpenIsReachable
<1>2. RefsExact
  BY DEF Init, RefsExact
<1>3. ListMatchesMap
  BY StmtCacheAssumption DEF Init, ListMatchesMap
<1>4. QED  BY <1>1, <1>2, <1>3 DEF IInv

LEMMA NextIInv == IInv /\ [Next]_vars => IInv'
<1> SUFFICES ASSUME IInv, [Next]_vars PROVE IInv'
  OBVIOUS
<1>1. CASE UNCHANGED vars
  <2>1. Safe'
    BY <1>1 DEF vars, IInv, Safe, Types, EntriesOpen, PreparedIsPrivate,
       InUseCachedOrEvicted, InUseIsOpen, OpenIsReachable
  <2>2. RefsExact'
    BY <1>1 DEF vars, IInv, RefsExact, Using
  <2>3. ListMatchesMap'
    BY <1>1 DEF vars, IInv, ListMatchesMap
  <2>4. QED  BY <2>1, <2>2, <2>3 DEF IInv
<1>2. QED
  BY <1>1, HitStep, MissStep, PrepareStep, PrepareFailsStep, InsertClosedStep, InsertLostStep,
     InsertNewStep, ReleaseStep, CloseAllStep DEF Next

LEMMA Invariance == Spec => []IInv
BY InitIInv, NextIInv, PTL DEF Spec

-----------------------------------------------------------------------------
(* Nobody executes a statement that was closed under him, or one of another  *)
(* text, however many evict, lose the race to insert, or close the cache.    *)
THEOREM InUseIsOpenHolds == Spec => []InUseIsOpen
<1>1. IInv => InUseIsOpen
  BY DEF IInv, Safe
<1>2. QED  BY <1>1, Invariance, PTL

(* Every open statement can still be reached and will be closed. *)
THEOREM NoLeakHolds == Spec => []NoLeak
<1>1. IInv => NoLeak
  BY StmtCacheAssumption DEF IInv, Safe, OpenIsReachable, NoLeak, Cached
<1>2. QED  BY <1>1, Invariance, PTL

(* The list numbers the cached entries. *)
LEMMA ListCounts == IInv => Cardinality(Cached) = Len(lru) /\ ToSet(lru) = Cached
<1> SUFFICES ASSUME IInv PROVE Cardinality(Cached) = Len(lru) /\ ToSet(lru) = Cached
  OBVIOUS
<1>1. lru \in Seq(Stmts) /\ Len(lru) \in Nat /\ DOMAIN lru = 1 .. Len(lru)
      /\ \A i \in 1 .. Len(lru) : lru[i] \in Stmts
  BY DEF IInv, ListMatchesMap
<1>2. \A i \in 1 .. Len(lru) : lru[i] \in Cached
  BY <1>1, StmtCacheAssumption DEF IInv, ListMatchesMap, Cached
<1>3. \A s \in Cached : \E i \in 1 .. Len(lru) : lru[i] = s
  BY DEF IInv, ListMatchesMap, Cached
<1>4. ToSet(lru) = Cached
  BY <1>1, <1>2, <1>3 DEF ToSet
<1>5. lru \in [1 .. Len(lru) -> Cached]
  BY <1>1, <1>2
<1>6. lru \in Bijection(1 .. Len(lru), Cached)
  <2>1. \A i, j \in 1 .. Len(lru) : lru[i] = lru[j] => i = j
    BY DEF IInv, ListMatchesMap
  <2>2. lru \in Injection(1 .. Len(lru), Cached)
    BY <1>5, <2>1, Fun_IsInj
  <2>3. lru \in Surjection(1 .. Len(lru), Cached)
    BY <1>3, <1>5, Fun_IsSurj
  <2>4. QED  BY <2>2, <2>3, Fun_IsBij
<1>7. Cardinality(Cached) = Len(lru)
  <2>1. IsFiniteSet(1 .. Len(lru)) /\ Cardinality(1 .. Len(lru)) = Len(lru)
    <3>1. 1 \in Int /\ Len(lru) \in Int
      BY <1>1
    <3>2. IsFiniteSet(1 .. Len(lru))
          /\ Cardinality(1 .. Len(lru)) = IF 1 > Len(lru) THEN 0 ELSE Len(lru) - 1 + 1
      BY <3>1, FS_Interval
    <3>3. QED  BY <1>1, <3>2
  <2>2. QED  BY <1>6, <2>1, FS_Bijection DEF ExistsBijection
<1>8. QED  BY <1>4, <1>7

(* The counts are exact and the map and the LRU list agree, so eviction at   *)
(* the limit takes each entry from both.                                     *)
THEOREM BookkeepingHolds == Spec => []Bookkeeping
<1>1. IInv => Bookkeeping
  <2> SUFFICES ASSUME IInv PROVE Bookkeeping
    OBVIOUS
  <2>1. MapAndListAgree
    BY ListCounts DEF IInv, Safe, EntriesOpen, ListMatchesMap, MapAndListAgree
  <2>2. QED  BY <2>1 DEF IInv, Bookkeeping
<1>2. QED  BY <1>1, Invariance, PTL
=============================================================================
