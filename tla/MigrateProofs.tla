---------------------------- MODULE MigrateProofs ----------------------------
(***************************************************************************)
(* Proofs about Migrate, for any runners, files, pools and steps: under    *)
(* the lock it implements SchemaVersion.  The argument climbs from the     *)
(* types over ownership of the lock (Owned) and the file a runner is in    *)
(* (Placed) to the snapshot, which only the owner can outdate, and from    *)
(* there to what is in force when a file is recorded.                      *)
(***************************************************************************)
EXTENDS Migrate, TLAPS

InFile == {"txBody", "txRecord", "txCommit", "record"}

(* A Down that is in a file has a step left for it.                          *)
StepLeft == \A r \in Runners : pc[r] \in InFile /\ op[r] = "down" => left[r] > 0

Typed == TypeOK /\ StepLeft

LEMMA ApplyType ==
  ASSUME NEW o, NEW e \in -EffectBound .. EffectBound
  PROVE  Apply(o, e) \in -EffectBound .. EffectBound
BY DEF Apply, EffectBound

LEMMA TornByType == ASSUME NEW r \in Runners PROVE TornBy(r) \subseteq NoTx
BY DEF TornBy

LEMMA BookkeepType ==
  ASSUME NEW o, NEW v \in Versions, recorded \subseteq Versions
  PROVE  Bookkeep(o, v) \subseteq Versions
BY DEF Bookkeep

LEMMA InitTyped == Init => Typed
BY MigrateAssumption DEF Init, Typed, TypeOK, StepLeft, Labels, InFile, EffectBound

LEMMA NextTyped == Typed /\ [Next]_vars => Typed'
<1> SUFFICES ASSUME Typed, [Next]_vars PROVE Typed'
  OBVIOUS
<1> USE DEF Typed, TypeOK, StepLeft, InFile, Labels, Goto
<1>1. ASSUME NEW r \in Runners, NEW o \in Ops, NEW n \in Steps, Start(r, o, n) PROVE Typed'
  BY <1>1, MigrateAssumption DEF Start
<1>2. ASSUME NEW r \in Runners, OpenLockConn(r) PROVE Typed'
  BY <1>2 DEF OpenLockConn
<1>3. ASSUME NEW r \in Runners, Lock(r) PROVE Typed'
  BY <1>3 DEF Lock
<1>4. ASSUME NEW r \in Runners, LockTimeout(r) PROVE Typed'
  BY <1>4 DEF LockTimeout
<1>5. ASSUME NEW r \in Runners, ReadApplied(r) PROVE Typed'
  BY <1>5 DEF ReadApplied
<1>6. ASSUME NEW r \in Runners, LoopEnds(r) PROVE Typed'
  BY <1>6 DEF LoopEnds
<1>7. ASSUME NEW r \in Runners, Begin(r) PROVE Typed'
  BY <1>7 DEF Begin, Runnable
<1>8. ASSUME NEW r \in Runners, TxBody(r) PROVE Typed'
  BY <1>8 DEF TxBody
<1>9. ASSUME NEW r \in Runners, TxRecord(r) PROVE Typed'
  BY <1>9 DEF TxRecord
<1>10. ASSUME NEW r \in Runners, NEW a \in BOOLEAN, TxCommit(r, a) PROVE Typed'
  BY <1>10, ApplyType, BookkeepType DEF TxCommit
<1>11. ASSUME NEW r \in Runners, RunBody(r) PROVE Typed'
  <2>1. effect' \in [Versions -> -EffectBound .. EffectBound]
    BY <1>11, ApplyType, MigrateAssumption DEF RunBody
  <2>2. ran' \in [Runners -> BOOLEAN]
    BY <1>11, Zenon DEF RunBody
  <2>3. pc' \in [Runners -> Labels] /\ StepLeft'
    BY <1>11, MigrateAssumption DEF RunBody, Runnable
  <2>4. UNCHANGED <<recorded, lock, op, todo, left, torn>>
    BY <1>11 DEF RunBody
  <2>5. QED  BY <2>1, <2>2, <2>3, <2>4
<1>12. ASSUME NEW r \in Runners, Record(r) PROVE Typed'
  BY <1>12, BookkeepType DEF Record
<1>13. ASSUME NEW r \in Runners, Fails(r) PROVE Typed'
  BY <1>13, TornByType DEF Fails
<1>14. ASSUME NEW r \in Runners, BodyFailsHalfway(r) PROVE Typed'
  BY <1>14, ApplyType, MigrateAssumption DEF BodyFailsHalfway
<1>15. ASSUME NEW r \in Runners, CancelWait(r) PROVE Typed'
  BY <1>15 DEF CancelWait
<1>16. ASSUME NEW r \in Runners, Release(r) PROVE Typed'
  BY <1>16 DEF Release
<1>17. ASSUME NEW r \in Runners, Crash(r) PROVE Typed'
  BY <1>17, TornByType DEF Crash
<1>18. CASE UNCHANGED vars
  BY <1>18 DEF vars
<1>19. QED
  BY <1>1, <1>2, <1>3, <1>4, <1>5, <1>6, <1>7, <1>8, <1>9, <1>10, <1>11, <1>12, <1>13,
     <1>14, <1>15, <1>16, <1>17, <1>18 DEF Next, Progress, DuplicateKey

LEMMA TypedHolds == Spec => []Typed
BY InitTyped, NextTyped, PTL DEF Spec

(* The type invariant. *)
THEOREM TypeCorrect == Spec => []TypeOK
BY TypedHolds, PTL DEF Typed

-----------------------------------------------------------------------------
(* With a lock, whoever is past acquireLock owns it.  A run gives it up only *)
(* with the last step of its release, or by dying.                           *)
Owned == UseLock => \A r \in Runners : Critical(r) => lock = r

LEMMA OwnedExcludes == Owned => MutualExclusion
BY DEF Owned, MutualExclusion

LEMMA InitOwned == Init => Owned
BY DEF Init, Owned, Critical

(* Every other step leaves the lock alone and does not enter the critical    *)
(* part.                                                                     *)
LEMMA KeepsOwned ==
  ASSUME Typed, Owned, NEW r \in Runners, lock' = lock,
         \A q \in Runners \ {r} : pc'[q] = pc[q],
         UseLock /\ Critical(r)' => Critical(r)
  PROVE  Owned'
BY DEF Owned, Critical

LEMMA NextOwned == Typed /\ Owned /\ [Next]_vars => Owned'
<1> SUFFICES ASSUME Typed, Owned, [Next]_vars PROVE Owned'
  OBVIOUS
<1> USE DEF Goto
<1>0. pc \in [Runners -> Labels]
  BY DEF Typed, TypeOK
<1>1. ASSUME NEW r \in Runners, NEW o \in Ops, NEW n \in Steps, Start(r, o, n) PROVE Owned'
  BY <1>0, <1>1, KeepsOwned DEF Start, Critical
<1>2. ASSUME NEW r \in Runners, Lock(r) PROVE Owned'
  BY <1>0, <1>2, MigrateAssumption DEF Lock, Owned, Critical
<1>3. ASSUME NEW r \in Runners, Release(r) \/ Crash(r) PROVE Owned'
  BY <1>0, <1>3 DEF Release, Crash, Owned, Critical
<1>4. ASSUME NEW r \in Runners, OpenLockConn(r) \/ LockTimeout(r) \/ CancelWait(r) PROVE Owned'
  BY <1>0, <1>4, KeepsOwned DEF OpenLockConn, LockTimeout, CancelWait, Critical
<1>5. ASSUME NEW r \in Runners,
             \/ ReadApplied(r) \/ LoopEnds(r) \/ Begin(r) \/ TxBody(r) \/ TxRecord(r)
             \/ TxCommit(r, TRUE) \/ TxCommit(r, FALSE) \/ RunBody(r) \/ Record(r)
             \/ Fails(r) \/ BodyFailsHalfway(r)
      PROVE  Owned'
  <2>1. Critical(r)
    BY <1>5 DEF Critical, ReadApplied, LoopEnds, Begin, TxBody, TxRecord, TxCommit, RunBody,
       Record, Fails, BodyFailsHalfway, Runnable
  <2>2. lock' = lock /\ \A q \in Runners \ {r} : pc'[q] = pc[q]
    BY <1>0, <1>5 DEF ReadApplied, LoopEnds, Begin, TxBody, TxRecord, TxCommit, RunBody,
       Record, Fails, BodyFailsHalfway
  <2>3. QED  BY <2>1, <2>2, KeepsOwned
<1>6. CASE UNCHANGED vars
  BY <1>6 DEF vars, Owned, Critical
<1>7. QED
  BY <1>1, <1>2, <1>3, <1>4, <1>5, <1>6 DEF Next, Progress, DuplicateKey

(* Two runners are never in the protected part together. *)
THEOREM MutualExclusionHolds == Spec => []MutualExclusion
BY InitOwned, NextOwned, OwnedExcludes, TypedHolds, PTL DEF Spec

-----------------------------------------------------------------------------
(* A runner in a file has one to be in, of the right sort, and ran marks     *)
(* just the time between a no-transaction body and its record.               *)
Placed ==
  \A r \in Runners :
    /\ pc[r] \in {"txBody", "txRecord", "txCommit"} => \E v \in Versions \ NoTx : IsNext(r, v)
    /\ pc[r] = "record" => \E v \in NoTx : IsNext(r, v)
    /\ ran[r] <=> pc[r] = "record"

LEMMA NextIsOne ==
  ASSUME NEW r \in Runners, NEW v \in Versions, NEW w \in Versions, IsNext(r, v), IsNext(r, w)
  PROVE  v = w
BY MigrateAssumption DEF IsNext

LEMMA InitPlaced == Init => Placed
BY DEF Init, Placed

(* A step of r that ends outside a file, or stays in it.                     *)
LEMMA KeepsPlaced ==
  ASSUME Typed, Placed, NEW r \in Runners,
         \A q \in Runners \ {r} : /\ pc'[q] = pc[q] /\ ran'[q] = ran[q]
                                  /\ todo'[q] = todo[q] /\ op'[q] = op[q],
         \/ pc'[r] \notin InFile /\ ~ran'[r]
         \/ /\ pc[r] \in InFile \ {"record"} /\ pc'[r] \in InFile \ {"record"}
            /\ todo'[r] = todo[r] /\ op'[r] = op[r] /\ ran'[r] = ran[r]
  PROVE  Placed'
BY DEF Placed, IsNext, InFile

LEMMA NextPlaced == Typed /\ Placed /\ [Next]_vars => Placed'
<1> SUFFICES ASSUME Typed, Placed, [Next]_vars PROVE Placed'
  OBVIOUS
<1> USE DEF Goto
<1>0. /\ pc \in [Runners -> Labels] /\ op \in [Runners -> {"up", "down"}]
      /\ ran \in [Runners -> BOOLEAN] /\ todo \in [Runners -> SUBSET Versions]
  BY DEF Typed, TypeOK
<1>1. ASSUME NEW r \in Runners, NEW o \in Ops, NEW n \in Steps, Start(r, o, n) PROVE Placed'
  BY <1>0, <1>1, KeepsPlaced DEF Start, Placed, InFile
<1>2. ASSUME NEW r \in Runners,
             \/ OpenLockConn(r) \/ Lock(r) \/ LockTimeout(r) \/ CancelWait(r)
             \/ ReadApplied(r) \/ LoopEnds(r) \/ BodyFailsHalfway(r) \/ Release(r)
      PROVE  Placed'
  <2>1. pc[r] # "record" /\ pc'[r] \notin InFile /\ ran' = ran
    BY <1>0, <1>2 DEF OpenLockConn, Lock, LockTimeout, CancelWait, ReadApplied, LoopEnds,
       BodyFailsHalfway, Release, Runnable, InFile
  <2>2. ~ran'[r]
    BY <2>1 DEF Placed
  <2>3. \A q \in Runners \ {r} : /\ pc'[q] = pc[q] /\ ran'[q] = ran[q]
                                 /\ todo'[q] = todo[q] /\ op'[q] = op[q]
    BY <1>0, <1>2 DEF OpenLockConn, Lock, LockTimeout, CancelWait, ReadApplied, LoopEnds,
       BodyFailsHalfway, Release
  <2>4. QED  BY <2>1, <2>2, <2>3, KeepsPlaced
<1>3. ASSUME NEW r \in Runners, Fails(r) \/ Crash(r) \/ Record(r) PROVE Placed'
  <2>1. pc'[r] \notin InFile
    BY <1>0, <1>3 DEF Fails, Crash, Record, InFile
  <2>2. ~ran'[r]
    BY <1>0, <1>3 DEF Fails, Crash, Record
  <2>3. \A q \in Runners \ {r} : /\ pc'[q] = pc[q] /\ ran'[q] = ran[q]
                                 /\ todo'[q] = todo[q] /\ op'[q] = op[q]
    BY <1>0, <1>3 DEF Fails, Crash, Record
  <2>4. QED  BY <2>1, <2>2, <2>3, KeepsPlaced
<1>4. ASSUME NEW r \in Runners, TxBody(r) \/ TxRecord(r) PROVE Placed'
  BY <1>0, <1>4, KeepsPlaced DEF TxBody, TxRecord, InFile
<1>5. ASSUME NEW r \in Runners, NEW a \in BOOLEAN, TxCommit(r, a) PROVE Placed'
  <2>1. pc[r] # "record" /\ pc'[r] \notin InFile /\ ran' = ran
    BY <1>0, <1>5 DEF TxCommit, InFile
  <2>2. ~ran'[r]
    BY <2>1 DEF Placed
  <2>3. \A q \in Runners \ {r} : /\ pc'[q] = pc[q] /\ ran'[q] = ran[q]
                                 /\ todo'[q] = todo[q] /\ op'[q] = op[q]
    BY <1>0, <1>5 DEF TxCommit
  <2>4. QED  BY <2>1, <2>2, <2>3, KeepsPlaced
<1>6. ASSUME NEW r \in Runners, Begin(r) PROVE Placed'
  BY <1>0, <1>6 DEF Begin, Runnable, Placed, IsNext
<1>7. ASSUME NEW r \in Runners, RunBody(r) PROVE Placed'
  <2>1. /\ \E v \in NoTx : IsNext(r, v)
        /\ pc' = [pc EXCEPT ![r] = "record"] /\ todo' = todo /\ op' = op
    BY <1>7 DEF RunBody, Runnable
  <2>2. ran' = [ran EXCEPT ![r] = TRUE]
    BY <1>7 DEF RunBody
  <2>3. QED  BY <1>0, <2>1, <2>2 DEF Placed, IsNext
<1>8. CASE UNCHANGED vars
  BY <1>8 DEF vars, Placed, IsNext
<1>9. QED
  BY <1>1, <1>2, <1>3, <1>4, <1>5, <1>6, <1>7, <1>8 DEF Next, Progress, DuplicateKey

-----------------------------------------------------------------------------
(* What is true of every step, stated once for the proofs that follow.       *)
Basis == Typed /\ Owned /\ Placed

LEMMA BasisHolds == Spec => []Basis
<1>1. Init => Basis
  BY InitTyped, InitOwned, InitPlaced DEF Basis
<1>2. Basis /\ [Next]_vars => Basis'
  BY NextTyped, NextOwned, NextPlaced DEF Basis
<1>3. QED  BY <1>1, <1>2, PTL DEF Spec

Types ==
  /\ recorded \subseteq Versions
  /\ pc \in [Runners -> Labels] /\ op \in [Runners -> {"up", "down"}]
  /\ todo \in [Runners -> SUBSET Versions]

(* The steps that leave table and schema alone, and those that do not.       *)
Quiet(r) ==
  /\ dbVars' = dbVars
  /\ \A q \in Runners \ {r} : pc'[q] = pc[q] /\ todo'[q] = todo[q] /\ op'[q] = op[q]
  /\ \/ pc'[r] \in {"idle", "conn", "lock", "release"}
     \/ ~UseLock
     \/ pc[r] \in InFile \cup {"next"} /\ todo'[r] = todo[r] /\ op'[r] = op[r]
     \/ todo'[r] = IF op'[r] = "up" THEN Versions \ recorded ELSE recorded
     \/ pc'[r] = "snapshot"

(* r finishes file v: the table is changed, and the snapshot with it.        *)
Books(r, v) ==
  /\ v \in Versions /\ IsNext(r, v)
  /\ pc[r] \in InFile
  /\ recorded' = Bookkeep(op[r], v)
  /\ todo' = [todo EXCEPT ![r] = @ \ {v}]
  /\ op' = op /\ pc'[r] \in {"next", "release"}
  /\ \A q \in Runners \ {r} : pc'[q] = pc[q]

LEMMA TxCommitBooks ==
  ASSUME Basis, NEW r \in Runners, NEW a \in BOOLEAN, TxCommit(r, a)
  PROVE  \E v \in Versions \ NoTx : /\ pc[r] = "txCommit" /\ Books(r, v)
                                  /\ effect' = [effect EXCEPT ![v] = Apply(op[r], @)]
<1>0. Types
  BY DEF Basis, Typed, TypeOK, Types
<1>1. PICK v \in Versions :
        /\ IsNext(r, v) /\ recorded' = Bookkeep(op[r], v)
        /\ effect' = [effect EXCEPT ![v] = Apply(op[r], @)]
        /\ todo' = [todo EXCEPT ![r] = @ \ {v}]
  BY DEF TxCommit
<1>2. v \notin NoTx
  BY <1>1, NextIsOne DEF Basis, Placed, TxCommit
<1>3. pc[r] = "txCommit" /\ op' = op /\ pc'[r] \in {"next", "release"}
      /\ \A q \in Runners \ {r} : pc'[q] = pc[q]
  BY <1>0 DEF Types, TxCommit, Goto
<1>4. QED  BY <1>1, <1>2, <1>3 DEF Books, InFile

LEMMA RecordBooks ==
  ASSUME Basis, NEW r \in Runners, Record(r)
  PROVE  \E v \in NoTx : pc[r] = "record" /\ Books(r, v) /\ effect' = effect
<1>0. Types
  BY DEF Basis, Typed, TypeOK, Types
<1>1. PICK v \in Versions : /\ IsNext(r, v) /\ recorded' = Bookkeep(op[r], v)
                           /\ todo' = [todo EXCEPT ![r] = @ \ {v}]
  BY DEF Record
<1>2. v \in NoTx
  BY <1>1, NextIsOne, MigrateAssumption DEF Basis, Placed, Record
<1>3. pc[r] = "record" /\ op' = op /\ effect' = effect /\ pc'[r] \in {"next", "release"}
      /\ \A q \in Runners \ {r} : pc'[q] = pc[q]
  BY <1>0 DEF Types, Record, Goto
<1>4. QED  BY <1>1, <1>2, <1>3 DEF Books, InFile

LEMMA StepCases ==
  ASSUME Basis, Next
  PROVE  \E r \in Runners :
           \/ Quiet(r)
           \/ RunBody(r) \/ BodyFailsHalfway(r)
           \/ \E v \in Versions \ NoTx : /\ pc[r] = "txCommit" /\ Books(r, v)
                                        /\ effect' = [effect EXCEPT ![v] = Apply(op[r], @)]
           \/ \E v \in NoTx : pc[r] = "record" /\ Books(r, v) /\ effect' = effect
<1> USE DEF Goto
<1>0. Types
  BY DEF Basis, Typed, TypeOK, Types
<1>1. ASSUME NEW r \in Runners, NEW o \in Ops, NEW n \in Steps, Start(r, o, n) PROVE Quiet(r)
  BY <1>0, <1>1 DEF Types, Start, Quiet, dbVars
<1>2. ASSUME NEW r \in Runners,
             \/ OpenLockConn(r) \/ Lock(r) \/ LockTimeout(r) \/ LoopEnds(r) \/ Begin(r)
             \/ TxBody(r) \/ TxRecord(r) \/ Fails(r) \/ CancelWait(r)
      PROVE  Quiet(r)
  BY <1>0, <1>2 DEF Types, OpenLockConn, Lock, LockTimeout, LoopEnds, Begin, TxBody, TxRecord,
     Fails, CancelWait, Runnable, Quiet, dbVars, InFile
<1>3. ASSUME NEW r \in Runners, ReadApplied(r) \/ Release(r) \/ Crash(r) PROVE Quiet(r)
  BY <1>0, <1>3 DEF Types, ReadApplied, Release, Crash, Quiet, dbVars
<1>4. QED
  BY <1>1, <1>2, <1>3, TxCommitBooks, RecordBooks DEF Next, Progress, DuplicateKey

-----------------------------------------------------------------------------
(* The snapshot stays true, because only its owner changes the table.        *)
LEMMA InitFresh == Init => SnapshotFresh
BY DEF Init, SnapshotFresh

LEMMA NextFresh == Basis /\ SnapshotFresh /\ [Next]_vars => SnapshotFresh'
<1> SUFFICES ASSUME Basis, SnapshotFresh, [Next]_vars, UseLock PROVE SnapshotFresh'
  BY DEF SnapshotFresh
<1>0. Types
  BY DEF Basis, Typed, TypeOK, Types
<1>1. CASE UNCHANGED vars
  BY <1>1 DEF vars, SnapshotFresh
<1>2. CASE Next
  <2>1. PICK r \in Runners :
           \/ Quiet(r)
           \/ RunBody(r) \/ BodyFailsHalfway(r)
           \/ \E v \in Versions : Books(r, v)
    BY <1>2, StepCases, MigrateAssumption
  <2>2. CASE Quiet(r)
    BY <1>0, <2>2 DEF Quiet, Types, SnapshotFresh, Labels, InFile, dbVars
  <2>3. CASE RunBody(r) \/ BodyFailsHalfway(r)
    BY <1>0, <2>3 DEF RunBody, BodyFailsHalfway, Runnable, Types, SnapshotFresh, Labels, Goto
  <2>4. ASSUME NEW v \in Versions, Books(r, v) PROVE SnapshotFresh'
    <3>1. \A q \in Runners \ {r} : pc'[q] \in {"idle", "conn", "lock"}
      BY <2>4, <1>0 DEF Basis, Owned, Critical, Books, InFile, Types, Labels
    <3>2. todo'[r] = IF op'[r] = "up" THEN Versions \ recorded' ELSE recorded'
      BY <1>0, <2>4 DEF Books, Bookkeep, SnapshotFresh, InFile, Labels, Types
    <3>3. QED  BY <3>1, <3>2 DEF SnapshotFresh
  <2>5. QED  BY <2>1, <2>2, <2>3, <2>4
<1>3. QED  BY <1>1, <1>2

LEMMA FreshHolds == Spec => [](Basis /\ SnapshotFresh)
BY BasisHolds, InitFresh, NextFresh, PTL DEF Spec

(* The snapshot a locked run works from is never out of date. *)
THEOREM SnapshotFreshHolds == Spec => []SnapshotFresh
BY FreshHolds, PTL

-----------------------------------------------------------------------------
(* Transactional files with a lock: the fresh snapshot says whether the file *)
(* is recorded, hence in force, when the transaction commits.                *)
LEMMA InitTxAtomic == Init => TxAtomic
BY DEF Init, TxAtomic

LEMMA NextTxAtomic ==
  UseLock /\ Basis /\ SnapshotFresh /\ TxAtomic /\ [Next]_vars => TxAtomic'
<1> SUFFICES ASSUME UseLock, Basis, SnapshotFresh, TxAtomic, [Next]_vars PROVE TxAtomic'
  OBVIOUS
<1>0. Types /\ effect \in [Versions -> -EffectBound .. EffectBound]
  BY DEF Basis, Typed, TypeOK, Types
<1>1. CASE UNCHANGED vars
  BY <1>1 DEF vars, TxAtomic
<1>2. CASE Next
  <2>1. PICK r \in Runners :
           \/ Quiet(r)
           \/ RunBody(r) \/ BodyFailsHalfway(r)
           \/ \E v \in Versions \ NoTx : /\ pc[r] = "txCommit" /\ Books(r, v)
                                        /\ effect' = [effect EXCEPT ![v] = Apply(op[r], @)]
           \/ \E v \in NoTx : pc[r] = "record" /\ Books(r, v) /\ effect' = effect
    BY <1>2, StepCases
  <2>2. CASE Quiet(r)
    BY <2>2 DEF Quiet, dbVars, TxAtomic
  <2>3. CASE RunBody(r) \/ BodyFailsHalfway(r)
    BY <1>0, <2>3 DEF RunBody, BodyFailsHalfway, TxAtomic
  <2>4. ASSUME NEW v \in Versions \ NoTx, pc[r] = "txCommit", Books(r, v),
               effect' = [effect EXCEPT ![v] = Apply(op[r], @)]
        PROVE  TxAtomic'
    <3>1. v \in recorded <=> op[r] # "up"
      BY <1>0, <2>4 DEF Books, IsNext, SnapshotFresh, Labels, Types
    <3>2. effect'[v] = IF v \in recorded' THEN 1 ELSE 0
      BY <1>0, <2>4, <3>1 DEF Books, Bookkeep, Apply, EffectBound, TxAtomic, Types
    <3>3. \A w \in Versions \ {v} : effect'[w] = effect[w] /\ (w \in recorded' <=> w \in recorded)
      BY <1>0, <2>4 DEF Books, Bookkeep
    <3>4. QED  BY <3>2, <3>3 DEF TxAtomic
  <2>5. ASSUME NEW v \in NoTx, Books(r, v), effect' = effect PROVE TxAtomic'
    BY <2>5 DEF Books, Bookkeep, TxAtomic
  <2>6. QED  BY <2>1, <2>2, <2>3, <2>4, <2>5
<1>3. QED  BY <1>1, <1>2

LEMMA TxAtomicLocked == Spec => [](UseLock => TxAtomic)
<1>1. Init => (UseLock => TxAtomic)
  BY InitTxAtomic
<1>2. Basis /\ SnapshotFresh /\ (UseLock => TxAtomic) /\ [Next]_vars => (UseLock => TxAtomic)'
  BY NextTxAtomic
<1>3. QED  BY <1>1, <1>2, FreshHolds, PTL DEF Spec

(* Without one, concurrent Ups have the primary key: whoever has inserted    *)
(* the row waits for nothing more, and everybody else waits for it.          *)
UpOnly == Ops \subseteq {"up"}

KeyGuards ==
  /\ \A r \in Runners : op[r] = "up"
  /\ \A r \in Runners, v \in Versions : pc[r] = "txCommit" /\ IsNext(r, v) =>
       /\ v \notin recorded
       /\ \A q \in Runners \ {r} : ~(pc[q] = "txCommit" /\ IsNext(q, v))

LEMMA NextKeyGuards ==
  UpOnly /\ Basis /\ KeyGuards /\ TxAtomic /\ [Next]_vars => (KeyGuards /\ TxAtomic)'
<1> SUFFICES ASSUME UpOnly, Basis, KeyGuards, TxAtomic, [Next]_vars
             PROVE  (KeyGuards /\ TxAtomic)'
  OBVIOUS
<1> USE DEF Goto
<1>0. Types /\ effect \in [Versions -> -EffectBound .. EffectBound]
  BY DEF Basis, Typed, TypeOK, Types
<1>1. CASE UNCHANGED vars
  BY <1>1 DEF vars, KeyGuards, TxAtomic, IsNext
<1>2. ASSUME NEW r \in Runners, TxRecord(r) PROVE (KeyGuards /\ TxAtomic)'
  <2>1. PICK w \in Versions :
          /\ IsNext(r, w) /\ w \notin recorded
          /\ \A q \in Runners \ {r} : ~(pc[q] = "txCommit" /\ IsNext(q, w))
    BY <1>2 DEF TxRecord, KeyGuards
  <2>2. \A v \in Versions : IsNext(r, v) => v = w
    BY <2>1, NextIsOne
  <2>3. KeyGuards'
    BY <1>0, <1>2, <2>1, <2>2 DEF TxRecord, KeyGuards, IsNext, Types
  <2>4. QED  BY <1>2, <2>3 DEF TxRecord, TxAtomic
<1>3. ASSUME NEW r \in Runners, NEW v \in Versions, Books(r, v),
             \A q \in Runners \ {r} : pc[q] = "txCommit" => ~IsNext(q, v)
      PROVE  KeyGuards'
  BY <1>0, <1>3 DEF Books, Bookkeep, KeyGuards, IsNext, Types
<1>4. ASSUME NEW r \in Runners, NEW v \in NoTx, Books(r, v), effect' = effect
      PROVE  (KeyGuards /\ TxAtomic)'
  <2>1. v \in Versions
    BY MigrateAssumption
  <2>2. \A q \in Runners \ {r} : pc[q] = "txCommit" => ~IsNext(q, v)
    BY <2>1, NextIsOne DEF Basis, Placed
  <2>3. TxAtomic'
    BY <1>4 DEF Books, Bookkeep, TxAtomic
  <2>4. QED  BY <1>3, <1>4, <2>1, <2>2, <2>3
<1>5. ASSUME NEW r \in Runners, NEW v \in Versions \ NoTx, pc[r] = "txCommit", Books(r, v),
             effect' = [effect EXCEPT ![v] = Apply(op[r], @)]
      PROVE  (KeyGuards /\ TxAtomic)'
  <2>1. \A q \in Runners \ {r} : pc[q] = "txCommit" => ~IsNext(q, v)
    BY <1>5 DEF Books, KeyGuards
  <2>2. v \notin recorded /\ op[r] = "up"
    BY <1>5 DEF Books, KeyGuards
  <2>3. TxAtomic'
    BY <1>0, <1>5, <2>2 DEF Books, Bookkeep, Apply, EffectBound, TxAtomic
  <2>4. QED  BY <1>3, <1>5, <2>1, <2>3
<1>6. ASSUME NEW r \in Runners, RunBody(r) \/ BodyFailsHalfway(r) PROVE (KeyGuards /\ TxAtomic)'
  <2>1. KeyGuards'
    BY <1>0, <1>6 DEF RunBody, BodyFailsHalfway, KeyGuards, IsNext, Types
  <2>2. TxAtomic'
    BY <1>0, <1>6 DEF RunBody, BodyFailsHalfway, TxAtomic
  <2>3. QED  BY <2>1, <2>2
<1>7. ASSUME NEW r \in Runners, NEW o \in Ops, NEW n \in Steps, Start(r, o, n)
      PROVE  (KeyGuards /\ TxAtomic)'
  BY <1>0, <1>7 DEF UpOnly, Start, KeyGuards, IsNext, TxAtomic, Types
<1>8. ASSUME NEW r \in Runners,
             \/ OpenLockConn(r) \/ Lock(r) \/ LockTimeout(r) \/ LoopEnds(r) \/ Begin(r)
             \/ TxBody(r) \/ Fails(r) \/ CancelWait(r)
             \/ ReadApplied(r) \/ Release(r) \/ Crash(r)
      PROVE  (KeyGuards /\ TxAtomic)'
  <2>1. /\ recorded' = recorded /\ effect' = effect /\ op' = op
        /\ \A q \in Runners \ {r} : pc'[q] = pc[q] /\ todo'[q] = todo[q]
        /\ pc'[r] # "txCommit"
    BY <1>0, <1>8 DEF OpenLockConn, Lock, LockTimeout, LoopEnds, Begin, TxBody, Fails,
       CancelWait, ReadApplied, Release, Crash, Types
  <2>2. QED  BY <2>1 DEF KeyGuards, IsNext, TxAtomic
<1>9. QED
  BY <1>1, <1>2, <1>4, <1>5, <1>6, <1>7, <1>8, TxCommitBooks, RecordBooks
     DEF Next, Progress, DuplicateKey

LEMMA TxAtomicUnlocked == Spec => [](UpOnly => TxAtomic)
<1>1. Init => (UpOnly => KeyGuards /\ TxAtomic)
  BY DEF Init, KeyGuards, TxAtomic
<1>2. Basis /\ (UpOnly => KeyGuards /\ TxAtomic) /\ [Next]_vars
        => (UpOnly => KeyGuards /\ TxAtomic)'
  BY NextKeyGuards DEF UpOnly
<1>3. QED  BY <1>1, <1>2, BasisHolds, PTL DEF Spec

(* A transactional file is in force exactly when it is recorded, whatever    *)
(* fails, crashes or is answered wrongly: under the lock, and for concurrent *)
(* Ups even without it.                                                      *)
THEOREM TxAtomicHolds == UseLock \/ Ops \subseteq {"up"} => (Spec => []TxAtomic)
<1>1. CASE UseLock
  <2>1. (UseLock => TxAtomic) => TxAtomic
    BY <1>1
  <2>2. QED  BY <2>1, TxAtomicLocked, PTL
<1>2. CASE Ops \subseteq {"up"}
  <2>1. (UpOnly => TxAtomic) => TxAtomic
    BY <1>2 DEF UpOnly
  <2>2. QED  BY <2>1, TxAtomicUnlocked, PTL
<1>3. QED  BY <1>1, <1>2

-----------------------------------------------------------------------------
(* No-transaction files: the invariant has to say as well what holds between *)
(* the body and its record.                                                  *)
BodyDone ==
  \A r \in Runners : \A v \in TornBy(r) \ torn : effect[v] = IF op[r] = "up" THEN 1 ELSE 0

Exact == NoTxExactUnlessTorn /\ BodyDone

LEMMA TornOnlyRecording ==
  ASSUME Basis, NEW r \in Runners, pc[r] # "record"
  PROVE  TornBy(r) = {}
BY DEF Basis, Placed, TornBy

LEMMA TornIsNext ==
  ASSUME Basis, NEW r \in Runners, NEW v \in NoTx, pc[r] = "record", IsNext(r, v)
  PROVE  TornBy(r) = {v}
<1>1. \A w \in NoTx : IsNext(r, w) => w = v
  BY NextIsOne, MigrateAssumption
<1>2. ran[r]
  BY DEF Basis, Placed
<1>3. QED  BY <1>1, <1>2, Zenon DEF TornBy

LEMMA TornAlone ==
  ASSUME UseLock, Basis, NEW r \in Runners, Critical(r), NEW q \in Runners \ {r}
  PROVE  TornBy(q) = {}
BY TornOnlyRecording DEF Basis, Owned, Critical

(* A step that leaves another runner alone leaves its file alone.            *)
LEMMA TornKept ==
  ASSUME NEW q \in Runners, ran'[q] = ran[q], todo'[q] = todo[q], op'[q] = op[q]
  PROVE  TornBy(q)' = TornBy(q)
BY Zenon DEF TornBy, IsNext

LEMMA NextExact ==
  UseLock /\ Basis /\ Basis' /\ SnapshotFresh /\ Exact /\ [Next]_vars => Exact'
<1> SUFFICES ASSUME UseLock, Basis, Basis', SnapshotFresh, Exact, [Next]_vars PROVE Exact'
  OBVIOUS
<1> USE DEF Goto
<1>0. Types /\ effect \in [Versions -> -EffectBound .. EffectBound] /\ NoTx \subseteq Versions
  BY MigrateAssumption DEF Basis, Typed, TypeOK, Types
<1>ran. ran \in [Runners -> BOOLEAN]
  BY DEF Basis, Typed, TypeOK
<1>1. CASE UNCHANGED vars
  BY <1>1 DEF vars, Exact, NoTxExactUnlessTorn, BodyDone, TornBy, IsNext
<1>2. ASSUME NEW r \in Runners,
             \/ \E o \in Ops, n \in Steps : Start(r, o, n)
             \/ OpenLockConn(r) \/ Lock(r) \/ LockTimeout(r) \/ LoopEnds(r) \/ Begin(r)
             \/ TxBody(r) \/ TxRecord(r) \/ CancelWait(r) \/ ReadApplied(r) \/ Release(r)
      PROVE  Exact'
  <2>1. /\ recorded' = recorded /\ effect' = effect /\ torn' = torn
        /\ pc[r] # "record" /\ pc'[r] # "record"
        /\ \A q \in Runners \ {r} : todo'[q] = todo[q] /\ op'[q] = op[q]
    BY <1>0, <1>2 DEF Start, OpenLockConn, Lock, LockTimeout, LoopEnds, Begin, TxBody,
       TxRecord, CancelWait, ReadApplied, Release, Runnable, Types
  <2>2. ran' = ran
    BY <1>2 DEF Start, OpenLockConn, Lock, LockTimeout, LoopEnds, Begin, TxBody,
       TxRecord, CancelWait, ReadApplied, Release
  <2>3. ~ran[r]
    BY <2>1 DEF Basis, Placed
  <2>4. TornBy(r) = {} /\ TornBy(r)' = {}
    BY <2>2, <2>3 DEF TornBy
  <2>5. \A q \in Runners \ {r} : TornBy(q)' = TornBy(q)
    BY <2>1, <2>2, TornKept
  <2>6. QED
    BY <2>1, <2>4, <2>5 DEF Exact, NoTxExactUnlessTorn, BodyDone
<1>3. ASSUME NEW r \in Runners, Fails(r) \/ Crash(r) PROVE Exact'
  <2>1. /\ recorded' = recorded /\ effect' = effect /\ torn' = torn \cup TornBy(r)
        /\ \A q \in Runners \ {r} : todo'[q] = todo[q] /\ op'[q] = op[q]
    BY <1>0, <1>3 DEF Fails, Crash, Types
  <2>2. ran' = [ran EXCEPT ![r] = FALSE]
    BY <1>3 DEF Fails, Crash
  <2>3. TornBy(r)' = {}
    BY <1>ran, <2>2 DEF TornBy
  <2>4. \A q \in Runners \ {r} : TornBy(q)' = TornBy(q)
    BY <1>ran, <2>1, <2>2, TornKept
  <2>5. QED
    BY <2>1, <2>3, <2>4 DEF Exact, NoTxExactUnlessTorn, BodyDone
<1>4. ASSUME NEW r \in Runners, BodyFailsHalfway(r) PROVE Exact'
  <2>1. PICK v \in NoTx : effect' = [effect EXCEPT ![v] = Apply(op[r], @)] /\ torn' = torn \cup {v}
    BY <1>4 DEF BodyFailsHalfway
  <2>2. recorded' = recorded /\ todo' = todo /\ op' = op
    BY <1>4 DEF BodyFailsHalfway
  <2>3. \A q \in Runners : TornBy(q)' = TornBy(q)
    BY <1>4, TornKept DEF BodyFailsHalfway
  <2>4. \A w \in NoTx \ torn' : effect'[w] = effect[w] /\ w \notin torn
    BY <1>0, <2>1
  <2>5. \A q \in Runners : TornBy(q) \subseteq NoTx
    BY TornByType
  <2>6. QED
    BY <2>2, <2>3, <2>4, <2>5 DEF Exact, NoTxExactUnlessTorn, BodyDone
<1>5. ASSUME NEW r \in Runners, RunBody(r) PROVE Exact'
  <2>1. PICK v \in NoTx : Runnable(r, v) /\ effect' = [effect EXCEPT ![v] = Apply(op[r], @)]
    BY <1>5 DEF RunBody
  <2>2. pc[r] = "next" /\ IsNext(r, v)
    BY <2>1 DEF Runnable
  <2>3. recorded' = recorded /\ torn' = torn /\ op' = op /\ todo' = todo /\ pc'[r] = "record"
    BY <1>0, <1>5 DEF RunBody, Types
  <2>4. \A q \in Runners : TornBy(q) = {}
    BY <2>2, TornOnlyRecording, TornAlone DEF Critical
  <2>5. TornBy(r)' = {v}
    <3>1. IsNext(r, v)'
      BY <2>2, <2>3 DEF IsNext
    <3>2. \A w \in NoTx : IsNext(r, w)' => w = v
      BY <1>0, <2>2, <2>3, NextIsOne DEF IsNext
    <3>3. ran'[r]
      BY <1>ran, <1>5, Zenon DEF RunBody
    <3>4. QED  BY <3>1, <3>2, <3>3, Zenon DEF TornBy
  <2>6. \A q \in Runners \ {r} : TornBy(q)' = {}
    <3>1. ASSUME NEW q \in Runners \ {r} PROVE TornBy(q)' = TornBy(q)
      <4>1. ran'[q] = ran[q]
        BY <1>ran, <1>5, Zenon DEF RunBody
      <4>2. QED  BY <2>3, <4>1, TornKept
    <3>2. QED  BY <2>4, <3>1
  <2>7. v \notin torn => effect[v] = IF op[r] = "up" THEN 0 ELSE 1
    <3>1. v \in recorded <=> op[r] # "up"
      BY <1>0, <2>2 DEF IsNext, SnapshotFresh, Labels, Types
    <3>2. v \notin torn => effect[v] = IF v \in recorded THEN 1 ELSE 0
      BY <2>4 DEF Exact, NoTxExactUnlessTorn
    <3>3. QED  BY <3>1, <3>2
  <2>8. v \notin torn => effect'[v] = IF op[r] = "up" THEN 1 ELSE 0
    BY <1>0, <2>1, <2>7 DEF Apply, EffectBound
  <2>9. BodyDone'
    BY <2>3, <2>5, <2>6, <2>8 DEF BodyDone
  <2>10. \A w \in NoTx \ torn : w # v => effect'[w] = IF w \in recorded THEN 1 ELSE 0
    BY <1>0, <2>1, <2>4 DEF Exact, NoTxExactUnlessTorn
  <2>11. NoTxExactUnlessTorn'
    BY <2>3, <2>5, <2>10 DEF NoTxExactUnlessTorn
  <2>12. QED  BY <2>9, <2>11 DEF Exact
<1>6. ASSUME NEW r \in Runners, Record(r) PROVE Exact'
  <2>1. PICK v \in NoTx : pc[r] = "record" /\ Books(r, v) /\ effect' = effect
    BY <1>6, RecordBooks
  <2>2. TornBy(r) = {v} /\ \A q \in Runners \ {r} : TornBy(q) = {}
    BY <2>1, TornIsNext, TornAlone DEF Books, Critical
  <2>3. torn' = torn /\ op' = op /\ recorded' = Bookkeep(op[r], v)
    BY <1>6, <2>1 DEF Record, Books
  <2>4. \A q \in Runners : TornBy(q)' = {}
    <3>1. \A q \in Runners : pc'[q] # "record"
      BY <2>1 DEF Books, Basis, Owned, Critical
    <3>2. \A q \in Runners : ~ran'[q]
      BY <3>1 DEF Basis, Placed
    <3>3. QED  BY <3>2, Zenon DEF TornBy
  <2>5. v \notin torn => effect[v] = IF v \in recorded' THEN 1 ELSE 0
    BY <1>0, <2>2, <2>3 DEF Exact, BodyDone, Bookkeep, Types
  <2>6. \A w \in NoTx \ torn : w # v => effect[w] = IF w \in recorded' THEN 1 ELSE 0
    BY <2>2, <2>3 DEF Exact, NoTxExactUnlessTorn, Bookkeep
  <2>7. QED
    BY <2>1, <2>3, <2>4, <2>5, <2>6 DEF Exact, NoTxExactUnlessTorn, BodyDone
<1>7. ASSUME NEW r \in Runners, NEW a \in BOOLEAN, TxCommit(r, a) PROVE Exact'
  <2>1. PICK v \in Versions \ NoTx : /\ pc[r] = "txCommit" /\ Books(r, v)
                                    /\ effect' = [effect EXCEPT ![v] = Apply(op[r], @)]
    BY <1>7, TxCommitBooks
  <2>2. torn' = torn /\ op' = op
    BY <1>7, <2>1 DEF TxCommit
  <2>3. \A q \in Runners : TornBy(q) = {}
    BY <2>1, TornOnlyRecording, TornAlone DEF Critical
  <2>4. \A q \in Runners : TornBy(q)' = {}
    <3>1. \A q \in Runners : pc'[q] # "record"
      BY <2>1 DEF Books, Basis, Owned, Critical
    <3>2. \A q \in Runners : ~ran'[q]
      BY <3>1 DEF Basis, Placed
    <3>3. QED  BY <3>2, Zenon DEF TornBy
  <2>5. \A w \in NoTx : effect'[w] = effect[w] /\ (w \in recorded' <=> w \in recorded)
    BY <1>0, <2>1 DEF Books, Bookkeep
  <2>6. QED
    BY <2>2, <2>3, <2>4, <2>5 DEF Exact, NoTxExactUnlessTorn, BodyDone
<1>8. QED
  BY <1>1, <1>2, <1>3, <1>4, <1>5, <1>6, <1>7 DEF Next, Progress, DuplicateKey

LEMMA InitExact == Init => Exact
BY MigrateAssumption DEF Init, Exact, NoTxExactUnlessTorn, BodyDone, TornBy

LEMMA ExactHolds == Spec => [](UseLock => Exact)
<1>1. Init => (UseLock => Exact)
  BY InitExact
<1>2. /\ Basis /\ SnapshotFresh /\ (UseLock => Exact) /\ [Next]_vars
      /\ Basis'
      => (UseLock => Exact)'
  BY NextExact
<1>3. QED  BY <1>1, <1>2, FreshHolds, PTL DEF Spec

(* Under the lock a no-transaction file is in force exactly when recorded,   *)
(* but for the moment between body and record and for runs cut off there.    *)
THEOREM NoTxExactHolds == UseLock => (Spec => []NoTxExactUnlessTorn)
<1> SUFFICES ASSUME UseLock PROVE Spec => []NoTxExactUnlessTorn
  OBVIOUS
<1>1. (UseLock => Exact) => NoTxExactUnlessTorn
  BY DEF Exact
<1>2. QED  BY <1>1, ExactHolds, PTL

-----------------------------------------------------------------------------
(* Refinement of SchemaVersion.                                              *)
InForce == [v \in Versions |-> IF v \notin NoTx THEN effect[v] ELSE IF v \in recorded THEN 1 ELSE 0]

LEMMA InitPromise == Init => Promise!Init
BY MigrateAssumption DEF Init, Promise!Init

(* Recording the next file is a step forward or back ...                     *)
LEMMA BooksIsStep ==
  ASSUME UseLock, Basis, SnapshotFresh, NEW r \in Runners, NEW v \in Versions, Books(r, v),
         InForce' = [InForce EXCEPT ![v] = IF op[r] = "up" THEN 1 ELSE 0]
  PROVE  Promise!Next
<1>0. Types /\ Versions \subseteq Nat
  BY MigrateAssumption DEF Basis, Typed, TypeOK, Types
<1>1. IsNext(r, v) /\ recorded' = Bookkeep(op[r], v)
      /\ todo[r] = IF op[r] = "up" THEN Versions \ recorded ELSE recorded
  BY <1>0 DEF Books, SnapshotFresh, Labels, InFile
<1>2. CASE op[r] = "up"
  <2>1. /\ v \notin recorded /\ recorded' = recorded \cup {v}
        /\ \A w \in Versions : w < v => w \in recorded
    BY <1>0, <1>1, <1>2 DEF IsNext, Bookkeep
  <2>2. QED  BY <1>2, <2>1 DEF Promise!Next, Promise!Forward, InForce
<1>3. CASE op[r] = "down"
  <2>1. /\ v \in recorded /\ recorded' = recorded \ {v}
        /\ \A w \in recorded : w <= v
    BY <1>0, <1>1, <1>3 DEF IsNext, Bookkeep
  <2>2. QED  BY <1>3, <2>1 DEF Promise!Next, Promise!Backward, InForce
<1>4. QED  BY <1>0, <1>2, <1>3 DEF Types

(* ... and every other step of the runner is invisible.                      *)
LEMMA NextPromise ==
  ASSUME UseLock, Basis, SnapshotFresh, TxAtomic, TxAtomic', [Next]_vars
  PROVE  [Promise!Next]_<<recorded, InForce>>
<1>0. Types /\ effect \in [Versions -> -EffectBound .. EffectBound] /\ NoTx \subseteq Versions
  BY MigrateAssumption DEF Basis, Typed, TypeOK, Types
<1>1. CASE UNCHANGED vars
  BY <1>1 DEF vars, InForce
<1>2. CASE Next
  <2>1. PICK r \in Runners :
           \/ Quiet(r)
           \/ RunBody(r) \/ BodyFailsHalfway(r)
           \/ \E v \in Versions \ NoTx : /\ pc[r] = "txCommit" /\ Books(r, v)
                                        /\ effect' = [effect EXCEPT ![v] = Apply(op[r], @)]
           \/ \E v \in NoTx : pc[r] = "record" /\ Books(r, v) /\ effect' = effect
    BY <1>2, StepCases
  <2>2. CASE Quiet(r)
    BY <2>2 DEF Quiet, dbVars, InForce
  <2>3. CASE RunBody(r) \/ BodyFailsHalfway(r)
    BY <1>0, <2>3 DEF RunBody, BodyFailsHalfway, InForce
  <2>4. ASSUME NEW v \in Versions, Books(r, v),
               \A w \in Versions \ ({v} \cup NoTx) : effect'[w] = effect[w]
        PROVE  Promise!Next
    <3>1. recorded' = Bookkeep(op[r], v) /\ op[r] \in {"up", "down"}
      BY <1>0, <2>4 DEF Books, Types
    <3>2. InForce'[v] = IF op[r] = "up" THEN 1 ELSE 0
      BY <3>1 DEF InForce, Bookkeep, TxAtomic
    <3>3. \A w \in Versions \ {v} : InForce'[w] = InForce[w]
      BY <2>4, <3>1 DEF InForce, Bookkeep
    <3>4. InForce' = [InForce EXCEPT ![v] = IF op[r] = "up" THEN 1 ELSE 0]
      BY <3>2, <3>3 DEF InForce
    <3>5. QED  BY <2>4, <3>4, BooksIsStep
  <2>5. QED
    BY <1>0, <2>1, <2>2, <2>3, <2>4
<1>3. QED  BY <1>1, <1>2

(* Under the lock, whatever fails, crashes or goes unanswered, the files in  *)
(* force are always the first n, and each step changes n by one.             *)
THEOREM ImplementsHolds == UseLock => (Spec => ImplementsSchemaVersion)
<1> SUFFICES ASSUME UseLock PROVE Spec => ImplementsSchemaVersion
  OBVIOUS
<1>1. Basis /\ SnapshotFresh /\ (UseLock => TxAtomic) /\ (UseLock => TxAtomic)' /\ [Next]_vars
        => [Promise!Next]_<<recorded, InForce>>
  BY NextPromise
<1>2. QED
  BY <1>1, InitPromise, FreshHolds, TxAtomicLocked, PTL
     DEF Spec, ImplementsSchemaVersion, Promise!Spec, InForce
=============================================================================
