----------------------------- MODULE HttpxProofs -----------------------------
(***************************************************************************)
(* Proofs about pkg/httpx, for any clients, downloads, records and loggers *)
(* of any length: about Download under its own specification, and about    *)
(* exchanges, streams and the log as parts of Httpx.                       *)
(*                                                                         *)
(* Downloads: the destination is an AtomicFile across failures and power   *)
(* cuts.  The invariant says which part of the temporary file is on the    *)
(* disk at each step (OnDisk); without Sync before Rename the destination  *)
(* would be whole for readers and torn after a power cut.                  *)
(***************************************************************************)
EXTENDS Httpx, Sequences, TLAPS

Files == [data : 0..Size, durable : 0..Size]

OnDisk(c) ==
  /\ at[c] \in BeforeTemp => temp[c] = NoFile
  /\ at[c] \in WithTemp \cup {"cleanup"} => temp[c] \in Files
  /\ at[c] = "sync" => temp[c].data = Size
  /\ at[c] \in {"close", "chmod", "rename"} => temp[c].data = Size /\ temp[c].durable = Size
  /\ at[c] = "returned" => temp[c] = NoFile \/ stuck[c] = TRUE

DestinationDurable == dst.data = Size /\ dst.durable = Size

IInv == TypeOK /\ DestinationDurable /\ \A c \in Calls : OnDisk(c)

LEMMA InitIInv == Init => IInv
<1> SUFFICES ASSUME Init PROVE IInv
  OBVIOUS
<1>1. Size \in 0 .. Size
  BY DownloadAssumption
<1>2. failed \in [Calls -> BOOLEAN] /\ stuck \in [Calls -> BOOLEAN]
  BY DEF Init
<1>3. TypeOK
  BY <1>1, <1>2 DEF Init, TypeOK, Steps
<1>4. QED
  BY <1>3 DEF Init, IInv, DestinationDurable, OnDisk, BeforeTemp, WithTemp

(* What another call, or a step that changes no file, leaves as it is.       *)
LEMMA OthersKept ==
  ASSUME IInv, NEW c \in Calls, TypeOK', OnDisk(c)', DestinationDurable',
         \A d \in Calls : d # c => at'[d] = at[d] /\ temp'[d] = temp[d] /\ stuck'[d] = stuck[d]
  PROVE  IInv'
<1>1. ASSUME NEW d \in Calls PROVE OnDisk(d)'
  <2>1. CASE d # c
    BY <2>1 DEF IInv, OnDisk
  <2>2. QED  BY <2>1
<1>2. QED  BY <1>1 DEF IInv

LEMMA BeforeTempStep ==
  ASSUME IInv, NEW c \in Calls, Open(c) \/ Mkdir(c) \/ CreateTemp(c)
  PROVE  IInv'
<1>1. TypeOK'
  <2>1. [data |-> 0, durable |-> 0] \in Files
    BY DownloadAssumption DEF Files
  <2>2. QED  BY <2>1 DEF IInv, TypeOK, Files, Steps, Open, Mkdir, CreateTemp, Go
<1>2. OnDisk(c)'
  <2>1. [data |-> 0, durable |-> 0] \in Files
    BY DownloadAssumption DEF Files
  <2>2. QED
    BY <2>1 DEF IInv, TypeOK, OnDisk, BeforeTemp, WithTemp, Open, Mkdir, CreateTemp, Go
<1>3. DestinationDurable'
  BY DEF IInv, DestinationDurable, Open, Mkdir, CreateTemp
<1>4. QED
  BY <1>1, <1>2, <1>3, OthersKept DEF IInv, TypeOK, Open, Mkdir, CreateTemp, Go

LEMMA CopySyncStep ==
  ASSUME IInv, NEW c \in Calls, CopyChunk(c) \/ CopyEnds(c) \/ Sync(c)
  PROVE  IInv'
<1>1. temp[c] \in Files
  BY DEF IInv, OnDisk, WithTemp, CopyChunk, CopyEnds, Sync
<1>2. temp[c].data \in 0..Size /\ temp[c].durable \in 0..Size /\ Size \in Nat
  BY <1>1, DownloadAssumption DEF Files
<1>3. temp'[c] \in Files
  <2>1. CASE CopyChunk(c)
    BY <1>1, <1>2, <2>1 DEF CopyChunk, IInv, TypeOK, Files
  <2>2. CASE CopyEnds(c)
    BY <1>1, <2>2 DEF CopyEnds
  <2>3. CASE Sync(c)
    BY <1>1, <1>2, <2>3 DEF Sync, IInv, TypeOK, Files
  <2>4. QED  BY <2>1, <2>2, <2>3
<1>4. \A d \in Calls : d # c => at'[d] = at[d] /\ temp'[d] = temp[d] /\ stuck'[d] = stuck[d]
  BY DEF IInv, TypeOK, CopyChunk, CopyEnds, Sync, Go
<1>5. TypeOK'
  <2>1. temp' \in [Calls -> Files \cup {NoFile}]
    BY <1>3, <1>4 DEF IInv, TypeOK, Files, CopyChunk, CopyEnds, Sync
  <2>2. QED  BY <2>1 DEF IInv, TypeOK, Files, Steps, CopyChunk, CopyEnds, Sync, Go
<1>6. OnDisk(c)'
  <2>1. CASE CopyChunk(c)
    BY <1>3, <2>1 DEF CopyChunk, OnDisk, BeforeTemp
  <2>2. CASE CopyEnds(c)
    <3>1. at'[c] = "sync" /\ temp'[c].data = Size
      BY <2>2 DEF CopyEnds, Go, IInv, TypeOK
    <3>2. QED  BY <1>3, <3>1 DEF OnDisk, BeforeTemp
  <2>3. CASE Sync(c)
    <3>1. at'[c] = "close" /\ temp[c].data = Size
      BY <2>3 DEF Sync, Go, IInv, TypeOK, OnDisk
    <3>2. temp'[c].data = Size /\ temp'[c].durable = Size
      BY <1>1, <2>3, <3>1 DEF Sync, IInv, TypeOK, Files
    <3>3. QED  BY <1>3, <3>1, <3>2 DEF OnDisk, BeforeTemp
  <2>4. QED  BY <2>1, <2>2, <2>3
<1>7. DestinationDurable'
  BY DEF IInv, DestinationDurable, CopyChunk, CopyEnds, Sync
<1>8. QED  BY <1>4, <1>5, <1>6, <1>7, OthersKept

LEMMA CloseChmodStep ==
  ASSUME IInv, NEW c \in Calls, Close(c) \/ Chmod(c)
  PROVE  IInv'
<1>1. TypeOK'
  BY DEF IInv, TypeOK, Steps, Close, Chmod, Go
<1>2. OnDisk(c)'
  BY DEF IInv, TypeOK, OnDisk, BeforeTemp, WithTemp, Close, Chmod, Go
<1>3. DestinationDurable'
  BY DEF IInv, DestinationDurable, Close, Chmod
<1>4. QED  BY <1>1, <1>2, <1>3, OthersKept DEF IInv, TypeOK, Close, Chmod, Go

(* The rename puts a file on the destination of which everything is durable. *)
LEMMA RenameStep == ASSUME IInv, NEW c \in Calls, Rename(c) PROVE IInv'
<1>1. temp[c] \in Files /\ temp[c].data = Size /\ temp[c].durable = Size
  BY DEF IInv, OnDisk, WithTemp, Rename
<1>2. dst' = [of |-> c, data |-> Size, durable |-> Size]
  BY <1>1 DEF Rename
<1>3. Size \in 0..Size
  BY DownloadAssumption
<1>4. TypeOK'
  BY <1>2, <1>3 DEF IInv, TypeOK, Steps, Rename, Go
<1>5. OnDisk(c)'
  BY DEF IInv, TypeOK, OnDisk, BeforeTemp, WithTemp, Rename, Go
<1>6. DestinationDurable'
  BY <1>2 DEF DestinationDurable
<1>7. QED  BY <1>4, <1>5, <1>6, OthersKept DEF IInv, TypeOK, Rename, Go

LEMMA StepFailsStep == ASSUME IInv, NEW c \in Calls, StepFails(c) PROVE IInv'
<1>1. failed' \in [Calls -> BOOLEAN]
  BY DEF IInv, TypeOK, StepFails
<1>2. TypeOK'
  BY <1>1 DEF IInv, TypeOK, Steps, StepFails, Go
<1>3. OnDisk(c)'
  BY DEF IInv, TypeOK, OnDisk, BeforeTemp, WithTemp, StepFails, Go
<1>4. DestinationDurable'
  BY DEF IInv, DestinationDurable, StepFails
<1>5. QED  BY <1>2, <1>3, <1>4, OthersKept DEF IInv, TypeOK, StepFails, Go

LEMMA CleanupStep == ASSUME IInv, NEW c \in Calls, Cleanup(c) PROVE IInv'
<1>1. stuck' \in [Calls -> BOOLEAN]
  BY DEF IInv, TypeOK, Cleanup
<1>2. TypeOK'
  BY <1>1 DEF IInv, TypeOK, Steps, Cleanup, Go
<1>3. at'[c] = "returned" /\ (temp'[c] = NoFile \/ stuck'[c] = TRUE)
  BY DEF IInv, TypeOK, Cleanup, Go
<1>4. OnDisk(c)'
  BY <1>3 DEF OnDisk, BeforeTemp, WithTemp
<1>5. DestinationDurable'
  BY DEF IInv, DestinationDurable, Cleanup
<1>6. QED  BY <1>2, <1>4, <1>5, OthersKept DEF IInv, TypeOK, Cleanup, Go

(* Of a durable destination a power cut leaves everything.                   *)
LEMMA PowerCutStep == IInv /\ PowerCut => IInv' /\ dst' = dst
<1> SUFFICES ASSUME IInv, PowerCut PROVE IInv' /\ dst' = dst
  OBVIOUS
<1>1. PICK d \in dst.durable..dst.data : dst' = [dst EXCEPT !.data = d, !.durable = d]
  BY DEF PowerCut
<1>2. d = Size
  BY <1>1, DownloadAssumption DEF IInv, DestinationDurable
<1>3. dst' = dst
  BY <1>1, <1>2 DEF IInv, DestinationDurable, TypeOK
<1>4. TypeOK'
  BY <1>3 DEF IInv, TypeOK, Steps, PowerCut
<1>5. \A c \in Calls : OnDisk(c)'
  BY DEF PowerCut, OnDisk, BeforeTemp, WithTemp
<1>6. QED  BY <1>3, <1>4, <1>5 DEF IInv, DestinationDurable

LEMMA NextIInv == IInv /\ [Next]_vars => IInv'
<1> SUFFICES ASSUME IInv, [Next]_vars PROVE IInv'
  OBVIOUS
<1>1. CASE UNCHANGED vars
  BY <1>1 DEF vars, IInv, TypeOK, DestinationDurable, OnDisk
<1>2. QED
  BY <1>1, BeforeTempStep, CopySyncStep, CloseChmodStep, RenameStep, StepFailsStep,
     CleanupStep, PowerCutStep DEF Next

LEMMA Invariance == Spec => []IInv
BY InitIInv, NextIInv, PTL DEF Spec

-----------------------------------------------------------------------------
(* Every call, temporary file and the destination keep their types.          *)
THEOREM TypeCorrect == Spec => []TypeOK
<1>1. IInv => TypeOK
  BY DEF IInv
<1>2. QED  BY <1>1, Invariance, PTL

(* A call that returned has left no temporary file, if it could remove it.   *)
THEOREM NoPartLeftHolds == Spec => []NoPartLeft
<1>1. IInv => NoPartLeft
  BY DEF IInv, OnDisk, NoPartLeft
<1>2. QED  BY <1>1, Invariance, PTL

(* The downloads implement AtomicFile: the destination is the old file or    *)
(* one whole download at every moment, power cuts included.                  *)
THEOREM DestinationWholeHolds == Spec => DestinationWhole
<1>1. Init => Whole!Init
  BY DEF Init, Whole!Init
<1>2. IInv /\ [Next]_vars => [Whole!Next]_(IF dst.data = Size THEN dst.of ELSE Torn)
  <2> SUFFICES ASSUME IInv, [Next]_vars
               PROVE  [Whole!Next]_(IF dst.data = Size THEN dst.of ELSE Torn)
    OBVIOUS
  <2>1. ASSUME NEW c \in Calls, Rename(c) PROVE Whole!Next
    <3>1. temp[c].data = Size
      BY <2>1 DEF IInv, OnDisk, Rename
    <3>2. Whole!Replace(c)
      BY <2>1, <3>1 DEF Rename, Whole!Replace
    <3>3. QED  BY <3>2 DEF Whole!Next
  <2>2. CASE PowerCut
    BY <2>2, PowerCutStep
  <2>3. CASE UNCHANGED vars
    BY <2>3 DEF vars
  <2>4. ASSUME NEW c \in Calls,
               \/ Open(c) \/ Mkdir(c) \/ CreateTemp(c) \/ CopyChunk(c) \/ CopyEnds(c)
               \/ Sync(c) \/ Close(c) \/ Chmod(c) \/ StepFails(c) \/ Cleanup(c)
        PROVE  dst' = dst
    BY <2>4 DEF Open, Mkdir, CreateTemp, CopyChunk, CopyEnds, Sync, Close, Chmod, StepFails, Cleanup
  <2>5. QED  BY <2>1, <2>2, <2>3, <2>4 DEF Next
<1>3. QED  BY <1>1, <1>2, Invariance, PTL DEF Spec, DestinationWhole, Whole!Spec

-----------------------------------------------------------------------------
(* Exchanges.  Max and Min of the few numbers they are taken of here.        *)
LEMMA MaxOfTwo ==
  ASSUME NEW a \in Int, NEW b \in Int
  PROVE  X!Max({a, b}) \in {a, b} /\ X!Max({a, b}) >= a /\ X!Max({a, b}) >= b
<1>1. \E m \in {a, b} : \A y \in {a, b} : m >= y
  OBVIOUS
<1>2. QED  BY <1>1 DEF X!Max

LEMMA MaxOfThree ==
  ASSUME NEW a \in Int, NEW b \in Int, NEW c \in Int
  PROVE  /\ X!Max({a, b, c}) \in {a, b, c}
         /\ X!Max({a, b, c}) >= a /\ X!Max({a, b, c}) >= b /\ X!Max({a, b, c}) >= c
<1>1. \E m \in {a, b, c} : \A y \in {a, b, c} : m >= y
  OBVIOUS
<1>2. QED  BY <1>1 DEF X!Max

LEMMA MinOfTwo ==
  ASSUME NEW a \in Int, NEW b \in Int
  PROVE  X!Min({a, b}) \in {a, b} /\ X!Min({a, b}) <= a /\ X!Min({a, b}) <= b
<1>1. \E m \in {a, b} : \A y \in {a, b} : m <= y
  OBVIOUS
<1>2. QED  BY <1>1 DEF X!Min

-----------------------------------------------------------------------------
(* Pauses.  Before jitter a pause is at most Top; jitter and rounding keep   *)
(* the order of pauses.                                                      *)
Top(c, n) == IF c.ceiling > 0 THEN X!Max({c.initial, c.ceiling}) ELSE X!Grown(c, n)
Swing(c, d) == (d * c.jitter) \div 100

(* The attempts a policy with a limit of its own lets pause.                 *)
Pausing(c, n) == n \in Nat \ {0} /\ (c.policy # "always" => n < c.retryAttempts)

LEMMA GrownIsNat ==
  ASSUME NEW c \in Configs, NEW n \in Nat \ {0}, n < c.retryAttempts
  PROVE  X!Grown(c, n) \in Nat
<1>1. c \in Config
  BY ExchangeAssumption
<1>2. CASE n = 1
  BY <1>1, <1>2 DEF X!Grown, Config
<1>3. CASE n # 1
  <2>1. n - 1 \in 1 .. c.retryAttempts
    BY <1>1, <1>3 DEF Config
  <2>2. c.multiplier ^ (n - 1) \in Nat /\ c.initial \in Nat
    BY <1>1, <2>1, PowersAssumption DEF Config
  <2>3. \A x, y \in Nat : x * y \in Nat
    OBVIOUS
  <2>4. QED  BY <1>3, <2>2, <2>3 DEF X!Grown
<1>4. QED  BY <1>2, <1>3

LEMMA TopIsNat ==
  ASSUME NEW c \in Configs, NEW n \in Nat \ {0}, n < c.retryAttempts
  PROVE  Top(c, n) \in Nat /\ (c.ceiling > 0 => c.initial <= Top(c, n) /\ c.ceiling <= Top(c, n))
<1>1. c.initial \in Nat /\ c.ceiling \in Nat
  BY ExchangeAssumption DEF Config
<1>2. CASE c.ceiling > 0
  <2>1. X!Max({c.initial, c.ceiling}) \in {c.initial, c.ceiling}
        /\ X!Max({c.initial, c.ceiling}) >= c.initial /\ X!Max({c.initial, c.ceiling}) >= c.ceiling
    <3>1. c.initial \in Int /\ c.ceiling \in Int
      BY <1>1
    <3>2. QED  BY <3>1, MaxOfTwo, Zenon
  <2>2. QED  BY <1>1, <1>2, <2>1 DEF Top
<1>3. QED  BY <1>2, GrownIsNat DEF Top

LEMMA SwingGrows ==
  ASSUME NEW c \in Configs, NEW d \in Nat, NEW e \in Nat, d <= e
  PROVE  Swing(c, d) \in Nat /\ Swing(c, e) \in Nat /\ Swing(c, d) <= Swing(c, e)
<1>1. c.jitter \in Nat
  BY ExchangeAssumption DEF Config
<1>2. \A x, y, z \in Nat : x <= y => x * z \in Nat /\ y * z \in Nat /\ x * z <= y * z
  OBVIOUS
<1>3. d * c.jitter \in Nat /\ e * c.jitter \in Nat /\ d * c.jitter <= e * c.jitter
  BY <1>1, <1>2
<1>4. \A x, y \in Nat : x <= y => x \div 100 \in Nat /\ y \div 100 \in Nat /\ x \div 100 <= y \div 100
  OBVIOUS
<1>5. QED  BY <1>3, <1>4 DEF Swing

(* The pause as it has grown and been cut, from whichever attempt on the     *)
(* ceiling is looked at.                                                     *)
LEMMA CutIsBelowTop ==
  ASSUME NEW c \in Configs, NEW n \in Nat \ {0}, n < c.retryAttempts,
         NEW from \in Nat, from <= n \/ n = 1
  PROVE  LET d == IF X!Overgrown(c, from, n) THEN c.ceiling ELSE X!Grown(c, n)
         IN d \in Nat /\ d <= Top(c, n)
<1>1. c.initial \in Nat /\ c.ceiling \in Nat /\ X!Grown(c, n) \in Nat
  BY GrownIsNat, ExchangeAssumption DEF Config
<1>2. CASE X!Overgrown(c, from, n)
  BY <1>1, <1>2, TopIsNat DEF X!Overgrown
<1>3. CASE ~X!Overgrown(c, from, n) /\ c.ceiling > 0 /\ from <= n
  <2>1. n \in from .. n
    BY <1>3
  <2>2. X!Grown(c, n) <= c.ceiling
    BY <1>1, <1>3, <2>1 DEF X!Overgrown
  <2>3. QED  BY <1>1, <1>3, <2>2, TopIsNat
<1>4. CASE ~X!Overgrown(c, from, n) /\ c.ceiling > 0 /\ n = 1
  <2>1. X!Grown(c, n) = c.initial
    BY <1>4 DEF X!Grown
  <2>2. QED  BY <1>1, <1>4, <2>1, TopIsNat
<1>5. CASE ~X!Overgrown(c, from, n) /\ ~(c.ceiling > 0)
  BY <1>1, <1>5 DEF Top
<1>6. QED  BY <1>2, <1>3, <1>4, <1>5

(* No pause the code plans is longer than the plan allows.                   *)
LEMMA PausesArePlanned ==
  ASSUME NEW c \in Configs, NEW n, Pausing(c, n), NEW d \in X!Pauses(c, n)
  PROVE  d \in Int /\ X!LongestPlanned(c, n) \in Int /\ d <= X!LongestPlanned(c, n)
<1>1. /\ c.initial \in Nat /\ c.ceiling \in Nat /\ c.fixed \in Nat /\ c.jitter \in Nat
      /\ c.retryAttempts \in Nat /\ n \in Nat \ {0}
      /\ c.policy \in {"none", "fixed", "exponential", "always"}
  BY ExchangeAssumption DEF Config, Pausing
<1>2. CASE c.policy = "always"
  BY <1>2 DEF X!Pauses, X!LongestPlanned
<1>3. CASE c.policy # "always"
  <2> DEFINE T == Top(c, n)
             P == X!LongestPlanned(c, n)
  <2>1. n < c.retryAttempts /\ T \in Nat
    BY <1>1, <1>3, TopIsNat DEF Pausing
  <2>2. Swing(c, T) \in Nat
    BY <2>1, SwingGrows
  <2>3. P = X!Max({T + Swing(c, T), c.fixed, 100})
    BY <1>3 DEF X!LongestPlanned, Top, Swing
  <2> HIDE DEF T, P
  <2>4. P \in Int /\ T + Swing(c, T) <= P /\ c.fixed <= P /\ 100 <= P
    <3>1. T + Swing(c, T) \in Int /\ c.fixed \in Int /\ 100 \in Int
      BY <1>1, <2>1, <2>2
    <3>2. /\ P \in {T + Swing(c, T), c.fixed, 100}
          /\ P >= T + Swing(c, T) /\ P >= c.fixed /\ P >= 100
      BY <2>3, <3>1, MaxOfThree, Zenon
    <3>3. QED  BY <3>1, <3>2
  <2>5. CASE c.policy = "fixed"
    BY <1>1, <2>4, <2>5 DEF X!Pauses, P
  <2>6. CASE c.policy = "exponential"
    <3> DEFINE cut == IF X!Overgrown(c, X!Min({2, n}), n) THEN c.ceiling ELSE X!Grown(c, n)
    <3>1. X!Min({2, n}) \in Nat /\ X!Min({2, n}) <= n
      <4>1. 2 \in Int /\ n \in Int
        BY <1>1
      <4>2. X!Min({2, n}) \in {2, n} /\ X!Min({2, n}) <= n
        BY <4>1, MinOfTwo, Zenon
      <4>3. QED  BY <1>1, <4>2
    <3>2. cut \in Nat /\ cut <= T
      BY <1>1, <2>1, <3>1, CutIsBelowTop DEF T
    <3>3. d = cut \/ d \in 0 .. cut
      BY <2>6 DEF X!Pauses, X!PolicyBackoff
    <3>4. d \in Int /\ d <= T
      BY <2>1, <3>2, <3>3
    <3>5. QED  BY <2>1, <2>2, <2>4, <3>4 DEF P
  <2>7. CASE c.policy = "none"
    <3> DEFINE cut == IF X!Overgrown(c, 2, n) THEN c.ceiling ELSE X!Grown(c, n)
    <3>1. cut \in Nat /\ cut <= T
      BY <1>1, <2>1, CutIsBelowTop DEF T
    <3>2. Swing(c, cut) \in Nat /\ Swing(c, cut) <= Swing(c, T)
      BY <2>1, <3>1, SwingGrows
    <3>3. \/ d = cut \/ d = c.fixed \/ d = 100
          \/ \E e \in (cut - Swing(c, cut)) .. (cut + Swing(c, cut)) : d = X!Max({1, e})
      BY <2>7 DEF X!Pauses, X!LegacyBackoff, Swing
    <3> HIDE DEF cut
    <3>4. ASSUME NEW e \in (cut - Swing(c, cut)) .. (cut + Swing(c, cut)), d = X!Max({1, e})
          PROVE  d \in Int /\ d <= P
      <4>1. e \in Int /\ e <= T + Swing(c, T)
        BY <2>1, <2>2, <3>1, <3>2
      <4>2. d \in {1, e}
        <5>1. 1 \in Int
          OBVIOUS
        <5>2. QED  BY <3>4, <4>1, <5>1, MaxOfTwo, Zenon
      <4>3. QED  BY <2>1, <2>2, <2>4, <4>1, <4>2
    <3>5. d \in Int /\ d <= P
      <4>1. CASE d = cut \/ d = c.fixed \/ d = 100
        BY <1>1, <2>1, <2>2, <2>4, <3>1, <4>1
      <4>2. CASE \E e \in (cut - Swing(c, cut)) .. (cut + Swing(c, cut)) : d = X!Max({1, e})
        BY <3>4, <4>2
      <4>3. QED  BY <3>3, <4>1, <4>2
    <3>6. QED  BY <2>4, <3>5 DEF P
  <2>8. QED  BY <1>1, <1>3, <2>5, <2>6, <2>7
<1>4. QED  BY <1>2, <1>3

-----------------------------------------------------------------------------
(* The call.  An attempt is paused after, and begun after a pause, only when *)
(* the method, the cap and the policy allow one more (MayRepeat); a request  *)
(* leaves once in each attempt.                                              *)
MayRepeat(c, n) == X!RetryAllowed(c) /\ n < X!AttemptCap(c) /\ Pausing(c, n)

CallTypes ==
  /\ cfg \in Configs /\ pc \in {"attempt", "sending", "sleeping", "returned"}
  /\ attempt \in Nat \ {0} /\ ctxDone \in BOOLEAN
  /\ applied \in Nat /\ sent \in Nat

Counts ==
  /\ applied <= sent /\ sent <= attempt
  /\ pc \in {"attempt", "sending"} => sent = attempt - 1
  /\ attempt > 1 => MayRepeat(cfg, attempt - 1)
  /\ pc = "sleeping" => sent = attempt /\ MayRepeat(cfg, attempt)

(* What the call remembers of its last failure is true until it returns.     *)
Memory ==
  pc # "returned" =>
    /\ last \in {{}, {"network"}, {"http"}}
    /\ attempt > 1 \/ pc = "sleeping" => last # {}
    /\ attempt = 1 /\ pc # "sleeping" => sent = 0
    /\ "http" \in last => heard.status \in BadStatuses

CallInv == CallTypes /\ Counts /\ Memory /\ PauseKeepsToBoth /\ AnswerTellsTheStory

LEMMA CallInit == X!Init => CallInv
<1> SUFFICES ASSUME X!Init PROVE CallInv
  OBVIOUS
<1>1. ctxDone \in BOOLEAN
  BY DEF X!Init
<1>2. CallTypes
  BY <1>1 DEF X!Init, CallTypes
<1>3. QED
  BY <1>2 DEF X!Init, CallInv, Counts, Memory, PauseKeepsToBoth, X!PauseKeepsToBoth,
              AnswerTellsTheStory, X!AnswerTellsTheStory

LEMMA RetryMeans ==
  ASSUME CallTypes, NEW status, NEW d \in X!NextRetry(cfg, attempt, status)
  PROVE  MayRepeat(cfg, attempt) /\ d \in X!Pauses(cfg, attempt)
<1>1. QED
  BY DEF CallTypes, X!NextRetry, X!Wanted, MayRepeat, Pausing

LEMMA BeginStep == CallInv /\ (X!BeginAttempt \/ X!BeginUpload) => CallInv'
<1> SUFFICES ASSUME CallInv, X!BeginAttempt \/ X!BeginUpload PROVE CallInv'
  OBVIOUS
<1>1. /\ pc = "attempt" /\ UNCHANGED <<cfg, attempt, ctxDone, last, delay, applied, sent, heard>>
      /\ \/ pc' = "sending" /\ UNCHANGED result
         \/ pc' = "returned" /\ result' = {"build"}
         \/ pc' = "returned" /\ result' = {"context"} \cup last /\ ctxDone = TRUE
  BY DEF X!BeginAttempt, X!BeginUpload, X!Return, CallInv, CallTypes
<1>2. CallTypes' /\ Counts'
  BY <1>1 DEF CallInv, CallTypes, Counts, MayRepeat, Pausing, X!RetryAllowed, X!AttemptCap
<1>3. Memory' /\ PauseKeepsToBoth'
  BY <1>1 DEF CallInv, CallTypes, Memory, PauseKeepsToBoth, X!PauseKeepsToBoth
<1>4. AnswerTellsTheStory'
  BY <1>1 DEF CallInv, CallTypes, Counts, Memory, AnswerTellsTheStory, X!AnswerTellsTheStory
<1>5. QED  BY <1>2, <1>3, <1>4 DEF CallInv

(* A pause after a failed attempt, lengthened by the server or not.          *)
LEMMA SleepStep ==
  ASSUME CallInv, NEW status, NEW d \in X!NextRetry(cfg, attempt, status),
         NEW after, after = NoHeader \/ (after \in Nat /\ after <= cfg.maxRetryAfter),
         NEW cause \in {"network", "http"}, X!Sleep(X!Lengthened(cfg, d, after), {cause}),
         pc = "sending", sent' = sent + 1, applied' \in {applied, applied + 1},
         heard'.after = after, cause = "http" => heard'.status \in BadStatuses,
         UNCHANGED <<cfg, attempt, ctxDone>>
  PROVE  CallInv'
<1>1. MayRepeat(cfg, attempt) /\ d \in X!Pauses(cfg, attempt)
  BY RetryMeans DEF CallInv
<1>2. pc' = "sleeping" /\ last' = {cause} /\ result' = result /\ delay' = X!Lengthened(cfg, d, after)
  BY DEF X!Sleep
<1>3. CallTypes'
  BY <1>2 DEF CallInv, CallTypes
<1>4. Counts'
  BY <1>1, <1>2 DEF CallInv, CallTypes, Counts, MayRepeat, Pausing, X!RetryAllowed, X!AttemptCap
<1>5. Memory' /\ AnswerTellsTheStory'
  BY <1>2 DEF CallInv, CallTypes, Memory, AnswerTellsTheStory, X!AnswerTellsTheStory
<1>6. PauseKeepsToBoth'
  <2> DEFINE P == X!LongestPlanned(cfg, attempt)
  <2>1. cfg \in Configs /\ cfg.maxRetryAfter \in Nat
    BY ExchangeAssumption DEF CallInv, CallTypes, Config
  <2>2. d \in Int /\ P \in Int /\ d <= P
    BY <1>1, <2>1, PausesArePlanned DEF MayRepeat
  <2> HIDE DEF P
  <2>3. cfg.maxRetryAfter \in Int
    BY <2>1
  <2>4. /\ X!Max({cfg.maxRetryAfter, P}) \in {cfg.maxRetryAfter, P}
        /\ X!Max({cfg.maxRetryAfter, P}) >= cfg.maxRetryAfter /\ X!Max({cfg.maxRetryAfter, P}) >= P
    BY <2>2, <2>3, MaxOfTwo, Zenon
  <2>5. CASE after = NoHeader
    <3>1. delay' = d
      BY <1>2, <2>5 DEF X!Lengthened
    <3>2. heard'.after = NoHeader /\ delay' >= d /\ delay' <= X!Max({cfg.maxRetryAfter, P})
      BY <2>1, <2>2, <2>4, <2>5, <3>1
    <3>3. QED  BY <1>1, <3>2 DEF PauseKeepsToBoth, X!PauseKeepsToBoth, P
  <2>6. CASE after # NoHeader
    <3>1. after \in Int /\ after <= cfg.maxRetryAfter
      BY <2>6
    <3>2. delay' \in {d, after} /\ delay' >= d /\ delay' >= after
      BY <1>2, <2>2, <2>6, <3>1, MaxOfTwo, Zenon DEF X!Lengthened
    <3>3. delay' <= X!Max({cfg.maxRetryAfter, P})
      BY <2>1, <2>2, <2>4, <3>1, <3>2
    <3>4. QED  BY <1>1, <3>2, <3>3 DEF PauseKeepsToBoth, X!PauseKeepsToBoth, P
  <2>7. QED  BY <2>5, <2>6
<1>7. QED  BY <1>3, <1>4, <1>5, <1>6 DEF CallInv

(* A call that returns after its request has left.                           *)
LEMMA ReturnStep ==
  ASSUME CallInv, pc = "sending", sent' = sent + 1, applied' \in {applied, applied + 1},
         UNCHANGED <<cfg, attempt, ctxDone>>, pc' = "returned",
         result' = {} => heard'.status \in OkStatuses /\ applied' = applied + 1,
         "http" \in result' => heard'.status \in BadStatuses,
         "context" \in result' => ctxDone = TRUE /\ "network" \in result'
  PROVE  CallInv'
<1>1. CallTypes'
  BY DEF CallInv, CallTypes
<1>2. Counts'
  BY DEF CallInv, CallTypes, Counts, MayRepeat, Pausing, X!RetryAllowed, X!AttemptCap
<1>3. Memory' /\ PauseKeepsToBoth'
  BY DEF Memory, PauseKeepsToBoth, X!PauseKeepsToBoth
<1>4. AnswerTellsTheStory'
  BY DEF CallInv, CallTypes, AnswerTellsTheStory, X!AnswerTellsTheStory
<1>5. QED  BY <1>1, <1>2, <1>3, <1>4 DEF CallInv

LEMMA SendFailsStep == ASSUME CallInv, NEW b \in BOOLEAN, X!SendFails(b) PROVE CallInv'
<1>1. /\ pc = "sending" /\ sent' = sent + 1 /\ applied' \in {applied, applied + 1}
      /\ heard' = X!Silent /\ UNCHANGED <<cfg, attempt, ctxDone>>
  BY DEF X!SendFails
<1>2. CASE X!Return({"context", "network"}) /\ ctxDone
  <2>1. ctxDone = TRUE
    BY <1>2 DEF CallInv, CallTypes
  <2>2. QED  BY <1>1, <1>2, <2>1, ReturnStep DEF X!Return
<1>3. CASE X!Return({"network"})
  BY <1>1, <1>3, ReturnStep DEF X!Return
<1>4. ASSUME NEW d \in X!NextRetry(cfg, attempt, 0), X!Sleep(d, {"network"}) PROVE CallInv'
  <2>1. heard'.after = NoHeader /\ X!Lengthened(cfg, d, NoHeader) = d
    BY <1>1 DEF X!Silent, X!Lengthened
  <2>2. QED  BY <1>1, <1>4, <2>1, SleepStep
<1>5. QED  BY <1>2, <1>3, <1>4 DEF X!SendFails

LEMMA AnswerBadStep ==
  ASSUME CallInv, NEW s \in BadStatuses, NEW a \in RetryAfters, NEW b \in BOOLEAN, X!AnswerBad(s, a, b)
  PROVE  CallInv'
<1>1. /\ pc = "sending" /\ sent' = sent + 1 /\ applied' \in {applied, applied + 1}
      /\ heard' = [status |-> s, after |-> a] /\ UNCHANGED <<cfg, attempt, ctxDone>>
  BY DEF X!AnswerBad
<1>2. CASE X!Return({"http"})
  BY <1>1, <1>2, ReturnStep DEF X!Return
<1>3. ASSUME NEW d \in X!NextRetry(cfg, attempt, s), X!Sleep(X!Lengthened(cfg, d, a), {"http"}),
             ~(a # NoHeader /\ a > cfg.maxRetryAfter)
      PROVE  CallInv'
  <2>1. cfg.maxRetryAfter \in Nat
    BY ExchangeAssumption DEF CallInv, CallTypes, Config
  <2>2. a = NoHeader \/ (a \in Nat /\ a <= cfg.maxRetryAfter)
    BY <1>3, <2>1, ExchangeAssumption
  <2>3. heard'.after = a /\ heard'.status \in BadStatuses
    BY <1>1
  <2>4. QED  BY <1>1, <1>3, <2>2, <2>3, SleepStep
<1>4. QED  BY <1>2, <1>3 DEF X!AnswerBad

LEMMA AnswerGoodStep == ASSUME CallInv, NEW s \in OkStatuses, X!AnswerGood(s) PROVE CallInv'
<1>1. /\ pc = "sending" /\ sent' = sent + 1 /\ applied' = applied + 1
      /\ heard' = [status |-> s, after |-> NoHeader] /\ UNCHANGED <<cfg, attempt, ctxDone>>
  BY DEF X!AnswerGood
<1>2. pc' = "returned" /\ "http" \notin result' /\ "context" \notin result'
  BY DEF X!AnswerGood, X!Return, X!BodyErrors
<1>3. QED  BY <1>1, <1>2, ReturnStep

LEMMA WakeStep == CallInv /\ X!Wake => CallInv'
<1> SUFFICES ASSUME CallInv, X!Wake PROVE CallInv'
  OBVIOUS
<1>1. pc = "sleeping" /\ UNCHANGED <<cfg, ctxDone, last, delay, applied, sent, heard>>
  BY DEF X!Wake
<1>2. \/ pc' = "attempt" /\ attempt' = attempt + 1 /\ UNCHANGED result
      \/ pc' = "returned" /\ result' = {"context"} \cup last /\ ctxDone = TRUE /\ UNCHANGED attempt
  BY DEF X!Wake, X!Return, CallInv, CallTypes
<1>3. CallTypes'
  BY <1>1, <1>2 DEF CallInv, CallTypes
<1>4. Counts'
  <2>1. MayRepeat(cfg, attempt) /\ sent <= attempt /\ applied <= sent /\ attempt \in Nat \ {0}
        /\ sent = attempt
    BY <1>1 DEF CallInv, CallTypes, Counts
  <2>2. CASE pc' = "attempt" /\ attempt' = attempt + 1
    <3>1. attempt' - 1 = attempt /\ cfg' = cfg
      BY <1>1, <2>1, <2>2
    <3>2. MayRepeat(cfg', attempt' - 1)
      BY <2>1, <3>1
    <3>3. QED  BY <1>1, <2>1, <2>2, <3>2 DEF Counts
  <2>3. CASE pc' = "returned" /\ UNCHANGED attempt
    BY <1>1, <2>3 DEF CallInv, CallTypes, Counts, MayRepeat, Pausing, X!RetryAllowed, X!AttemptCap
  <2>4. QED  BY <1>2, <2>2, <2>3
<1>5. Memory' /\ PauseKeepsToBoth'
  BY <1>1, <1>2 DEF CallInv, CallTypes, Memory, PauseKeepsToBoth, X!PauseKeepsToBoth
<1>6. AnswerTellsTheStory'
  BY <1>1, <1>2 DEF CallInv, CallTypes, Memory, AnswerTellsTheStory, X!AnswerTellsTheStory
<1>7. QED  BY <1>3, <1>4, <1>5, <1>6 DEF CallInv

LEMMA ContextEndsStep == CallInv /\ X!ContextEnds => CallInv'
<1> SUFFICES ASSUME CallInv, X!ContextEnds PROVE CallInv'
  OBVIOUS
<1>1. /\ pc # "returned" /\ ctxDone' = TRUE
      /\ UNCHANGED <<cfg, pc, attempt, last, delay, result, applied, sent, heard>>
  BY DEF X!ContextEnds
<1>2. CallTypes' /\ Counts'
  BY <1>1 DEF CallInv, CallTypes, Counts, MayRepeat, Pausing, X!RetryAllowed, X!AttemptCap
<1>3. Memory' /\ PauseKeepsToBoth'
  BY <1>1 DEF CallInv, Memory, PauseKeepsToBoth, X!PauseKeepsToBoth
<1>4. AnswerTellsTheStory'
  BY <1>1 DEF AnswerTellsTheStory, X!AnswerTellsTheStory
<1>5. QED  BY <1>2, <1>3, <1>4 DEF CallInv

LEMMA CallStep == CallInv /\ [X!Next]_(X!vars) => CallInv'
<1>1. CallInv /\ UNCHANGED X!vars => CallInv'
  BY DEF X!vars, CallInv, CallTypes, Counts, MayRepeat, Pausing, X!RetryAllowed, X!AttemptCap, Memory,
         PauseKeepsToBoth, X!PauseKeepsToBoth, AnswerTellsTheStory, X!AnswerTellsTheStory
<1>2. QED
  BY <1>1, BeginStep, SendFailsStep, AnswerBadStep, AnswerGoodStep, WakeStep, ContextEndsStep DEF X!Next

LEMMA ExchangesRun == HttpxSpec => X!Init /\ [][X!Next]_(X!vars)
<1>1. HttpxInit => X!Init
  BY DEF HttpxInit
<1>2. [HttpxNext]_httpxVars => [X!Next]_(X!vars)
  BY DEF HttpxNext, Exchange, Downloads, Stream, Logging, httpxVars, exchangeVars, X!vars
<1>3. QED  BY <1>1, <1>2, PTL DEF HttpxSpec

LEMMA CallInvariance == HttpxSpec => []CallInv
BY CallInit, CallStep, ExchangesRun, PTL

(* No call reaches the server again that may not, under any policy and       *)
(* however many attempts the client is configured for.                       *)
THEOREM RepeatsJustifiedHolds == HttpxSpec => []RepeatsJustified
<1>1. CallInv => RepeatsJustified
  <2> SUFFICES ASSUME CallInv PROVE RepeatsJustified
    OBVIOUS
  <2>1. cfg.retryAttempts \in Nat /\ cfg.maxAttempts \in Nat
    BY ExchangeAssumption DEF CallInv, CallTypes, Config
  <2>2. applied <= sent /\ sent <= attempt /\ sent \in Nat /\ attempt \in Nat \ {0}
        /\ (attempt > 1 => MayRepeat(cfg, attempt - 1))
    BY DEF CallInv, CallTypes, Counts
  <2>3. sent > 1 => X!Repeatable(cfg) /\ cfg.kind = "json"
    <3> SUFFICES ASSUME sent > 1 PROVE X!Repeatable(cfg) /\ cfg.kind = "json"
      OBVIOUS
    <3>1. X!RetryAllowed(cfg)
      BY <2>2 DEF MayRepeat
    <3>2. cfg.requestKey \in {"absent", "empty", "set"}
      BY ExchangeAssumption DEF CallInv, CallTypes, Config
    <3>3. QED  BY <3>1, <3>2 DEF X!RetryAllowed, X!Repeatable, X!KeySent, X!KeyEmptied
  <2>4. X!AttemptCap(cfg) \in Nat \ {0}
    <3>1. DefaultMaxAttempts \in Int /\ cfg.retryAttempts \in Int
      BY <2>1, ExchangeAssumption
    <3>2. /\ X!Max({DefaultMaxAttempts, cfg.retryAttempts}) \in {DefaultMaxAttempts, cfg.retryAttempts}
          /\ X!Max({DefaultMaxAttempts, cfg.retryAttempts}) >= DefaultMaxAttempts
      BY <3>1, MaxOfTwo, Zenon
    <3>3. QED  BY <2>1, <3>2, ExchangeAssumption DEF X!AttemptCap
  <2>5. sent <= X!AttemptCap(cfg)
    BY <2>2, <2>4 DEF MayRepeat
  <2>6. cfg.policy # "always" => sent <= X!Max({1, cfg.retryAttempts})
    <3>1. 1 \in Int /\ cfg.retryAttempts \in Int
      BY <2>1
    <3>2. /\ X!Max({1, cfg.retryAttempts}) \in {1, cfg.retryAttempts}
          /\ X!Max({1, cfg.retryAttempts}) >= 1 /\ X!Max({1, cfg.retryAttempts}) >= cfg.retryAttempts
      BY <3>1, MaxOfTwo, Zenon
    <3>3. QED  BY <2>1, <2>2, <3>2 DEF MayRepeat, Pausing
  <2>7. QED  BY <2>2, <2>3, <2>5, <2>6 DEF RepeatsJustified, X!RepeatsJustified
<1>2. QED  BY <1>1, CallInvariance, PTL

(* Every pause keeps to the server's wish and to the client's plan.          *)
THEOREM PauseKeepsToBothHolds == HttpxSpec => []PauseKeepsToBoth
<1>1. CallInv => PauseKeepsToBoth
  BY DEF CallInv
<1>2. QED  BY <1>1, CallInvariance, PTL

(* What a call returns is what happened to it.                               *)
THEOREM AnswerTellsTheStoryHolds == HttpxSpec => []AnswerTellsTheStory
<1>1. CallInv => AnswerTellsTheStory
  BY DEF CallInv
<1>2. QED  BY <1>1, CallInvariance, PTL

-----------------------------------------------------------------------------
(* Streams.  A record is on the wire, with the decoder or with the handler;  *)
(* ReadEOF is the only way to "ok", and it is taken with nothing on the way. *)
StreamInv ==
  /\ S!TypeOK
  /\ StreamIsComplete
  /\ verdict = "ok" => step = "returned"

LEMMA StreamStep == StreamInv /\ [S!Next]_(S!vars) => StreamInv'
<1> SUFFICES ASSUME StreamInv, [S!Next]_(S!vars) PROVE StreamInv'
  OBVIOUS
<1> USE StreamAssumption DEF StreamInv, StreamIsComplete, S!StreamIsComplete, S!TypeOK, S!Off
<1>1. CASE S!Send
  BY <1>1 DEF S!Send, S!reader
<1>2. CASE S!EndBody
  BY <1>2 DEF S!EndBody, S!reader
<1>3. CASE S!Open
  BY <1>3 DEF S!Open, S!server
<1>4. CASE S!OpenFails
  BY <1>4 DEF S!OpenFails, S!Return, S!FailureOf, S!server
<1>5. CASE S!Read
  BY <1>5 DEF S!Read
<1>6. CASE S!Decode
  BY <1>6 DEF S!Decode, S!server
<1>7. CASE S!ReadEOF
  BY <1>7 DEF S!ReadEOF, S!Return, S!server
<1>8. CASE S!ReadFails
  BY <1>8 DEF S!ReadFails, S!Return, S!FailureOf, S!server
<1>9. CASE S!HandlerReturns \/ S!HandlerFails
  BY <1>9 DEF S!HandlerReturns, S!HandlerFails, S!Return, S!server
<1>10. CASE S!Tick
  BY <1>10 DEF S!Tick
<1>11. CASE S!CallerCancels
  BY <1>11 DEF S!CallerCancels, S!reader, S!server
<1>12. CASE UNCHANGED S!vars
  BY <1>12 DEF S!vars
<1>13. QED
  BY <1>1, <1>2, <1>3, <1>4, <1>5, <1>6, <1>7, <1>8, <1>9, <1>10, <1>11, <1>12 DEF S!Next

(* Every behaviour of the package is a behaviour of each part.               *)
LEMMA StreamsRun == HttpxSpec => S!Init /\ [][S!Next]_(S!vars)
<1>1. HttpxInit => S!Init
  BY DEF HttpxInit
<1>2. [HttpxNext]_httpxVars => [S!Next]_(S!vars)
  BY DEF HttpxNext, Exchange, Downloads, Stream, Logging, httpxVars, streamVars, S!vars
<1>3. QED  BY <1>1, <1>2, PTL DEF HttpxSpec

LEMMA StreamInit == S!Init => StreamInv
<1> SUFFICES ASSUME S!Init PROVE StreamInv
  OBVIOUS
<1>1. ended \in BOOLEAN
  BY DEF S!Init
<1>2. S!TypeOK
  BY <1>1, StreamAssumption DEF S!Init, S!TypeOK, S!Off
<1>3. QED  BY <1>2 DEF S!Init, StreamInv, StreamIsComplete, S!StreamIsComplete

(* Whatever the server sends and whenever the timer fires, no record is lost *)
(* or handled twice, for any number of records and any idle time.            *)
THEOREM StreamIsCompleteHolds == HttpxSpec => []StreamIsComplete
<1>1. StreamInv => StreamIsComplete
  BY DEF StreamInv
<1>2. QED  BY <1>1, StreamInit, StreamStep, StreamsRun, PTL

-----------------------------------------------------------------------------
(* The log.  Between Lock and Unlock a goroutine is alone, so what Stat saw  *)
(* of the file still holds when it writes; a line is in a file exactly when  *)
(* its goroutine has written it, and nobody writes twice.                    *)
LogFile == [lines : Seq(Loggers), size : Nat]

LogTypes ==
  /\ spot \in [Loggers -> {"format", "stat", "rotate", "write", "done"}]
  /\ logMu \in Loggers \cup {Nobody}
  /\ current \in LogFile /\ rotated \in SUBSET LogFile
  /\ dropped \in SUBSET Loggers /\ unrotated \in BOOLEAN
  /\ \A g \in dropped : spot[g] = "done"

AloneInside == \A g \in Loggers : spot[g] \in {"stat", "rotate", "write"} <=> logMu = g

(* A line of a file is of a goroutine that has written it ...                *)
LinesWritten ==
  \A f \in L!Files : \A i \in 1 .. Len(f.lines) :
    spot[f.lines[i]] = "done" /\ f.lines[i] \notin dropped

(* ... no two places in the files have the same line ...                     *)
LinesApart ==
  \A f, h \in L!Files : \A i \in 1 .. Len(f.lines), j \in 1 .. Len(h.lines) :
    f.lines[i] = h.lines[j] => f = h /\ i = j

(* ... and a goroutine that has written has its line somewhere.              *)
LinesKept ==
  \A g \in Loggers : spot[g] = "done" /\ g \notin dropped =>
    \E f \in L!Files : \E i \in 1 .. Len(f.lines) : f.lines[i] = g

(* A file rotated away is not the day's file, and has lines.                 *)
RotatedApart ==
  /\ current \notin rotated /\ L!NewFile \notin rotated
  /\ \A g \in Loggers : spot[g] = "rotate" => current # L!NewFile
  /\ current.lines = <<>> <=> current = L!NewFile

SizesKept ==
  unrotated = FALSE =>
    /\ \A f \in L!Files : f.size <= MaxSize \/ Len(f.lines) = 1
    /\ \A g \in Loggers : spot[g] = "write" =>
         current = L!NewFile \/ current.size + Length[g] <= MaxSize

LogInv == LogTypes /\ AloneInside /\ LinesWritten /\ LinesApart /\ LinesKept /\ RotatedApart /\ SizesKept


LEMMA LogInit == L!Init => LogInv
<1> SUFFICES ASSUME L!Init PROVE LogInv
  OBVIOUS
<1>1. current = L!NewFile /\ L!NewFile \in LogFile /\ L!NewFile.lines = <<>> /\ L!NewFile.size = 0
  BY DEF L!Init, L!NewFile, LogFile
<1>2. LogTypes
  BY <1>1 DEF L!Init, LogTypes
<1>3. L!Files = {L!NewFile}
  BY DEF L!Init, L!Files, L!NewFile
<1>4. LinesWritten /\ LinesApart /\ LinesKept
  BY <1>1, <1>3 DEF L!Init, LinesWritten, LinesApart, LinesKept
<1>5. AloneInside /\ RotatedApart
  BY <1>1, LogAssumption DEF L!Init, AloneInside, RotatedApart
<1>6. SizesKept
  BY <1>1, <1>3, LogAssumption DEF L!Init, SizesKept
<1>7. QED  BY <1>2, <1>4, <1>5, <1>6 DEF LogInv

(* What a step that touches no file and finishes nobody keeps.               *)
LEMMA FilesUntouched ==
  ASSUME LogInv, UNCHANGED <<current, rotated, dropped>>,
         \A g \in Loggers : spot'[g] = "done" <=> spot[g] = "done"
  PROVE  LinesWritten' /\ LinesApart' /\ LinesKept'
<1>1. L!Files' = L!Files
  BY DEF L!Files
<1>2. \A f \in L!Files : f \in LogFile
  BY DEF LogInv, LogTypes, L!Files
<1>3. \A f \in L!Files : \A i \in 1 .. Len(f.lines) : f.lines[i] \in Loggers
  BY <1>2 DEF LogFile
<1>4. QED  BY <1>1, <1>3 DEF LogInv, LinesWritten, LinesApart, LinesKept

LEMMA LockStep == ASSUME LogInv, NEW g \in Loggers, L!Lock(g) PROVE LogInv'
<1> USE DEF L!Lock, L!Move
<1>1. LogTypes'
  BY DEF LogInv, LogTypes
<1>2. AloneInside'
  BY LogAssumption DEF LogInv, LogTypes, AloneInside
<1>3. LinesWritten' /\ LinesApart' /\ LinesKept'
  BY FilesUntouched DEF LogInv, LogTypes
<1>4. RotatedApart'
  BY DEF LogInv, LogTypes, RotatedApart, L!NewFile
<1>5. SizesKept'
  BY DEF LogInv, LogTypes, SizesKept, L!Files, L!NewFile
<1>6. QED  BY <1>1, <1>2, <1>3, <1>4, <1>5 DEF LogInv

(* Stat finds room for the line, or sends it to rotation, or is excused.     *)
LEMMA StatStep == ASSUME LogInv, NEW g \in Loggers, L!Stat(g) PROVE LogInv'
<1>0. spot[g] = "stat" /\ UNCHANGED <<logMu, current, rotated, dropped>>
  BY DEF L!Stat
<1>1. spot' = [spot EXCEPT ![g] = "write"] \/ (spot' = [spot EXCEPT ![g] = "rotate"] /\ L!Overflows(g))
  <2>1. CASE L!Overflows(g)
    BY <2>1 DEF L!Stat, L!Move
  <2>2. CASE ~L!Overflows(g)
    BY <2>2 DEF L!Stat, L!Move
  <2>3. QED  BY <2>1, <2>2
<1>2. unrotated' = FALSE => unrotated = FALSE /\ (spot'[g] = "write" => ~L!Overflows(g))
  BY DEF L!Stat, L!Move, LogInv, LogTypes
<1>3. unrotated' \in BOOLEAN
  BY DEF L!Stat, LogInv, LogTypes
<1>4. LogTypes'
  BY <1>0, <1>1, <1>3 DEF LogInv, LogTypes
<1>5. AloneInside'
  BY <1>0, <1>1 DEF LogInv, LogTypes, AloneInside
<1>6. LinesWritten' /\ LinesApart' /\ LinesKept'
  BY <1>0, <1>1, FilesUntouched DEF LogInv, LogTypes
<1>7. RotatedApart'
  BY <1>0, <1>1 DEF LogInv, LogTypes, RotatedApart, L!NewFile, L!Overflows
<1>8. SizesKept'
  <2>1. ~L!Overflows(g) => current = L!NewFile \/ current.size + Length[g] <= MaxSize
    BY LogAssumption DEF L!Overflows, LogInv, LogTypes, LogFile
  <2>2. QED
    BY <1>0, <1>1, <1>2, <2>1 DEF LogInv, LogTypes, AloneInside, SizesKept, L!Files, L!NewFile
<1>9. QED  BY <1>4, <1>5, <1>6, <1>7, <1>8 DEF LogInv

LEMMA RotateStep == ASSUME LogInv, NEW g \in Loggers, L!Rotate(g) PROVE LogInv'
<1>1. /\ spot[g] = "rotate" /\ spot' = [spot EXCEPT ![g] = "write"]
      /\ UNCHANGED <<logMu, dropped>>
  BY DEF L!Rotate, L!Move
<1>2. AloneInside'
  BY <1>1 DEF LogInv, LogTypes, AloneInside
<1>3. CASE unrotated' = TRUE /\ UNCHANGED <<rotated, current>>
  <2>1. LogTypes'
    BY <1>1, <1>3 DEF LogInv, LogTypes
  <2>2. LinesWritten' /\ LinesApart' /\ LinesKept'
    BY <1>1, <1>3, FilesUntouched DEF LogInv, LogTypes
  <2>3. RotatedApart'
    BY <1>1, <1>3 DEF LogInv, LogTypes, RotatedApart, L!NewFile
  <2>4. SizesKept'
    BY <1>3 DEF SizesKept
  <2>5. QED  BY <1>2, <2>1, <2>2, <2>3, <2>4 DEF LogInv
<1>4. CASE rotated' = rotated \cup {current} /\ current' = L!NewFile /\ UNCHANGED unrotated
  <2>1. L!NewFile \in LogFile /\ L!NewFile.lines = <<>> /\ L!NewFile.size = 0 /\ L!NewFile' = L!NewFile
    BY DEF L!NewFile, LogFile
  <2>2. LogTypes'
    BY <1>1, <1>4, <2>1 DEF LogInv, LogTypes
  <2>3. L!Files' = L!Files \cup {L!NewFile} /\ Len(L!NewFile.lines) = 0
    BY <1>4, <2>1 DEF L!Files
  <2>4. \A f \in L!Files : \A i \in 1 .. Len(f.lines) : f.lines[i] \in Loggers
    BY DEF LogInv, LogTypes, LogFile, L!Files
  <2>5. \A h \in Loggers : spot'[h] = "done" <=> spot[h] = "done"
    BY <1>1 DEF LogInv, LogTypes
  <2>6. LinesWritten'
    BY <1>1, <2>3, <2>4, <2>5 DEF LogInv, LinesWritten
  <2>7. LinesApart'
    BY <2>3 DEF LogInv, LinesApart
  <2>8. LinesKept'
    BY <1>1, <2>3, <2>5 DEF LogInv, LinesKept
  <2>9. RotatedApart'
    BY <1>1, <1>4, <2>1 DEF LogInv, LogTypes, RotatedApart, AloneInside
  <2>10. SizesKept'
    BY <1>1, <1>4, <2>1, <2>3, LogAssumption DEF LogInv, LogTypes, SizesKept
  <2>11. QED  BY <1>2, <2>2, <2>6, <2>7, <2>8, <2>9, <2>10 DEF LogInv
<1>5. QED  BY <1>3, <1>4 DEF L!Rotate

(* Nobody else is inside, and the line is in no file yet.                    *)
LEMMA WriteStep == ASSUME LogInv, NEW g \in Loggers, L!Write(g) PROVE LogInv'
<1> DEFINE grown == [lines |-> Append(current.lines, g), size |-> current.size + Length[g]]
<1>1. /\ spot[g] = "write" /\ spot' = [spot EXCEPT ![g] = "done"]
      /\ current' = grown /\ UNCHANGED <<rotated, dropped, unrotated>>
  BY DEF L!Write, L!Move
<1>2. logMu = g /\ logMu' = Nobody
  BY <1>1 DEF L!Write, L!Unlock, LogInv, AloneInside
<1>3. /\ current \in LogFile /\ grown \in LogFile /\ Len(grown.lines) = Len(current.lines) + 1
      /\ \A i \in 1 .. Len(current.lines) : grown.lines[i] = current.lines[i]
      /\ grown.lines[Len(current.lines) + 1] = g
      /\ Len(current.lines) \in Nat /\ grown.size = current.size + Length[g]
      /\ current.size \in Nat /\ Length[g] \in Nat
  BY LogAssumption DEF LogInv, LogTypes, LogFile
<1> HIDE DEF grown
<1>4. LogTypes'
  BY <1>1, <1>2, <1>3 DEF LogInv, LogTypes
<1>5. AloneInside'
  BY <1>1, <1>2, LogAssumption DEF LogInv, LogTypes, AloneInside
<1>6. L!Files' = rotated \cup {grown} /\ L!Files = rotated \cup {current}
  BY <1>1 DEF L!Files
<1>7. \A f \in rotated : f \in L!Files /\ f # current /\ f \in LogFile /\ Len(f.lines) \in Nat
  BY <1>6 DEF LogInv, LogTypes, RotatedApart, LogFile
<1>8. \A f \in L!Files : \A i \in 1 .. Len(f.lines) : f.lines[i] \in Loggers \ {g}
  BY <1>1, <1>6, <1>7, <1>3 DEF LogInv, LinesWritten, LogFile
<1>9. g \notin dropped
  BY <1>1 DEF LogInv, LogTypes
<1>10. LinesWritten'
  BY <1>1, <1>3, <1>6, <1>8, <1>9 DEF LogInv, LogTypes, LinesWritten
<1>11. LinesApart'
  <2>1. \A f \in L!Files' : \A i \in 1 .. Len(f.lines) :
          /\ f.lines[i] = g => f = grown /\ i = Len(current.lines) + 1
          /\ f.lines[i] # g => \E h \in L!Files : /\ i \in 1 .. Len(h.lines) /\ h.lines[i] = f.lines[i]
                                                 /\ f = IF h = current THEN grown ELSE h
    BY <1>3, <1>6, <1>7, <1>8
  <2>2. QED  BY <2>1 DEF LogInv, LinesApart
<1>12. LinesKept'
  BY <1>1, <1>3, <1>6 DEF LogInv, LogTypes, LinesKept
<1>13. RotatedApart'
  BY <1>1, <1>2, <1>3, <1>7, <1>8 DEF LogInv, LogTypes, RotatedApart, AloneInside, L!NewFile
<1>14. SizesKept'
  <2>1. ASSUME unrotated = FALSE PROVE grown.size <= MaxSize \/ Len(grown.lines) = 1
    BY <1>1, <1>3, <2>1 DEF LogInv, SizesKept, L!NewFile
  <2>2. \A h \in Loggers : spot'[h] # "write"
    BY <1>2, <1>5, LogAssumption DEF AloneInside
  <2>3. QED  BY <1>1, <1>6, <1>7, <2>1, <2>2 DEF LogInv, SizesKept
<1>15. QED  BY <1>4, <1>5, <1>10, <1>11, <1>12, <1>13, <1>14 DEF LogInv

LEMMA FailsStep == ASSUME LogInv, NEW g \in Loggers, L!Fails(g) PROVE LogInv'
<1>1. /\ spot[g] \in {"stat", "write"} /\ spot' = [spot EXCEPT ![g] = "done"]
      /\ dropped' = dropped \cup {g} /\ UNCHANGED <<current, rotated, unrotated>>
  BY DEF L!Fails, L!Move
<1>2. logMu = g /\ logMu' = Nobody
  BY <1>1 DEF L!Fails, L!Unlock, LogInv, AloneInside
<1>3. LogTypes'
  BY <1>1, <1>2 DEF LogInv, LogTypes
<1>4. AloneInside'
  BY <1>1, <1>2, LogAssumption DEF LogInv, LogTypes, AloneInside
<1>5. L!Files' = L!Files
  BY <1>1 DEF L!Files
<1>6. \A f \in L!Files : \A i \in 1 .. Len(f.lines) : f.lines[i] \in Loggers \ {g}
  BY <1>1 DEF LogInv, LogTypes, LogFile, L!Files, LinesWritten
<1>7. LinesWritten' /\ LinesApart' /\ LinesKept'
  BY <1>1, <1>5, <1>6 DEF LogInv, LogTypes, LinesWritten, LinesApart, LinesKept
<1>8. RotatedApart'
  BY <1>1 DEF LogInv, LogTypes, RotatedApart, L!NewFile
<1>9. SizesKept'
  BY <1>1, <1>5 DEF LogInv, LogTypes, SizesKept, L!NewFile
<1>10. QED  BY <1>3, <1>4, <1>7, <1>8, <1>9 DEF LogInv

LEMMA LogStep == LogInv /\ [L!Next]_(L!vars) => LogInv'
<1>1. LogInv /\ UNCHANGED L!vars => LogInv'
  BY DEF L!vars, LogInv, LogTypes, AloneInside, LinesWritten, LinesApart, LinesKept, RotatedApart,
         SizesKept, L!Files, L!NewFile
<1>2. QED
  BY <1>1, LockStep, StatStep, RotateStep, WriteStep, FailsStep DEF L!Next

LEMMA LoggingRuns == HttpxSpec => L!Init /\ [][L!Next]_(L!vars)
<1>1. HttpxInit => L!Init
  BY DEF HttpxInit
<1>2. [HttpxNext]_httpxVars => [L!Next]_(L!vars)
  BY DEF HttpxNext, Exchange, Downloads, Stream, Logging, httpxVars, logVars, L!vars
<1>3. QED  BY <1>1, <1>2, PTL DEF HttpxSpec

(* Every line that met no failing operation is in one file, once, and no     *)
(* file outgrows its limit, for any number of goroutines and any lengths.    *)
THEOREM LogIsWholeHolds == HttpxSpec => []LogIsWhole
<1>1. LogInv => LogIsWhole
  <2> SUFFICES ASSUME LogInv PROVE LogIsWhole
    OBVIOUS
  <2>1. ASSUME NEW g \in Loggers, spot[g] = "done", g \notin dropped
        PROVE  \E f \in L!Files : \E i \in 1 .. Len(f.lines) :
                 \A h \in L!Files : \A j \in 1 .. Len(h.lines) : h.lines[j] = g <=> h = f /\ j = i
    <3>0. PICK f \in L!Files : \E i \in 1 .. Len(f.lines) : f.lines[i] = g
      BY <2>1 DEF LogInv, LinesKept
    <3>1. PICK i \in 1 .. Len(f.lines) : f.lines[i] = g
      BY <3>0
    <3>2. \A h \in L!Files : \A j \in 1 .. Len(h.lines) : h.lines[j] = g <=> h = f /\ j = i
      BY <3>1 DEF LogInv, LinesApart
    <3>3. QED  BY <3>2
  <2>2. unrotated \/ \A f \in L!Files : f.size <= MaxSize \/ Len(f.lines) = 1
    BY DEF LogInv, LogTypes, SizesKept
  <2>3. QED  BY <2>1, <2>2 DEF LogIsWhole, L!LogIsWhole
<1>2. QED  BY <1>1, LogInit, LogStep, LoggingRuns, PTL
=============================================================================
