------------------------------ MODULE Download ------------------------------
(***************************************************************************)
(* pkg/httpx/stream.go, DownloadToFile: several downloads to one           *)
(* destination, each through a temporary file of its own; every step may   *)
(* fail and the machine may lose its power at any moment, keeping of each  *)
(* file what was synced and any part of the rest.                          *)
(***************************************************************************)
EXTENDS Integers

CONSTANTS
  Calls,   \* running downloads
  Old,     \* the writer of the file that is there before
  NoFile,
  Size     \* chunks of a body

ASSUME DownloadAssumption ==
  /\ Old \notin Calls
  /\ Size \in Nat \ {0}
  /\ NoFile \notin [data : 0..Size, durable : 0..Size]

VARIABLES
  at,      \* where each call is
  temp,    \* its .part file: what is written and what is on the disk
  dst,     \* the destination, likewise, and whose content it is
  failed,  \* the error DownloadToFile will return is set (named result err)
  stuck    \* history: removing the temporary file failed

vars == <<at, temp, dst, failed, stuck>>

Steps == {"open", "mkdir", "create", "copy", "sync", "close", "chmod", "rename",
          "cleanup", "returned", "lost"}

Init ==
  /\ at = [c \in Calls |-> "open"]
  /\ temp = [c \in Calls |-> NoFile]
  /\ dst = [of |-> Old, data |-> Size, durable |-> Size]
  /\ failed = [c \in Calls |-> FALSE]
  /\ stuck = [c \in Calls |-> FALSE]

Go(c, step) == at' = [at EXCEPT ![c] = step]

-----------------------------------------------------------------------------
(* openStream has a 2xx answer; the directory exists or is made.             *)
Open(c) == at[c] = "open" /\ Go(c, "mkdir") /\ UNCHANGED <<temp, dst, failed, stuck>>
Mkdir(c) == at[c] = "mkdir" /\ Go(c, "create") /\ UNCHANGED <<temp, dst, failed, stuck>>

CreateTemp(c) ==
  /\ at[c] = "create"
  /\ temp' = [temp EXCEPT ![c] = [data |-> 0, durable |-> 0]]
  /\ Go(c, "copy")
  /\ UNCHANGED <<dst, failed, stuck>>

(* io.Copy: a chunk, of which the system may write some to the disk, or EOF  *)
(* at the length the server declared.                                        *)
CopyChunk(c) ==
  /\ at[c] = "copy" /\ temp[c].data < Size
  /\ temp' = [temp EXCEPT ![c].data = @ + 1]
  /\ UNCHANGED <<at, dst, failed, stuck>>

CopyEnds(c) ==
  /\ at[c] = "copy" /\ temp[c].data = Size
  /\ Go(c, "sync")
  /\ UNCHANGED <<temp, dst, failed, stuck>>

(* Mutant: the data is left to the system to write. *)
SyncSkipped(c) == at[c] = "sync" /\ Go(c, "close") /\ UNCHANGED <<temp, dst, failed, stuck>>

Sync(c) ==
  /\ at[c] = "sync"
  /\ temp' = [temp EXCEPT ![c].durable = temp[c].data]
  /\ Go(c, "close")
  /\ UNCHANGED <<dst, failed, stuck>>

Close(c) == at[c] = "close" /\ Go(c, "chmod") /\ UNCHANGED <<temp, dst, failed, stuck>>
Chmod(c) == at[c] = "chmod" /\ Go(c, "rename") /\ UNCHANGED <<temp, dst, failed, stuck>>

Rename(c) ==
  /\ at[c] = "rename"
  /\ dst' = [of |-> c, data |-> temp[c].data, durable |-> temp[c].durable]
  /\ temp' = [temp EXCEPT ![c] = NoFile]
  /\ Go(c, "returned")
  /\ UNCHANGED <<failed, stuck>>

(* Any step may return an error: the network, a cancellation, the idle timer *)
(* or a full disk.  Once the temporary file exists, the deferred function    *)
(* sees err and removes it.                                                  *)
BeforeTemp == {"open", "mkdir", "create"}
WithTemp == {"copy", "sync", "close", "chmod", "rename"}

(* Mutant: an err of the copy's own scope hides the one the defer looks at. *)
StepFailsShadowed(c) ==
  /\ at[c] \in BeforeTemp \cup WithTemp
  /\ failed' = [failed EXCEPT ![c] = TRUE]
  /\ Go(c, IF at[c] \in BeforeTemp \cup {"copy"} THEN "returned" ELSE "cleanup")
  /\ UNCHANGED <<temp, dst, stuck>>

StepFails(c) ==
  /\ at[c] \in BeforeTemp \cup WithTemp
  /\ failed' = [failed EXCEPT ![c] = TRUE]
  /\ Go(c, IF at[c] \in BeforeTemp THEN "returned" ELSE "cleanup")
  /\ UNCHANGED <<temp, dst, stuck>>

(* The errors of Close and Remove are dropped.                               *)
Cleanup(c) ==
  /\ at[c] = "cleanup"
  /\ \/ temp' = [temp EXCEPT ![c] = NoFile] /\ UNCHANGED stuck
     \/ stuck' = [stuck EXCEPT ![c] = TRUE] /\ UNCHANGED temp
  /\ Go(c, "returned")
  /\ UNCHANGED <<dst, failed>>

-----------------------------------------------------------------------------
(* Of a file a power cut leaves at least what was synced.                    *)
PowerCut ==
  /\ \E c \in Calls : at[c] # "lost"
  /\ at' = [c \in Calls |-> "lost"]
  /\ \E d \in dst.durable..dst.data : dst' = [dst EXCEPT !.data = d, !.durable = d]
  /\ UNCHANGED <<temp, failed, stuck>>

Next ==
  \/ \E c \in Calls :
       \/ Open(c) \/ Mkdir(c) \/ CreateTemp(c) \/ CopyChunk(c) \/ CopyEnds(c)
       \/ Sync(c) \/ Close(c) \/ Chmod(c) \/ Rename(c)
       \/ StepFails(c) \/ Cleanup(c)
  \/ PowerCut

Spec == Init /\ [][Next]_vars

-----------------------------------------------------------------------------
TypeOK ==
  /\ at \in [Calls -> Steps]
  /\ temp \in [Calls -> [data : 0..Size, durable : 0..Size] \cup {NoFile}]
  /\ dst \in [of : Calls \cup {Old}, data : 0..Size, durable : 0..Size]
  /\ failed \in [Calls -> BOOLEAN] /\ stuck \in [Calls -> BOOLEAN]

(* No temporary file survives the call that made it, unless its removal      *)
(* failed or the power did (the promise in the comment of DownloadToFile).   *)
NoPartLeft == \A c \in Calls : at[c] = "returned" => temp[c] = NoFile \/ stuck[c]

(* The destination is never torn, even across a power cut, and is replaced   *)
(* in one step (DownloadToFile: temporary file, Sync, Rename).               *)
Torn == Calls
Whole == INSTANCE AtomicFile
           WITH Writers <- Calls, file <- IF dst.data = Size THEN dst.of ELSE Torn

DestinationWhole == Whole!Spec
=============================================================================
