----------------------------- MODULE RequestLog -----------------------------
(***************************************************************************)
(* pkg/httpx/logging.go, logToFile: goroutines of one Client append lines  *)
(* to the day's file and rotate it, under logMu.  File operations may      *)
(* fail; a failure drops the line and is not reported.                     *)
(***************************************************************************)
EXTENDS Integers, Sequences

CONSTANTS
  Loggers,  \* goroutines, each with one line
  Length,   \* the length of each line, newline included
  MaxSize,  \* MaxLogFileSize
  Nobody

VARIABLES
  spot,     \* where each goroutine is
  logMu,    \* who holds the mutex
  current,  \* the day's file: its lines and its size
  rotated,  \* the files rotated away
  dropped,  \* history: whose line met a failing file operation
  unrotated \* history: a file that was to be rotated stayed

vars == <<spot, logMu, current, rotated, dropped, unrotated>>

NewFile == [lines |-> <<>>, size |-> 0]

Init ==
  /\ spot = [g \in Loggers |-> "format"]
  /\ logMu = Nobody /\ current = NewFile /\ rotated = {}
  /\ dropped = {} /\ unrotated = FALSE

Move(g, s) == spot' = [spot EXCEPT ![g] = s]

(* Mutant: nothing is locked. *)
LockNothing(g) ==
  /\ spot[g] = "format"
  /\ Move(g, "stat")
  /\ UNCHANGED <<logMu, current, rotated, dropped, unrotated>>

(* The line is made first; then the mutex, and the directory.                *)
Lock(g) ==
  /\ spot[g] = "format" /\ logMu = Nobody
  /\ logMu' = g
  /\ Move(g, "stat")
  /\ UNCHANGED <<current, rotated, dropped, unrotated>>

(* Stat: a file the line would carry over the limit is to be rotated.  An    *)
(* error of Stat passes for a file that is not there.                        *)
Overflows(g) == current # NewFile /\ current.size + Length[g] > MaxSize

Stat(g) ==
  /\ spot[g] = "stat"
  /\ \/ Move(g, IF Overflows(g) THEN "rotate" ELSE "write") /\ UNCHANGED unrotated
     \/ Move(g, "write") /\ unrotated' = (unrotated \/ Overflows(g))
  /\ UNCHANGED <<logMu, current, rotated, dropped>>

Rotate(g) ==
  /\ spot[g] = "rotate"
  /\ \/ /\ rotated' = rotated \cup {current} /\ current' = NewFile
        /\ UNCHANGED unrotated
     \/ /\ unrotated' = TRUE   \* the error of Rename is dropped
        /\ UNCHANGED <<rotated, current>>
  /\ Move(g, "write")
  /\ UNCHANGED <<logMu, dropped>>

(* Open, append and unlock.                                                  *)
Unlock(g) == logMu' = IF logMu = g THEN Nobody ELSE logMu

Write(g) ==
  /\ spot[g] = "write"
  /\ current' = [lines |-> Append(current.lines, g), size |-> current.size + Length[g]]
  /\ Move(g, "done")
  /\ Unlock(g)
  /\ UNCHANGED <<rotated, dropped, unrotated>>

Fails(g) ==
  /\ spot[g] \in {"stat", "write"}
  /\ dropped' = dropped \cup {g}
  /\ Move(g, "done")
  /\ Unlock(g)
  /\ UNCHANGED <<current, rotated, unrotated>>

Next == \E g \in Loggers : Lock(g) \/ Stat(g) \/ Rotate(g) \/ Write(g) \/ Fails(g)

Spec == Init /\ [][Next]_vars

-----------------------------------------------------------------------------
(* Every line that met no failing operation is in exactly one file, once,    *)
(* and no file outgrows MaxLogFileSize but for a single line that is longer  *)
(* by itself, or when one could not be rotated (logToFile: "writing and      *)
(* rotation are under the same lock").                                       *)
Files == rotated \cup {current}
LogIsWhole ==
  /\ \A g \in Loggers : spot[g] = "done" /\ g \notin dropped =>
       \E f \in Files : \E i \in 1 .. Len(f.lines) :
         \A h \in Files : \A j \in 1 .. Len(h.lines) : h.lines[j] = g <=> h = f /\ j = i
  /\ unrotated \/ \A f \in Files : f.size <= MaxSize \/ Len(f.lines) = 1
=============================================================================
