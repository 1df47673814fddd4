---------------------------- MODULE RecordStream ----------------------------
(***************************************************************************)
(* pkg/httpx/stream.go, StreamNDJSON: one stream of records with the idle  *)
(* timer of streamCtx.  The timer is started with the request and set      *)
(* again by every read that returns data -- not by data that arrives while *)
(* the caller's handler is at work.                                        *)
(***************************************************************************)
EXTENDS Integers

CONSTANTS
  Records,  \* records the server has to send
  Idle      \* StreamIdleTimeout in ticks

VARIABLES
  step,       \* opening, decoding, handling, returned
  timer,      \* ticks until the idle timer fires; Off when it is not running
  cancelled,  \* the cause of the stream's context: none, idle or caller
  sentRecs,   \* records the server has sent
  ended,      \* the server has closed the body
  inbox,      \* records received, not read
  buffer,     \* records read by the decoder, not decoded
  handled,    \* records given to the handler
  verdict,    \* what StreamNDJSON returned
  quiet       \* history: ticks since the server last sent anything

vars == <<step, timer, cancelled, sentRecs, ended, inbox, buffer, handled, verdict, quiet>>

Off == -1

Init ==
  /\ step = "opening" /\ timer = Idle /\ cancelled = "none"
  /\ sentRecs = 0 /\ ended = FALSE /\ inbox = 0 /\ buffer = 0 /\ handled = 0
  /\ verdict = "none" /\ quiet = 0

server == <<sentRecs, ended, inbox, quiet>>
reader == <<step, timer, buffer, handled, verdict>>

(* sc.close stops the timer. *)
Return(v) == step' = "returned" /\ verdict' = v /\ timer' = Off

-----------------------------------------------------------------------------
(* The server.                                                               *)
Send ==
  /\ step # "returned" /\ ~ended /\ sentRecs < Records
  /\ sentRecs' = sentRecs + 1 /\ inbox' = inbox + 1 /\ quiet' = 0
  /\ UNCHANGED <<ended, cancelled, reader>>

EndBody ==
  /\ step # "returned" /\ ~ended
  /\ ended' = TRUE
  /\ UNCHANGED <<sentRecs, inbox, quiet, cancelled, reader>>

-----------------------------------------------------------------------------
(* Mutant: the body is read without the wrapper that sets the timer again,   *)
(* and the timer of the request is stopped.                                  *)
OpenUnwrapped ==
  /\ step = "opening" /\ cancelled = "none"
  /\ step' = "decoding" /\ timer' = Off
  /\ UNCHANGED <<buffer, handled, verdict, cancelled, server>>

(* openStream answers with a body, which wrap puts under the timer.          *)
Open ==
  /\ step = "opening" /\ cancelled = "none"
  /\ step' = "decoding" /\ timer' = Idle
  /\ UNCHANGED <<buffer, handled, verdict, cancelled, server>>

(* The error a cancelled context or the network causes; streamCtx.err names  *)
(* the idle timer when it was the cause.                                     *)
FailureOf == IF cancelled = "idle" THEN "idle" ELSE "error"

OpenFails ==
  /\ step = "opening"
  /\ Return(FailureOf)
  /\ UNCHANGED <<buffer, handled, cancelled, server>>

(* idleReader.Read: data resets the timer, also one that has just fired.     *)
Read ==
  /\ step = "decoding" /\ buffer = 0 /\ inbox > 0 /\ cancelled = "none"
  /\ buffer' = inbox /\ inbox' = 0 /\ timer' = Idle
  /\ UNCHANGED <<step, handled, verdict, sentRecs, ended, quiet, cancelled>>

Decode ==
  /\ step = "decoding" /\ buffer > 0
  /\ buffer' = buffer - 1 /\ handled' = handled + 1
  /\ step' = "handling"
  /\ UNCHANGED <<timer, verdict, cancelled, server>>

ReadEOF ==
  /\ step = "decoding" /\ buffer = 0 /\ inbox = 0 /\ ended /\ cancelled = "none"
  /\ Return("ok")
  /\ UNCHANGED <<buffer, handled, cancelled, server>>

(* Mutant: a body that ends early passes for EOF. *)
ReadFailsAsEOF ==
  /\ step = "decoding" /\ buffer = 0
  /\ Return(IF cancelled = "none" THEN "ok" ELSE FailureOf)
  /\ UNCHANGED <<buffer, handled, cancelled, server>>

ReadFails ==
  /\ step = "decoding" /\ buffer = 0
  /\ Return(FailureOf)
  /\ UNCHANGED <<buffer, handled, cancelled, server>>

(* The handler returns, with or without an error.                            *)
HandlerReturns ==
  /\ step = "handling"
  /\ step' = "decoding"
  /\ UNCHANGED <<timer, buffer, handled, verdict, cancelled, server>>

HandlerFails ==
  /\ step = "handling"
  /\ Return("handler")
  /\ UNCHANGED <<buffer, handled, cancelled, server>>

-----------------------------------------------------------------------------
Tick ==
  /\ step # "returned" /\ timer > 0
  /\ timer' = timer - 1
  /\ cancelled' = IF timer = 1 /\ cancelled = "none" THEN "idle" ELSE cancelled
  /\ quiet' = IF quiet < Idle THEN quiet + 1 ELSE quiet
  /\ UNCHANGED <<step, buffer, handled, verdict, sentRecs, ended, inbox>>

CallerCancels ==
  /\ step # "returned" /\ cancelled = "none"
  /\ cancelled' = "caller"
  /\ UNCHANGED <<reader, server>>

ReadCancelled == cancelled # "none" /\ ReadFails

OpenCancelled == cancelled # "none" /\ OpenFails

Next ==
  \/ Send \/ EndBody
  \/ Open \/ OpenFails \/ Read \/ Decode \/ ReadEOF \/ ReadFails
  \/ HandlerReturns \/ HandlerFails
  \/ Tick \/ CallerCancels

(* The goroutine and the clock run on and the handler returns; the server    *)
(* owes nothing.  A read of a cancelled stream returns.                      *)
Fairness ==
  /\ WF_vars(Tick) /\ WF_vars(Read) /\ WF_vars(Decode) /\ WF_vars(HandlerReturns)
  /\ WF_vars(ReadEOF) /\ WF_vars(ReadCancelled) /\ WF_vars(OpenCancelled)

Spec == Init /\ [][Next]_vars /\ Fairness

-----------------------------------------------------------------------------
TypeOK ==
  /\ step \in {"opening", "decoding", "handling", "returned"}
  /\ timer \in Off..Idle /\ cancelled \in {"none", "idle", "caller"}
  /\ sentRecs \in 0..Records /\ inbox \in 0..Records /\ buffer \in 0..Records
  /\ handled \in 0..Records /\ quiet \in 0..Idle /\ ended \in BOOLEAN
  /\ verdict \in {"none", "ok", "idle", "error", "handler"}

(* Success means that the server has ended the body and every record it sent *)
(* went to the handler exactly once; before, none is lost between socket,    *)
(* decoder and handler (the loop of StreamNDJSON).                           *)
StreamIsComplete ==
  /\ sentRecs = inbox + buffer + handled
  /\ verdict = "ok" => ended /\ handled = sentRecs

(* A stream whose server falls silent does not hold its caller for ever: the *)
(* idle timer ends it (newStreamCtx, idleReader).                            *)
StreamEnds == <>(step = "returned")

(* The comment of errStreamIdle: it is returned when no data has come for    *)
(* StreamIdleTimeout.                                                        *)
IdleMeansSilence == [][cancelled' = "idle" /\ cancelled = "none" => quiet' >= Idle]_vars
=============================================================================
