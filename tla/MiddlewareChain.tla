--------------------------- MODULE MiddlewareChain ---------------------------
(***************************************************************************)
(* pkg/middleware: one request through a chain of middlewares around a     *)
(* handler that writes, flushes, hijacks or panics.  Timeout buffers: the  *)
(* layers within it write to its buffer (side 1), those around it to the   *)
(* connection (side 0).  Recover and Logger put one statusWriter on a side.*)
(***************************************************************************)
EXTENDS Integers, Sequences

CONSTANTS
  Chains,    \* sequences of layers, outermost first, Timeout at most once
  MaxOps,    \* bound: operations of the handler
  None

Layers == {"Recover", "Logger", "Timeout", "BodyLimit", "CORS", "RequestID"}

VARIABLES
  chain,
  request,   \* preflight (OPTIONS with a requested method), big (longer than
             \* the limit, and says so), or plain
  at,        \* the layer that runs; Len(chain) + 1 is the handler, 0 the server
  inward,    \* FALSE once the handler, or a layer that answers itself, is done
  raised,    \* the panic on its way out: error, abort, or None
  raw,       \* what each side's writer has: [status, parts], status 0 none yet
  sw,        \* each side's statusWriter: [status, wrote]
  logged,    \* the status Logger logged, or None
  panicked,  \* history: the handler's panic
  hijacked,  \* history: the handler called Hijack
  ops

vars == <<chain, request, at, inward, raised, raw, sw, logged, panicked, hijacked, ops>>
fixed == <<chain, request>>

Init ==
  /\ chain \in Chains /\ request \in {"plain", "preflight", "big"}
  /\ at = 1 /\ inward = TRUE /\ raised = None
  /\ raw = [s \in 0..1 |-> [status |-> 0, parts |-> <<>>]]
  /\ sw = [s \in 0..1 |-> [status |-> 0, wrote |-> FALSE]]
  /\ logged = None /\ panicked = None /\ hijacked = FALSE /\ ops = 0

Handler == Len(chain) + 1
Side(i) == IF \E j \in 1..(i - 1) : chain[j] = "Timeout" THEN 1 ELSE 0

(* wrap: the layers of a side that need a statusWriter share one.            *)
Wrapped(i) == \E j \in 1..i : j < Handler /\ chain[j] \in {"Recover", "Logger"} /\ Side(j) = Side(i)

-----------------------------------------------------------------------------
(* net/http's writers: the first final status counts, a body implies 200.    *)
RawHeader(out, code) ==
  [status |-> IF code >= 200 /\ out.status = 0 THEN code ELSE out.status, parts |-> out.parts]
RawWrite(out, part) == [status |-> RawHeader(out, 200).status, parts |-> Append(out.parts, part)]

SwHeader(w, code) == IF ~w.wrote /\ code >= 200 THEN [status |-> code, wrote |-> TRUE] ELSE w
SwWrite(w) == IF w.wrote THEN w ELSE [status |-> 200, wrote |-> TRUE]

WriteHeader(i, code) ==
  /\ raw' = [raw EXCEPT ![Side(i)] = RawHeader(@, code)]
  /\ sw' = IF Wrapped(i) THEN [sw EXCEPT ![Side(i)] = SwHeader(@, code)] ELSE sw

(* A whole answer of a layer, with a final status: http.Error, or the buffer *)
(* of Timeout.                                                               *)
Answers(i, code, parts) ==
  /\ raw' = [raw EXCEPT ![Side(i)] = [status |-> RawHeader(@, code).status, parts |-> @.parts \o parts]]
  /\ sw' = IF Wrapped(i) THEN [sw EXCEPT ![Side(i)] = SwHeader(@, code)] ELSE sw

Leave == at' = at - 1 /\ inward' = FALSE

-----------------------------------------------------------------------------
(* Inward: BodyLimit and CORS may answer themselves.                         *)
Refusal(layer) ==
  IF layer = "BodyLimit" /\ request = "big" THEN 413
  ELSE IF layer = "CORS" /\ request = "preflight" THEN 204 ELSE 0

Enter ==
  /\ inward /\ at \in 1..Len(chain)
  /\ LET code == Refusal(chain[at]) IN
     \/ code = 0 /\ at' = at + 1 /\ UNCHANGED <<inward, raw, sw>>
     \/ code = 413 /\ Answers(at, 413, <<"error">>) /\ Leave
     \/ code = 204 /\ WriteHeader(at, 204) /\ Leave
  /\ UNCHANGED <<fixed, raised, logged, panicked, hijacked, ops>>

-----------------------------------------------------------------------------
(* The handler. *)
InHandler == inward /\ at = Handler
Operates == InHandler /\ ops < MaxOps /\ ops' = ops + 1 /\ UNCHANGED <<fixed, at, inward, raised, logged, panicked>>

HandlerHeader(code) == Operates /\ WriteHeader(at, code) /\ UNCHANGED hijacked

HandlerWrite ==
  /\ Operates
  /\ raw' = [raw EXCEPT ![Side(at)] = RawWrite(@, "data")]
  /\ sw' = IF Wrapped(at) THEN [sw EXCEPT ![Side(at)] = SwWrite(@)] ELSE sw
  /\ UNCHANGED hijacked

(* Timeout's buffer can neither be flushed nor hijacked; the statusWriter    *)
(* counts as started all the same.                                           *)
HandlerFlush ==
  /\ Operates
  /\ raw' = IF Side(at) = 0 THEN [raw EXCEPT ![0] = RawHeader(@, 200)] ELSE raw
  /\ sw' = IF Wrapped(at) THEN [sw EXCEPT ![Side(at)] = SwWrite(@)] ELSE sw
  /\ UNCHANGED hijacked

HandlerHijack ==
  /\ Operates
  /\ hijacked' = TRUE
  /\ sw' = IF Wrapped(at) THEN [sw EXCEPT ![Side(at)].wrote = TRUE] ELSE sw
  /\ UNCHANGED raw

HandlerEnds(panic) ==
  /\ InHandler
  /\ raised' = panic /\ panicked' = panic
  /\ Leave
  /\ UNCHANGED <<fixed, raw, sw, logged, hijacked, ops>>

-----------------------------------------------------------------------------
(* Outward. *)
Out(layer) == ~inward /\ at > 0 /\ chain[at] = layer
Untouched == UNCHANGED <<fixed, panicked, hijacked, ops>>

(* Mutant: the 500 is written whatever has been sent. *)
RecoverAlways ==
  /\ Out("Recover")
  /\ IF raised = "error"
     THEN Answers(at, 500, <<"error">>) /\ raised' = None
     ELSE UNCHANGED <<raised, raw, sw>>
  /\ Leave /\ Untouched /\ UNCHANGED logged

Recover ==
  /\ Out("Recover")
  /\ IF raised = "error" /\ ~sw[Side(at)].wrote
     THEN Answers(at, 500, <<"error">>) /\ raised' = None
     ELSE raised' = (IF raised = "error" THEN "abort" ELSE raised) /\ UNCHANGED <<raw, sw>>
  /\ Leave /\ Untouched /\ UNCHANGED logged

(* A panic passes Logger unlogged. *)
Logger ==
  /\ Out("Logger")
  /\ logged' = IF raised # None THEN logged
               ELSE IF sw[Side(at)].status = 0 THEN 200 ELSE sw[Side(at)].status
  /\ Leave /\ Untouched /\ UNCHANGED <<raised, raw, sw>>

(* http.TimeoutHandler: in time, the buffer is copied, a panic raised again. *)
TimeoutDone ==
  /\ Out("Timeout")
  /\ IF raised = None
     THEN Answers(at, IF raw[1].status = 0 THEN 200 ELSE raw[1].status, raw[1].parts)
     ELSE UNCHANGED <<raw, sw>>
  /\ Leave /\ Untouched /\ UNCHANGED <<raised, logged>>

(* Too late: 503, and what goes on inside is cut off from the client.        *)
TimeoutFires ==
  \E i \in 1..Len(chain) :
    /\ chain[i] = "Timeout" /\ at > i
    /\ Answers(i, 503, <<"timeout">>)
    /\ at' = i - 1 /\ inward' = FALSE /\ raised' = None
    /\ logged' = None /\ panicked' = None /\ hijacked' = FALSE
    /\ UNCHANGED <<fixed, ops>>

PassOut ==
  /\ ~inward /\ at > 0 /\ chain[at] \in {"BodyLimit", "CORS", "RequestID"}
  /\ Leave /\ Untouched /\ UNCHANGED <<raised, raw, sw, logged>>

Next ==
  \/ Enter
  \/ \E code \in {103, 200, 404} : HandlerHeader(code)
  \/ HandlerWrite \/ HandlerFlush \/ HandlerHijack
  \/ \E panic \in {None, "error", "abort"} : HandlerEnds(panic)
  \/ Recover \/ Logger \/ TimeoutDone \/ TimeoutFires \/ PassOut

Spec == Init /\ [][Next]_vars

-----------------------------------------------------------------------------
Finished == ~inward /\ at = 0
StatusSent == IF raw[0].status = 0 THEN 200 ELSE raw[0].status
Has(layer) == \E i \in 1..Len(chain) : chain[i] = layer

(* The client gets the handler's answer, or one answer of one layer, or a    *)
(* broken connection: an error text is never appended to a body, whatever    *)
(* the handler did before it panicked; and behind Recover no panic but       *)
(* ErrAbortHandler reaches the server, an answer not begun becomes a 500.    *)
OneAnswer ==
  Finished =>
    /\ raised = None => \A k \in 1..Len(raw[0].parts) :
         raw[0].parts[k] # "data" => Len(raw[0].parts) = 1 /\ raw[0].status >= 400
    /\ Has("Recover") => raised # "error"
    /\ Has("Recover") /\ panicked = "error" /\ raised = None =>
         raw[0] = [status |-> 500, parts |-> <<"error">>]

(* The status a Logger around Timeout logs is the one the client got, also   *)
(* after informational headers, superfluous ones, flushes, refusals and      *)
(* timeouts; for a connection somebody tried to hijack it says nothing.      *)
LogTellsStatus ==
  Finished /\ raised = None /\ logged # None /\ ~hijacked
    /\ (\E i \in 1..Len(chain) : chain[i] = "Logger" /\ Side(i) = 0)
    /\ ~(\E i \in 1..Len(chain) : chain[i] = "Logger" /\ Side(i) = 1)
  => logged = StatusSent
=============================================================================
