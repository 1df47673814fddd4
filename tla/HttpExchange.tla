---------------------------- MODULE HttpExchange ----------------------------
(***************************************************************************)
(* pkg/httpx: one JSON call or upload of a Client, from its options to its *)
(* answer: attempts, retry policies, Retry-After, contexts, and a server   *)
(* whose answers may be lost after it has carried the request out.         *)
(***************************************************************************)
EXTENDS Integers, FiniteSets, FiniteSetsExt

CONSTANTS
  Configs,             \* clients as their options left them, each with one call
  DefaultMaxAttempts,  \* httpx.DefaultMaxAttempts
  OkStatuses,          \* statuses below 400 the server answers with
  BadStatuses,         \* statuses of 400 and more
  RetryAfters,         \* values of Retry-After, NoHeader among them
  NoHeader

VARIABLES
  cfg,       \* the configuration the call runs under
  pc,        \* attempt, sending, sleeping, returned
  attempt,   \* the attempt that runs or ran last
  ctxDone,   \* the context is cancelled or past its deadline
  last,      \* lastErr: the causes of the last failed attempt
  delay,     \* the pause before the next attempt
  result,    \* the causes of the error returned; {} is success
  applied,   \* history: how often the server has carried the call out
  sent,      \* history: requests that left the client
  heard      \* history: the last answer, [status, after]

vars == <<cfg, pc, attempt, ctxDone, last, delay, result, applied, sent, heard>>

Silent == [status |-> 0, after |-> NoHeader]

Init ==
  /\ cfg \in Configs
  /\ pc = "attempt" /\ attempt = 1 /\ ctxDone = FALSE
  /\ last = {} /\ delay = 0 /\ result = {}
  /\ applied = 0 /\ sent = 0 /\ heard = Silent

-----------------------------------------------------------------------------
(* Which calls may be repeated, and how often.                               *)
IsIdempotentMethod(m) == m \in {"GET", "HEAD", "OPTIONS", "PUT", "DELETE", "TRACE"}

(* An upload cannot be repeated: its body is a stream that has been read.    *)
RetryAllowed(c) ==
  /\ c.kind = "json"
  /\ \/ IsIdempotentMethod(c.method) \/ c.nonIdempotent
     \/ c.requestKey = "set" \/ c.clientKey

(* The key the request leaves with: a header of the call, even an empty one, *)
(* keeps the client's default out.                                           *)
KeySent(c) == IF c.requestKey = "absent" THEN c.clientKey ELSE c.requestKey = "set"

AttemptCap(c) ==
  IF c.maxAttempts > 0 THEN c.maxAttempts ELSE Max({DefaultMaxAttempts, c.retryAttempts})

-----------------------------------------------------------------------------
(* Pauses: fixed, or growing geometrically.  Each is a set of delays, one    *)
(* for each way the jitter may fall.                                         *)
Grown(c, n) == IF n = 1 THEN c.initial ELSE c.initial * c.multiplier ^ (n - 1)
Overgrown(c, from, n) == c.ceiling > 0 /\ \E i \in from..n : Grown(c, i) > c.ceiling

(* ExponentialPolicy: ceiling and then full jitter.                          *)
PolicyBackoff(c, n) ==
  LET d == IF Overgrown(c, Min({2, n}), n) THEN c.ceiling ELSE Grown(c, n)
  IN IF c.jitter > 0 THEN 0..d ELSE {d}

(* WithExponentialBackoff: the ceiling holds from the second pause on, and   *)
(* the jitter (in percent, both ways) comes after it.                        *)
LegacyBackoff(c, n) ==
  IF c.initial > 0 /\ c.multiplier > 0
  THEN LET d == IF Overgrown(c, 2, n) THEN c.ceiling ELSE Grown(c, n)
           swing == (d * c.jitter) \div 100
       IN IF c.jitter > 0 THEN {Max({1, e}) : e \in (d - swing)..(d + swing)} ELSE {d}
  ELSE {IF c.fixed > 0 THEN c.fixed ELSE 100}

(* The policy's or the legacy options' word on a failed attempt; status 0 is *)
(* a request without an answer.                                              *)
Wanted(c, n, status) ==
  /\ c.policy # "none" \/ c.retryAttempts > 0
  /\ c.policy = "always" \/ n < c.retryAttempts
  /\ c.policy = "always" \/ status = 0 \/ status \in c.statuses

Pauses(c, n) ==
  IF c.policy = "none" THEN LegacyBackoff(c, n)
  ELSE IF c.policy = "fixed" THEN {c.fixed}
  ELSE IF c.policy = "exponential" THEN PolicyBackoff(c, n)
  ELSE {0}   \* "always": a policy of the caller's own that never gives up

(* Mutant: a policy decides alone how long to go on. *)
NextRetryUncapped(c, n, status) ==
  IF RetryAllowed(c) /\ n < 2 * AttemptCap(c) /\ Wanted(c, n, status) THEN Pauses(c, n) ELSE {}

(* The pauses that may follow; none when the call has to give up.            *)
NextRetry(c, n, status) ==
  IF RetryAllowed(c) /\ n < AttemptCap(c) /\ Wanted(c, n, status) THEN Pauses(c, n) ELSE {}

-----------------------------------------------------------------------------
Return(causes) ==
  /\ pc' = "returned"
  /\ result' = causes

Sleep(d, causes) ==
  /\ pc' = "sleeping"
  /\ delay' = d
  /\ last' = causes
  /\ UNCHANGED result

(* The top of the loop: the context is asked before anything is built.       *)
BeginAttempt ==
  /\ pc = "attempt" /\ cfg.kind = "json"
  /\ \/ ctxDone /\ Return({"context"} \cup last)
     \/ ~ctxDone /\ Return({"build"})
     \/ ~ctxDone /\ pc' = "sending" /\ UNCHANGED result
  /\ UNCHANGED <<cfg, attempt, ctxDone, last, delay, applied, sent, heard>>

(* UploadStream has no loop and leaves the context to the transport.         *)
BeginUpload ==
  /\ pc = "attempt" /\ cfg.kind = "upload"
  /\ Return({"build"}) \/ (pc' = "sending" /\ UNCHANGED result)
  /\ UNCHANGED <<cfg, attempt, ctxDone, last, delay, applied, sent, heard>>

(* No answer arrives: the request was lost, or its answer was.               *)
SendFails(carriedOut) ==
  /\ pc = "sending"
  /\ sent' = sent + 1
  /\ applied' = IF carriedOut THEN applied + 1 ELSE applied
  /\ heard' = Silent
  /\ LET pauses == NextRetry(cfg, attempt, 0) IN
     \/ /\ ctxDone
        /\ Return({"context", "network"}) /\ UNCHANGED <<last, delay>>
     \/ /\ ~ctxDone /\ pauses = {}
        /\ Return({"network"}) /\ UNCHANGED <<last, delay>>
     \/ /\ ~ctxDone
        /\ \E d \in pauses : Sleep(d, {"network"})
  /\ UNCHANGED <<cfg, attempt, ctxDone>>

(* Mutant: the server's wish replaces the pause, however short. *)
LengthenedReplaces(c, d, after) == IF after = NoHeader THEN d ELSE after

(* Retry-After can only lengthen the pause.                                  *)
Lengthened(c, d, after) == IF after = NoHeader THEN d ELSE Max({d, after})

(* An answer of 400 or more; a longer Retry-After than the client accepts    *)
(* ends the call.                                                            *)
AnswerBad(status, after, carriedOut) ==
  /\ pc = "sending"
  /\ sent' = sent + 1
  /\ applied' = IF carriedOut THEN applied + 1 ELSE applied
  /\ heard' = [status |-> status, after |-> after]
  /\ LET pauses == NextRetry(cfg, attempt, status)
         tooLong == after # NoHeader /\ after > cfg.maxRetryAfter
     IN \/ /\ pauses = {} \/ tooLong
           /\ Return({"http"}) /\ UNCHANGED <<last, delay>>
        \/ /\ ~tooLong
           /\ \E d \in pauses : Sleep(Lengthened(cfg, d, after), {"http"})
  /\ UNCHANGED <<cfg, attempt, ctxDone>>

(* The body of a good answer is read, validated and decoded; nothing of it   *)
(* is tried again.                                                           *)
BodyErrors(c) ==
  IF c.out THEN {"read", "tooLarge", "decode"} \cup (IF c.kind = "json" THEN {"invalid"} ELSE {}) ELSE {}

AnswerGood(status) ==
  /\ pc = "sending"
  /\ sent' = sent + 1
  /\ applied' = applied + 1
  /\ heard' = [status |-> status, after |-> NoHeader]
  /\ \/ Return({})
     \/ \E e \in BodyErrors(cfg) : Return({e})
  /\ UNCHANGED <<cfg, attempt, ctxDone, last, delay>>

(* Mutant: a call cancelled in a pause forgets why it paused. *)
WakeForgets ==
  /\ pc = "sleeping"
  /\ \/ /\ delay > 0 \/ ~ctxDone
        /\ pc' = "attempt" /\ attempt' = attempt + 1
        /\ UNCHANGED result
     \/ /\ ctxDone
        /\ Return({"context"})
        /\ UNCHANGED attempt
  /\ UNCHANGED <<cfg, ctxDone, last, delay, applied, sent, heard>>

(* sleepCtx: the timer or the context, whichever comes first; without a      *)
(* pause only the context is asked.                                          *)
Wake ==
  /\ pc = "sleeping"
  /\ \/ /\ delay > 0 \/ ~ctxDone
        /\ pc' = "attempt" /\ attempt' = attempt + 1
        /\ UNCHANGED result
     \/ /\ ctxDone
        /\ Return({"context"} \cup last)
        /\ UNCHANGED attempt
  /\ UNCHANGED <<cfg, ctxDone, last, delay, applied, sent, heard>>

(* A cancellation, or the deadline RequestOptions.Timeout put on the call.   *)
ContextEnds ==
  /\ pc # "returned" /\ ~ctxDone
  /\ ctxDone' = TRUE
  /\ UNCHANGED <<cfg, pc, attempt, last, delay, result, applied, sent, heard>>

Next ==
  \/ BeginAttempt \/ BeginUpload
  \/ \E b \in BOOLEAN : SendFails(b)
  \/ \E s \in BadStatuses, a \in RetryAfters, b \in BOOLEAN : AnswerBad(s, a, b)
  \/ \E s \in OkStatuses : AnswerGood(s)
  \/ Wake
  \/ ContextEnds

Spec == Init /\ [][Next]_vars

-----------------------------------------------------------------------------
(* A call reaches the server twice only when the caller declared repetition  *)
(* harmless -- by method, by option or by an idempotency key that really     *)
(* leaves with the request -- and never more often than its cap and its      *)
(* policy allow, whatever the server answers (retryAllowedFor, attemptCap,   *)
(* nextRetry).  The exception is a call that empties the key its client      *)
(* sends by default: the code counts the default though it does not leave.   *)
KeyEmptied(c) == c.requestKey = "empty" /\ c.clientKey
Repeatable(c) == IsIdempotentMethod(c.method) \/ c.nonIdempotent \/ KeySent(c) \/ KeyEmptied(c)

RepeatsJustified ==
  /\ applied <= sent
  /\ sent > 1 => Repeatable(cfg) /\ cfg.kind = "json"
  /\ sent <= AttemptCap(cfg)
  /\ cfg.policy # "always" => sent <= Max({1, cfg.retryAttempts})

(* A pause is at least what the server asked for and what the client plans,  *)
(* and at most what it accepts or plans, jitter included; growth without a   *)
(* ceiling plans what it has grown to (handleResponse, legacyBackoff,        *)
(* ExponentialPolicy.backoff).                                               *)
LongestPlanned(c, n) ==
  LET top == IF c.ceiling > 0 THEN Max({c.initial, c.ceiling}) ELSE Grown(c, n)
  IN IF c.policy = "always" THEN 0 ELSE Max({top + (top * c.jitter) \div 100, c.fixed, 100})

PauseKeepsToBoth ==
  pc = "sleeping" =>
    /\ heard.after # NoHeader => delay >= heard.after
    /\ \E d \in Pauses(cfg, attempt) : delay >= d
    /\ delay <= Max({cfg.maxRetryAfter, LongestPlanned(cfg, attempt)})

(* What the caller is told is what happened: success only after a good       *)
(* answer the server acted upon, an HTTP error only after a bad one, and a   *)
(* call that its context ended names the failure before it (joinCtxErr).     *)
AnswerTellsTheStory ==
  pc = "returned" =>
    /\ result = {} => heard.status \in OkStatuses /\ applied >= 1
    /\ "http" \in result => heard.status \in BadStatuses
    /\ "context" \in result => ctxDone /\ (sent > 0 => result \cap {"http", "network"} # {})
=============================================================================
