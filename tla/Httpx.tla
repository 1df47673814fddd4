-------------------------------- MODULE Httpx --------------------------------
(***************************************************************************)
(* pkg/httpx as a whole.  Its four parts share no state; one of them runs  *)
(* in each behaviour (scene), the others keep their initial state.         *)
(* Download's names are this module's own; the other parts are instances.  *)
(***************************************************************************)
EXTENDS Download

CONSTANTS
  Configs, DefaultMaxAttempts, OkStatuses, BadStatuses, RetryAfters, NoHeader,
  Records, Idle,
  Loggers, Length, MaxSize, Nobody

VARIABLES
  scene,
  cfg, pc, attempt, ctxDone, last, delay, result, applied, sent, heard,
  step, timer, cancelled, sentRecs, ended, inbox, buffer, handled, verdict, quiet,
  spot, logMu, current, rotated, dropped, unrotated

X == INSTANCE HttpExchange
S == INSTANCE RecordStream
L == INSTANCE RequestLog

exchangeVars == <<cfg, pc, attempt, ctxDone, last, delay, result, applied, sent, heard>>
streamVars == <<step, timer, cancelled, sentRecs, ended, inbox, buffer, handled, verdict, quiet>>
logVars == <<spot, logMu, current, rotated, dropped, unrotated>>
httpxVars == <<scene, exchangeVars, vars, streamVars, logVars>>

-----------------------------------------------------------------------------
(* What the options of a client leave in its fields: durations in ticks,     *)
(* none negative, and a jitter in percent, as clamp01 bounds it.             *)
Config ==
  [kind : {"json", "upload"}, method : STRING, nonIdempotent : BOOLEAN,
   requestKey : {"absent", "empty", "set"}, clientKey : BOOLEAN, maxAttempts : Nat,
   policy : {"none", "fixed", "exponential", "always"}, retryAttempts : Nat,
   statuses : SUBSET Nat, out : BOOLEAN, initial : Nat, ceiling : Nat, multiplier : Nat,
   jitter : 0 .. 100, fixed : Nat, maxRetryAfter : Nat]

ASSUME ExchangeAssumption ==
  /\ Configs \subseteq Config /\ Configs # {}
  /\ DefaultMaxAttempts \in Nat \ {0}
  /\ OkStatuses \subseteq 1 .. 399 /\ BadStatuses \subseteq 400 .. 999
  /\ NoHeader \notin Nat /\ RetryAfters \subseteq Nat \cup {NoHeader}

(* Powers of natural numbers are natural numbers; nothing is assumed beyond  *)
(* arithmetic, of whose powers the provers know nothing.                     *)
ASSUME PowersAssumption ==
  \A c \in Configs : \A n \in 1 .. c.retryAttempts : c.multiplier ^ n \in Nat

ASSUME StreamAssumption == Records \in Nat /\ Idle \in Nat \ {0}

ASSUME LogAssumption ==
  /\ Nobody \notin Loggers
  /\ Length \in [Loggers -> Nat \ {0}]
  /\ MaxSize \in Nat \ {0}   \* 0 turns rotation off

-----------------------------------------------------------------------------
AnyConfig == CHOOSE c \in Configs : TRUE

HttpxInit ==
  /\ scene \in {"exchange", "download", "stream", "log"}
  /\ X!Init /\ (scene = "exchange" \/ cfg = AnyConfig)
  /\ Init /\ S!Init /\ L!Init

Exchange == scene = "exchange" /\ X!Next /\ UNCHANGED <<scene, vars, streamVars, logVars>>
Downloads == scene = "download" /\ Next /\ UNCHANGED <<scene, exchangeVars, streamVars, logVars>>
Stream == scene = "stream" /\ S!Next /\ UNCHANGED <<scene, exchangeVars, vars, logVars>>
Logging == scene = "log" /\ L!Next /\ UNCHANGED <<scene, exchangeVars, vars, streamVars>>

HttpxNext == Exchange \/ Downloads \/ Stream \/ Logging

HttpxSpec == HttpxInit /\ [][HttpxNext]_httpxVars /\ (scene = "stream" => S!Fairness)

-----------------------------------------------------------------------------
(* No call outside its limits (HttpExchange). *)
RepeatsJustified == X!RepeatsJustified
(* No pause shorter than asked or longer than accepted (HttpExchange). *)
PauseKeepsToBoth == X!PauseKeepsToBoth
(* The error returned is the one that happened (HttpExchange). *)
AnswerTellsTheStory == X!AnswerTellsTheStory
(* No record is lost or handled twice (RecordStream). *)
StreamIsComplete == S!StreamIsComplete
(* A silent server does not hold the caller (RecordStream). *)
StreamEnds == scene = "stream" => S!StreamEnds
(* Every line once, no file beyond its limit (RequestLog). *)
LogIsWhole == L!LogIsWhole
(* Only silence of the server fires the idle timer (RecordStream). *)
IdleMeansSilence == S!IdleMeansSilence
=============================================================================
