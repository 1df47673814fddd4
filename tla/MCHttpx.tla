------------------------------- MODULE MCHttpx -------------------------------
(* Two downloads of two chunks, three records, three lines of which one is  *)
(* longer than a file may be, and clients of every kind.                    *)
EXTENDS Httpx

CONSTANTS g1, g2, g3

(* Clients: every way of being allowed to repeat or not, with each retry    *)
(* policy; growth with and without a ceiling.                               *)
Plain == [kind |-> "json", method |-> "GET", nonIdempotent |-> FALSE,
          requestKey |-> "absent", clientKey |-> FALSE, maxAttempts |-> 0,
          policy |-> "none", retryAttempts |-> 3, statuses |-> {503}, out |-> TRUE,
          initial |-> 0, ceiling |-> 0, multiplier |-> 0, jitter |-> 0, fixed |-> 2,
          maxRetryAfter |-> 5]

Permissions == {[Plain EXCEPT !.method = m, !.nonIdempotent = n, !.requestKey = k, !.clientKey = d] :
                  m \in {"GET", "POST"}, n \in BOOLEAN, k \in {"absent", "empty", "set"}, d \in BOOLEAN}
Policies ==
  {[Plain EXCEPT !.policy = "fixed"], [Plain EXCEPT !.policy = "always"],
   [Plain EXCEPT !.policy = "always", !.maxAttempts = 2, !.method = "POST"],
   [Plain EXCEPT !.policy = "exponential", !.initial = 2, !.multiplier = 2, !.ceiling = 6, !.jitter = 1],
   [Plain EXCEPT !.policy = "exponential", !.initial = 1, !.multiplier = 3],
   [Plain EXCEPT !.initial = 2, !.multiplier = 3, !.ceiling = 4, !.jitter = 50],
   [Plain EXCEPT !.initial = 60, !.multiplier = 2, !.jitter = 20],
   [Plain EXCEPT !.initial = 6, !.multiplier = 1, !.ceiling = 4, !.maxAttempts = 2],
   [Plain EXCEPT !.retryAttempts = 6], [Plain EXCEPT !.retryAttempts = 0],
   [Plain EXCEPT !.statuses = {}, !.out = FALSE]}
Uploads == {[c EXCEPT !.kind = "upload"] : c \in Permissions}
MCConfigs == Permissions \cup Policies \cup Uploads

MCRetryAfters == {NoHeader, 0, 3, 9}
MCLength == [g \in {g1, g2, g3} |-> IF g = g1 THEN 5 ELSE 2]
=============================================================================
