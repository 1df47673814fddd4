---------------------------- MODULE ClientSession ----------------------------
(***************************************************************************)
(* pkg/web and web/fiberweb: three sessions of one client, each kept in a  *)
(* cookie of its own: flash messages with old form input, the login, the   *)
(* CSRF token.  A request works on the cookies it came with (the registry  *)
(* shared by everything that runs in it) and answers with those it saved;  *)
(* requests of the client may overlap.                                     *)
(***************************************************************************)
EXTENDS Integers, Sequences

CONSTANTS
  Requests,  \* requests in flight at once
  MaxMsg,    \* bound: messages ever added
  MaxOps,    \* bound: operations in a behaviour
  Users,
  None

VARIABLES
  jar,       \* the client's cookies: [flash, old, user, token]; of the old
             \* input it only matters whether there is some
  copy,      \* the sessions of each request, or None while it is free
  saved,     \* which of them it has saved
  pending,   \* old input waits for an operation that saves (Locals)
  ops,       \* operations so far
  added,     \* messages made so far; they are numbered
  consumed,  \* history: messages shown or cleared while requests did not overlap
  tokens,    \* history: tokens made so far; they are numbered
  page,      \* the token in the form the client holds, or None
  wrong,     \* history: a form was refused or a message shown out of turn
  overlapped,\* history: two requests were in flight together
  lastLogin  \* history: the user of the last answer that logged in or out

vars == <<jar, copy, saved, pending, ops, added, consumed, tokens, page, wrong, overlapped, lastLogin>>

NoCookies == [flash |-> <<>>, old |-> FALSE, user |-> None, token |-> None]

Init ==
  /\ jar = NoCookies
  /\ copy = [r \in Requests |-> None] /\ saved = [r \in Requests |-> {}]
  /\ pending = [r \in Requests |-> FALSE] /\ ops = 0
  /\ added = 0 /\ consumed = 0
  /\ tokens = 0 /\ page = None /\ wrong = FALSE
  /\ overlapped = FALSE /\ lastLogin = None

clients == <<tokens, page, overlapped, lastLogin>>

-----------------------------------------------------------------------------
(* A request leaves with the cookies of this moment.  With the CSRF middle-  *)
(* ware in front of it, it gets a token if it has none, and a form is        *)
(* checked against it.                                                       *)
Token(cookies) == IF cookies.token = None THEN tokens + 1 ELSE cookies.token

Begin(r, cookies, sessions) ==
  /\ copy' = [copy EXCEPT ![r] = cookies]
  /\ saved' = [saved EXCEPT ![r] = sessions]
  /\ overlapped' = (overlapped \/ \E q \in Requests \ {r} : copy[q] # None)
  /\ UNCHANGED <<jar, pending, ops, added, consumed, lastLogin>>

Protected(r, form) ==
  /\ copy[r] = None
  /\ form => page # None
  /\ LET t == Token(jar) IN
     /\ t <= MaxMsg
     /\ tokens' = IF t > tokens THEN t ELSE tokens
     /\ wrong' = (wrong \/ (~overlapped /\ form /\ page # t))
     /\ page' = IF form THEN None ELSE t
     /\ Begin(r, [jar EXCEPT !.token = t], IF jar.token = None THEN {"token"} ELSE {})

(* A path the middleware skips neither makes nor checks a token.             *)
Skipped(r) ==
  /\ copy[r] = None
  /\ Begin(r, jar, {})
  /\ UNCHANGED <<tokens, page, wrong>>

-----------------------------------------------------------------------------
(* Operations of handlers and pages.                                         *)
Works(r, session, cookies) ==
  /\ ops < MaxOps /\ ops' = ops + 1
  /\ copy' = [copy EXCEPT ![r] = cookies]
  /\ saved' = [saved EXCEPT ![r] = @ \cup {session}]
  /\ UNCHANGED <<jar, clients>>

(* The page gets messages, or they are dropped; the history checks the turn. *)
Consume(r, n) ==
  LET next == consumed + n IN
  IF overlapped THEN UNCHANGED <<consumed, wrong>>
  ELSE /\ consumed' = next
       /\ wrong' = (wrong \/ \E i \in 1..n : copy[r].flash[i] # consumed + i)

(* AddFlash, SetFlash: old input that is pending goes into the same session. *)
AddFlash(r) ==
  /\ copy[r] # None /\ added < MaxMsg
  /\ added' = added + 1
  /\ Works(r, "flash", [copy[r] EXCEPT !.flash = Append(@, added + 1),
                                       !.old = @ \/ pending[r]])
  /\ pending' = [pending EXCEPT ![r] = FALSE]
  /\ UNCHANGED <<consumed, wrong>>

(* Mutant: the messages behind the first are not put back. *)
GetFlashDropsRest(r) ==
  /\ copy[r] # None /\ copy[r].flash # <<>>
  /\ Consume(r, 1)
  /\ Works(r, "flash", [copy[r] EXCEPT !.flash = <<>>])
  /\ UNCHANGED <<pending, added>>

(* The first message of a key; the others stay.                              *)
GetFlash(r) ==
  /\ copy[r] # None /\ copy[r].flash # <<>>
  /\ Consume(r, 1)
  /\ Works(r, "flash", [copy[r] EXCEPT !.flash = Tail(@)])
  /\ UNCHANGED <<pending, added>>

GetAllFlashes(r) ==
  /\ copy[r] # None /\ copy[r].flash # <<>>
  /\ Consume(r, Len(copy[r].flash))
  /\ Works(r, "flash", [copy[r] EXCEPT !.flash = <<>>])
  /\ UNCHANGED <<pending, added>>

ClearFlashes(r) ==
  /\ copy[r] # None
  /\ Consume(r, Len(copy[r].flash))
  /\ Works(r, "flash", [copy[r] EXCEPT !.flash = <<>>])
  /\ UNCHANGED <<pending, added>>

(* fiberweb.SetOldInputs only notes the form; CommitOldInputs (which         *)
(* AutoOldInputs calls for a redirect) or AddFlash writes it.                *)
SetOldInputs(r) ==
  /\ copy[r] # None /\ ops < MaxOps
  /\ pending' = [pending EXCEPT ![r] = TRUE]
  /\ ops' = ops + 1
  /\ UNCHANGED <<jar, copy, saved, added, consumed, wrong, clients>>

CommitOldInputs(r) ==
  /\ copy[r] # None /\ pending[r]
  /\ Works(r, "flash", [copy[r] EXCEPT !.old = TRUE])
  /\ pending' = [pending EXCEPT ![r] = FALSE]
  /\ UNCHANGED <<added, consumed, wrong>>

GetOldInputs(r) ==
  /\ copy[r] # None /\ copy[r].old
  /\ Works(r, "flash", [copy[r] EXCEPT !.old = FALSE])
  /\ UNCHANGED <<pending, added, consumed, wrong>>

(* SetUserInSession: a login. *)
SetUser(r, user) ==
  /\ copy[r] # None
  /\ Works(r, "user", [copy[r] EXCEPT !.user = user])
  /\ UNCHANGED <<pending, added, consumed, wrong>>

(* ClearUserFromSession: a logout. *)
ClearUser(r) ==
  /\ copy[r] # None
  /\ Works(r, "user", [copy[r] EXCEPT !.user = None])
  /\ UNCHANGED <<pending, added, consumed, wrong>>

-----------------------------------------------------------------------------
(* The answer reaches the client.  A form that was noted and never written   *)
(* is gone (as it is when the answer is no redirect).                        *)
Written(r) ==
  [flash |-> IF "flash" \in saved[r] THEN copy[r].flash ELSE jar.flash,
   old   |-> IF "flash" \in saved[r] THEN copy[r].old ELSE jar.old,
   user  |-> IF "user" \in saved[r] THEN copy[r].user ELSE jar.user,
   token |-> IF "token" \in saved[r] THEN copy[r].token ELSE jar.token]

Deliver(r) ==
  /\ copy[r] # None
  /\ jar' = Written(r)
  /\ lastLogin' = IF "user" \in saved[r] THEN copy[r].user ELSE lastLogin
  /\ copy' = [copy EXCEPT ![r] = None] /\ saved' = [saved EXCEPT ![r] = {}]
  /\ pending' = [pending EXCEPT ![r] = FALSE]
  /\ UNCHANGED <<ops, added, consumed, wrong, tokens, page, overlapped>>

Next == \E r \in Requests :
  \/ \E form \in BOOLEAN : Protected(r, form)
  \/ Skipped(r)
  \/ AddFlash(r) \/ GetFlash(r) \/ GetAllFlashes(r) \/ ClearFlashes(r)
  \/ SetOldInputs(r) \/ CommitOldInputs(r) \/ GetOldInputs(r)
  \/ (\E user \in Users : SetUser(r, user)) \/ ClearUser(r)
  \/ Deliver(r)

Spec == Init /\ [][Next]_vars

-----------------------------------------------------------------------------
(* While the client sends one request at a time, each message is shown or   *)
(* cleared once, in the order of adding, and waits in the cookies until      *)
(* then; and no form the client posts is refused (GetFlash keeps the rest,   *)
(* Token keeps the token).  When requests overlap, the last answer wins.     *)
SequentialClientServed ==
  ~overlapped =>
    /\ ~wrong
    /\ (\A r \in Requests : copy[r] = None) =>
         jar.flash = [i \in 1..(added - consumed) |-> consumed + i]

(* Who is logged in is decided by the last answer that logged in or out: no  *)
(* other answer, however late, brings back an earlier login.                 *)
LoginKept == jar.user = lastLogin

(* Both, for messages and forms and for the login.                           *)
SessionsHold == SequentialClientServed /\ LoginKept
=============================================================================
