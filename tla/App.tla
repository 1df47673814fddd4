--------------------------------- MODULE App ---------------------------------
(***************************************************************************)
(* The small stateful parts of the library and of cmd/crm.  They share no  *)
(* state: one of them runs in each behaviour (scene), the others keep      *)
(* their initial state.  SignalBus's names are this module's own; the      *)
(* other parts are instances.                                              *)
(***************************************************************************)
EXTENDS SignalBus, Sequences

CONSTANTS
  Scenes,                                              \* which part runs; others than these have turns of their own
  SigEmitters, MaxSubs, Arrays, NilArray,              \* Signal
  Callers, Managers, File, Db,                         \* PolicyManager, and who runs in the parts below
  SeedRuns, SeedNames, Forcings,                       \* Seeder
  TTL, LoadTime,                                       \* MenuLoader
  Addresses, Attempts, Window, IdleTime,               \* LoginLimit
  MaxMsg, MaxOps, SessionUsers,                        \* ClientSession
  Chains, HandlerOps,                                  \* MiddlewareChain
  RouteNames, RoutePatterns, ChiPatterns, SubPatterns, Mounts, MaxPrefix,
  RouteValues, MaxArgs, Unknown, Queries, NoRoute      \* NamedRoutes

VARIABLES
  scene,
  subs, heap, snap, pos, next, registered, promised,
  default, pending, manager, writer, modelFile, stored, call, answer, broken, given, replaced,
  seeds, history, effect, repeats, seedAt, force, done, list, ran,
  items, loaded, menuAt, menuCall, seen, read, took, served,
  byIP, lastSweep, holds, unswept, stalled,
  jar, copy, saved, inputs, ops, added, consumed, tokens, page, wrong, overlapped, lastLogin,
  chain, request, layer, inward, raised, raw, sw, logged, panicked, hijacked, handlerOps,
  group, templates, routed, tidyRoute, urlCall, url

signalVars == <<subs, heap, snap, pos, next, registered, promised>>
policyVars == <<default, pending, manager, writer, modelFile, stored, call, answer, broken, given, replaced>>
seedVars == <<seeds, history, effect, repeats, seedAt, force, done, list, ran>>
menuVars == <<items, loaded, menuAt, menuCall, seen, read, took, served>>
loginVars == <<byIP, lastSweep, holds, unswept, stalled>>
sessionVars == <<jar, copy, saved, inputs, ops, added, consumed, tokens, page, wrong, overlapped, lastLogin>>
chainVars == <<chain, request, layer, inward, raised, raw, sw, logged, panicked, hijacked, handlerOps>>
routeVars == <<group, templates, routed, tidyRoute, urlCall, url>>
appVars ==
  <<scene, vars, signalVars, policyVars, seedVars, menuVars, loginVars, sessionVars, chainVars, routeVars>>

G == INSTANCE Signal WITH Emitters <- SigEmitters
P == INSTANCE PolicyManager
D == INSTANCE Seeder WITH Runs <- SeedRuns, Names <- SeedNames, at <- seedAt
M == INSTANCE MenuLoader WITH at <- menuAt, call <- menuCall
L == INSTANCE LoginLimit WITH Requests <- Callers, Idle <- IdleTime
S == INSTANCE ClientSession WITH Requests <- Callers, Users <- SessionUsers, pending <- inputs
C == INSTANCE MiddlewareChain WITH MaxOps <- HandlerOps, at <- layer, ops <- handlerOps
N == INSTANCE NamedRoutes WITH Names <- RouteNames, Patterns <- RoutePatterns, Values <- RouteValues, asked <- urlCall

-----------------------------------------------------------------------------
(* What the constants are: None is nobody, nothing and no record.            *)
ASSUME SignalAssumption == NilArray \notin Arrays /\ MaxSubs \in Nat

ASSUME PolicyAssumption ==
  /\ File # Db /\ None \notin {File, Db} /\ None \notin Managers /\ None \notin Callers

ASSUME SeederAssumption ==
  Forcings \subseteq [mode : {"run", "all", "names"}, names : SUBSET SeedNames]

ASSUME MenuAssumption == TTL \in Nat /\ LoadTime \in Nat \ {0} /\ None \notin Nat

ASSUME LoginAssumption ==
  /\ Attempts \in Nat \ {0} /\ Window \in Nat \ {0} /\ IdleTime \in Nat
  /\ None \notin [units : Int, seen : Int] /\ None \notin [ip : Addresses, closed : BOOLEAN]

ASSUME SessionAssumption ==
  None \notin [flash : Seq(Nat), old : BOOLEAN, user : SessionUsers \cup {None}, token : Nat \cup {None}]

ASSUME ChainAssumption ==
  /\ None \notin {"error", "abort"}
  /\ \A c \in Chains : c \in Seq(C!Layers)
                        /\ \A i, j \in 1 .. Len(c) : c[i] = "Timeout" /\ c[j] = "Timeout" => i = j

(* A group is told where its router is, with or without the slashes at its   *)
(* ends; what it adds begins with one.                                       *)
ASSUME RouteAssumption ==
  /\ RoutePatterns \cup ChiPatterns \cup SubPatterns \subseteq Seq([is : STRING, s : STRING])
  /\ \A p \in ChiPatterns \cup SubPatterns : p # <<>> /\ p[1] = N!Slash
  /\ \A m \in Mounts : m.prefix \in Seq([is : STRING, s : STRING]) /\ m.at = N!CleanPrefix(m.prefix)
  /\ RouteValues \subseteq Seq(STRING \ {"", "/"}) /\ MaxArgs \in Nat

-----------------------------------------------------------------------------
(* Where a part has several initial states, the other scenes see one.        *)
AnyForce == CHOOSE f \in Forcings : TRUE
AnyChain == CHOOSE c \in Chains : TRUE
AnyMount == CHOOSE m \in Mounts : TRUE

AppInit ==
  /\ scene \in Scenes
  /\ Init /\ G!Init /\ P!Init /\ M!Init /\ L!Init /\ S!Init
  /\ D!Init /\ (scene = "seeder" \/ force = [r \in SeedRuns |-> AnyForce])
  /\ C!Init /\ (scene = "chain" \/ (chain = AnyChain /\ request = "plain"))
  /\ N!Init /\ (scene = "route" \/ group.at = AnyMount.at)

Bus == scene = "bus" /\ Next
       /\ UNCHANGED <<scene, signalVars, policyVars, seedVars, menuVars, loginVars, sessionVars, chainVars, routeVars>>
Emitting == scene = "signal" /\ G!Next
            /\ UNCHANGED <<scene, vars, policyVars, seedVars, menuVars, loginVars, sessionVars, chainVars, routeVars>>
Policies == scene = "policy" /\ P!Next
            /\ UNCHANGED <<scene, vars, signalVars, seedVars, menuVars, loginVars, sessionVars, chainVars, routeVars>>
Seeding == scene = "seeder" /\ D!Next
           /\ UNCHANGED <<scene, vars, signalVars, policyVars, menuVars, loginVars, sessionVars, chainVars, routeVars>>
Menus == scene = "menu" /\ M!Next
         /\ UNCHANGED <<scene, vars, signalVars, policyVars, seedVars, loginVars, sessionVars, chainVars, routeVars>>
Logins == scene = "login" /\ L!Next
          /\ UNCHANGED <<scene, vars, signalVars, policyVars, seedVars, menuVars, sessionVars, chainVars, routeVars>>
Sessions == scene = "session" /\ S!Next
            /\ UNCHANGED <<scene, vars, signalVars, policyVars, seedVars, menuVars, loginVars, chainVars, routeVars>>
Requests == scene = "chain" /\ C!Next
            /\ UNCHANGED <<scene, vars, signalVars, policyVars, seedVars, menuVars, loginVars, sessionVars, routeVars>>
Routing == scene = "route" /\ N!Next
           /\ UNCHANGED <<scene, vars, signalVars, policyVars, seedVars, menuVars, loginVars, sessionVars, chainVars>>

AppNext == Bus \/ Emitting \/ Policies \/ Seeding \/ Menus \/ Logins \/ Sessions \/ Requests \/ Routing

AppSpec == AppInit /\ [][AppNext]_appVars

-----------------------------------------------------------------------------
(* An emission walks the subscriptions of the moment it began (Signal). *)
EmissionUndisturbed == G!ListIsRegistered /\ G!EmissionUndisturbed
(* And whoever is subscribed to a topic is on its Signal (SignalBus). *)
SignalsDeliver == TopicDelivers /\ EmissionUndisturbed
(* Rules of the model in force, and of the adapter given (PolicyManager). *)
ManagerKeepsFaith == P!ManagerKeepsFaith
(* The history says what took effect (Seeder). *)
HistoryExact == D!HistoryExact
(* No menu older than a TTL and one load, or than two loads (MenuLoader). *)
MenuFreshEnough == M!MenuFreshEnough
(* The sweep changes nobody's budget (LoginLimit). *)
SweepGivesNothing == L!SweepGivesNothing
(* Messages once and in order, no form refused, no login undone by a late   *)
(* answer (ClientSession). *)
SessionsHold == S!SessionsHold
(* One answer to a request, and a log of it (MiddlewareChain). *)
OneAnswer == C!OneAnswer /\ C!LogTellsStatus
(* A URL is where its route is served, and tells its values (NamedRoutes). *)
RouteTells == N!RouteTells
=============================================================================
