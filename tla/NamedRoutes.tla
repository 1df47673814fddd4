------------------------------ MODULE NamedRoutes ------------------------------
(***************************************************************************)
(* pkg/router: routes are registered under a name, directly or through a   *)
(* ChiGroup that knows where its router is mounted, and URLs are made from *)
(* the name and parameters, by order or by name.                           *)
(*                                                                         *)
(* A pattern is a sequence of tokens [is, s]: text ("/" is a token of its  *)
(* own), "{}" ({name}, its expression left out), "{" (one never closed),   *)
(* the fiber forms ":", ":?", ":+", ":*", "*" and "+", and "%" (%s).  A    *)
(* value is the sequence of its parts between slashes; <<>> is "".  In a    *)
(* path a part is a text, and an escaped value one token, [escaped].       *)
(***************************************************************************)
EXTENDS Integers, FiniteSets, SequencesExt

CONSTANTS
  Names,        \* of routes
  Patterns,     \* that are registered directly
  ChiPatterns,  \* of handlers of a group
  SubPatterns,  \* of groups in a group
  Mounts,       \* [prefix, at]: what Chi is told, and where the router is
  MaxPrefix,    \* bound on the length of a group's prefix
  Values,       \* of parameters
  MaxArgs,      \* bound on the number of values given in order
  Unknown,      \* a parameter of no pattern
  Queries,      \* sequences of [key, values] in the order of the keys
  NoRoute

VARIABLES
  group,        \* the group in hand: [prefix, at, tidy]
  templates,    \* the registry: name -> pattern
  routed,       \* history: what the router serves under that name
  tidyRoute,    \* history: registered through a group without a trailing "/"
  asked,        \* <<>>, or the call: [name, params, query]
  url           \* its answer: [error, path, query]

vars == <<group, templates, routed, tidyRoute, asked, url>>

Text(s) == [is |-> "text", s |-> s]
Slash == Text("/")
EndsIn(path, t) == path # <<>> /\ Last(path) = t
TrimSuffix(path) == IF EndsIn(path, Slash) THEN Front(path) ELSE path

CleanPrefix(p) ==
  LET trimmed == TrimSuffix(p)
  IN IF trimmed = <<>> \/ trimmed[1] = Slash THEN trimmed ELSE <<Slash>> \o trimmed

Full(prefix, pattern) ==
  IF prefix = <<>> \/ pattern = <<>> \/ pattern = <<Slash>> THEN prefix \o pattern
  ELSE prefix \o <<Slash>> \o (IF pattern[1] = Slash THEN Tail(pattern) ELSE pattern)

Init ==
  /\ group \in {[prefix |-> CleanPrefix(m.prefix), at |-> m.at, tidy |-> TRUE] : m \in Mounts}
  /\ templates = [n \in Names |-> NoRoute] /\ routed = templates
  /\ tidyRoute = [n \in Names |-> TRUE]
  /\ asked = <<>> /\ url = [error |-> "none", path |-> <<>>, query |-> <<>>]

Put(name, pattern, path, tidy) ==
  /\ asked = <<>>
  /\ templates' = [templates EXCEPT ![name] = pattern]
  /\ routed' = [routed EXCEPT ![name] = path]
  /\ tidyRoute' = [tidyRoute EXCEPT ![name] = tidy]
  /\ UNCHANGED <<group, asked, url>>

RegisterRoute == \E name \in Names, p \in Patterns : Put(name, p, p, TRUE)
UnregisterRoute == \E name \in Names : templates[name] # NoRoute /\ Put(name, NoRoute, NoRoute, TRUE)
(* ChiGroup.Handle: chi gets the relative pattern and serves it below. *)
Handle ==
  \E name \in Names, p \in ChiPatterns : Put(name, Full(group.prefix, p), group.at \o p, group.tidy)
(* ChiGroup.Route: chi mounts the pattern with or without its last slash.    *)
Route ==
  /\ asked = <<>>
  /\ \E p \in SubPatterns :
       /\ Len(Full(group.prefix, p)) <= MaxPrefix
       /\ group' = [prefix |-> Full(group.prefix, p), at |-> TrimSuffix(group.at \o p),
                    tidy |-> group.tidy /\ ~EndsIn(p, Slash)]
  /\ UNCHANGED <<templates, routed, tidyRoute, asked, url>>

-----------------------------------------------------------------------------
(* What each token of a pattern is. *)
Kinds(p) ==
  LET First(i) == i = 1 \/ p[i - 1] = Slash
      Boundary(i) == First(i) \/ p[i - 1] \in {Text("-"), Text(".")}
      Among(i, bounded, first) == (p[i].is \in bounded /\ Boundary(i)) \/ (p[i].is \in first /\ First(i))
  IN [i \in DOMAIN p |->
        IF p[i].is = "{}" \/ Among(i, {":", ":+"}, {"+"}) THEN "named"
        ELSE IF Among(i, {":?"}, {}) THEN "optional"
        ELSE IF Among(i, {":*"}, {"*"}) THEN "wildcard" ELSE "text"]
PrintfKinds(p) == [i \in DOMAIN p |-> IF p[i].is = "%" THEN "printf" ELSE "text"]

Params(kinds) == {i \in DOMAIN kinds : kinds[i] # "text"}
Required(kinds) == {i \in DOMAIN kinds : kinds[i] \in {"named", "printf"}}

Rank(S, i) == Cardinality({j \in S : j <= i})

(* Mutant: what is given fills the first parameters, required or not. *)
FirstGiven(kinds, n) == {i \in Params(kinds) : Rank(Params(kinds), i) <= n}

(* The required ones, and of the others as many as there are values left.    *)
Given(kinds, n) ==
  LET others == Params(kinds) \ Required(kinds)
  IN Required(kinds) \cup {i \in others : Rank(others, i) <= n - Cardinality(Required(kinds))}

(* The value of each parameter given one; an error gives every one of them.  *)
ByOrder(kinds, args) ==
  LET given == Given(kinds, Len(args))
      used == Cardinality(Required(kinds)) .. Cardinality(Params(kinds))
  IN IF Len(args) \notin used THEN [error |-> "params", values |-> <<>>]
     ELSE [error |-> "none", values |-> [i \in given |-> args[Rank(given, i)]]]

ByName(p, kinds, m) ==
  LET given == {i \in Params(kinds) : p[i].s \in DOMAIN m}
  IN IF ~(Required(kinds) \subseteq given) \/ Cardinality(given) # Cardinality(DOMAIN m)
     THEN [error |-> "params", values |-> <<>>]
     ELSE [error |-> "none", values |-> [i \in given |-> m[p[i].s]]]

(* PathEscape, and escapePathKeepSlash where the parameter is greedy.        *)
Greedy == {":+", ":*", "*", "+"}
Joined(value) == [q \in 1 .. 2 * Len(value) - 1 |-> IF q % 2 = 1 THEN Text(value[(q + 1) \div 2]) ELSE Slash]
Escape(t, value) ==
  IF t.is \in Greedy \/ Len(value) <= 1 THEN Joined(value) ELSE <<[escaped |-> value]>>

(* The path after the next token: an optional parameter not given goes with  *)
(* the slash before it.                                                      *)
Gone(kinds, values, i) == i \notin DOMAIN values \/ (kinds[i] = "optional" /\ values[i] = <<>>)
Write(p, kinds, values, path, i) ==
  IF kinds[i] = "text" THEN Append(path, p[i])
  ELSE IF ~Gone(kinds, values, i) THEN path \o Escape(p[i], values[i])
  ELSE IF kinds[i] = "optional" /\ (i = Len(p) \/ p[i + 1] = Slash) THEN TrimSuffix(path)
  ELSE path

Written(p, kinds, values) ==
  LET path[i \in 0 .. Len(p)] == IF i = 0 THEN <<>> ELSE Write(p, kinds, values, path[i - 1], i)
  IN path
Build(p, kinds, values) ==
  LET path == Written(p, kinds, values)[Len(p)]
  IN IF path = <<>> THEN <<Slash>> ELSE path

Error(what) == [error |-> what, path |-> <<>>, query |-> <<>>]

(* params is [by |-> "order", args] or [by |-> "name", map]. *)
ReverseURL(p, params) ==
  LET given == IF params.by = "order" THEN Len(params.args) ELSE Cardinality(DOMAIN params.map)
      old == Params(Kinds(p)) = {} /\ params.by = "order" /\ given > 0
      kinds == IF old THEN PrintfKinds(p) ELSE Kinds(p)
      filled == IF params.by = "order" THEN ByOrder(kinds, params.args) ELSE ByName(p, kinds, params.map)
      empty == \E i \in DOMAIN filled.values : kinds[i] = "named" /\ filled.values[i] = <<>>
  IN IF p = NoRoute THEN Error("route")
     ELSE IF \E i \in DOMAIN p : p[i].is = "{" THEN Error("pattern")
     ELSE IF Params(kinds) = {} THEN IF given > 0 THEN Error("params") ELSE [Error("none") EXCEPT !.path = p]
     ELSE IF filled.error # "none" \/ empty THEN Error("params")
     ELSE [Error("none") EXCEPT !.path = Build(p, kinds, filled.values)]

(* A nil value is left out; a list is several pairs of one key.              *)
WithQuery(answer, query) ==
  LET Pairs(q) == [i \in DOMAIN q.values |-> <<q.key, q.values[i]>>]
  IN IF answer.error # "none" THEN answer
     ELSE [answer EXCEPT !.query = FlattenSeq([i \in DOMAIN query |-> Pairs(query[i])])]

(* What a caller may pass: some values in order, or some by name. *)
Calls(p) ==
  LET known == IF p = NoRoute THEN {} ELSE {p[i].s : i \in Params(Kinds(p))}
  IN {[by |-> "order", args |-> args] : args \in UNION {[1 .. n -> Values] : n \in 0 .. MaxArgs}}
     \cup {[by |-> "name", map |-> m] : m \in UNION {[keys -> Values] : keys \in SUBSET known \cup {known \cup {Unknown}}}}

ReverseURLWithQuery ==
  /\ asked = <<>>
  /\ \E name \in Names, query \in Queries : \E params \in Calls(templates[name]) :
       /\ asked' = [name |-> name, params |-> params, query |-> query]
       /\ url' = WithQuery(ReverseURL(templates[name], params), query)
  /\ UNCHANGED <<group, templates, routed, tidyRoute>>

Next == RegisterRoute \/ UnregisterRoute \/ Handle \/ Route \/ ReverseURLWithQuery

Spec == Init /\ [][Next]_vars

-----------------------------------------------------------------------------
(* The registry has the path the router serves, wherever the group is        *)
(* mounted; groups opened with a trailing slash are excepted.                *)
RegisteredIsRouted == \A n \in Names : tidyRoute[n] => templates[n] = routed[n]

Pattern == templates[asked.name]
Parametrised == asked # <<>> /\ Pattern # NoRoute /\ url.error # "pattern" /\ Params(Kinds(Pattern)) # {}

NamesDiffer(p) == \A i, j \in Params(Kinds(p)) : p[i].s = p[j].s => i = j

(* A choice of n parameters, the required ones and the first of the others;  *)
(* and the values given in order as values of those.                         *)
Choice(kinds, n, chosen) ==
  /\ Cardinality(chosen) = n /\ Required(kinds) \subseteq chosen
  /\ \A i \in chosen \ Required(kinds), j \in Params(kinds) \ Required(kinds) : j < i => j \in chosen
ChoicesOf(kinds, n) == {chosen \in SUBSET Params(kinds) : Choice(kinds, n, chosen)}
Named(p, args, chosen) ==
  [k \in {p[i].s : i \in chosen} |->
     args[CHOOSE n \in DOMAIN args : \E i \in chosen : p[i].s = k /\ n = Rank(chosen, i)]]

(* Values in order answer as the same values given by name to the required   *)
(* parameters and to the first of the others; where no such choice exists,   *)
(* they are refused.                                                         *)
OrderIsName ==
  Parametrised /\ NamesDiffer(Pattern) /\ asked.params.by = "order" =>
    LET args == asked.params.args
        choices == ChoicesOf(Kinds(Pattern), Len(args))
    IN IF choices = {} THEN url.error = "params"
       ELSE \A chosen \in choices :
              url = WithQuery(ReverseURL(Pattern, [by |-> "name", map |-> Named(Pattern, args, chosen)]), asked.query)

(* Patterns whose values a reader could find again: text between parameters, *)
(* nothing after a greedy one, and nothing optional before one that is       *)
(* required as well.                                                         *)
Readable(p) ==
  \A i \in Params(Kinds(p)) :
    /\ i + 1 \notin Params(Kinds(p))
    /\ p[i].is \in Greedy => i = Len(p)
    /\ p[i].is \in Greedy /\ Kinds(p)[i] = "named" => Params(Kinds(p)) = Required(Kinds(p))

(* Two lists of values, none of them empty, never make the same URL.         *)
TellsApart ==
  Parametrised /\ Readable(Pattern) /\ asked.params.by = "order" /\ url.error = "none"
  /\ <<>> \notin ToSet(asked.params.args) =>
    \A params \in Calls(Pattern) :
      params.by = "order" /\ params # asked.params /\ <<>> \notin ToSet(params.args) =>
        ReverseURL(Pattern, params).path # url.path

(* Dropping parameters leaves no empty segment behind and never the start of *)
(* the path, where the pattern has neither.                                  *)
Empty(path) == \E i \in 1 .. Len(path) - 1 : path[i] = Slash /\ path[i + 1] = Slash
NoEmptySegment ==
  Parametrised /\ url.error = "none" /\ Readable(Pattern) /\ Pattern[1] = Slash /\ ~Empty(Pattern) =>
    url.path[1] = Slash /\ ~Empty(url.path)

RouteTells == RegisteredIsRouted /\ OrderIsName /\ TellsApart /\ NoEmptySegment
===============================================================================
