------------------------------ MODULE SqlLoader ------------------------------
(***************************************************************************)
(* pkg/sqlutil: SQL files are templates, parsed once and shared.  A Render *)
(* clones the shared template and gives the clone functions that collect   *)
(* arguments; Load executes the shared template itself, whose functions    *)
(* collect none.  Goroutines render concurrently, each with its own data.  *)
(*                                                                         *)
(* A template is the sequence of function calls it makes while it is       *)
(* executed; a call leaves a piece of text with its placeholders.          *)
(***************************************************************************)
EXTENDS Integers, Sequences

CONSTANTS
  Renderers,  \* goroutines, each calling once
  Files,      \* queries: a file, or a named query of a file
  Calls(_),   \* the function calls of a file: <<fn, column>>
  Datas,      \* data a template may be given: [one, list, map, outs]
  Dialect,
  Columns,    \* the valid identifiers, and their sorting order in
  SortCols(_),\* SortCols, a set of them as a sequence
  None

VARIABLES
  cached,     \* cache, named: the shared template of each file
  functions,  \* the binder whose functions a template calls, or None: baseFuncs
  pc, file, data, mode, \* each goroutine: where it is, what it asked for; render, load, preload
  template,   \* the template it executes
  at,         \* calls executed
  text,       \* what they wrote: pieces [what, cols, phs, upto]
  args,       \* the arguments its binder collected
  failed

vars == <<cached, functions, pc, file, data, mode, template, at, text, args, failed>>

Instances == Renderers \X {"parsed", "cloned"}

Init ==
  /\ cached = [f \in Files |-> None]
  /\ functions = [t \in Instances |-> None]
  /\ pc = [g \in Renderers |-> "lookup"]
  /\ file \in [Renderers -> Files]
  /\ data \in [Renderers -> Datas]
  /\ mode \in [Renderers -> {"render", "load", "preload"}]
  /\ template = [g \in Renderers |-> None]
  /\ at = [g \in Renderers |-> 0]
  /\ text = [g \in Renderers |-> <<>>]
  /\ args = [g \in Renderers |-> <<>>]
  /\ failed = [g \in Renderers |-> FALSE]

Goto(g, where) == pc' = [pc EXCEPT ![g] = where]
asked == <<file, data, mode>>

-----------------------------------------------------------------------------
(* getOrParse, getNamed: the read-locked look.                               *)
Lookup(g) ==
  /\ pc[g] = "lookup"
  /\ IF cached[file[g]] = None THEN Goto(g, "parse") /\ UNCHANGED template
     ELSE Goto(g, "ready") /\ template' = [template EXCEPT ![g] = cached[file[g]]]
  /\ UNCHANGED <<cached, functions, asked, at, text, args, failed>>

(* Outside the lock: several goroutines may read and parse one file.         *)
Parse(g) ==
  /\ pc[g] = "parse"
  /\ Goto(g, "store")
  /\ UNCHANGED <<cached, functions, asked, template, at, text, args, failed>>

(* The path is refused, the file cannot be read or parsed, or it has no      *)
(* query of the name.                                                        *)
ParseFails(g) ==
  /\ pc[g] \in {"lookup", "parse"}
  /\ failed' = [failed EXCEPT ![g] = TRUE]
  /\ Goto(g, "done")
  /\ UNCHANGED <<cached, functions, asked, template, at, text, args>>

(* The first one stored is kept, and is what everyone uses.                  *)
Store(g) ==
  /\ pc[g] = "store"
  /\ LET shared == IF cached[file[g]] = None THEN <<g, "parsed">> ELSE cached[file[g]] IN
     /\ cached' = [cached EXCEPT ![file[g]] = shared]
     /\ template' = [template EXCEPT ![g] = shared]
  /\ Goto(g, "ready")
  /\ UNCHANGED <<functions, asked, at, text, args, failed>>

(* Mutant: Render gives its functions to the shared template. *)
BeginShared(g) ==
  /\ pc[g] = "ready" /\ mode[g] # "preload"
  /\ functions' = IF mode[g] = "render" THEN [functions EXCEPT ![template[g]] = g] ELSE functions
  /\ Goto(g, "execute")
  /\ UNCHANGED <<cached, asked, template, at, text, args, failed>>

(* execute: Render takes a clone, with functions of its own.                 *)
Begin(g) ==
  /\ pc[g] = "ready" /\ mode[g] # "preload"
  /\ IF mode[g] = "render"
     THEN /\ template' = [template EXCEPT ![g] = <<g, "cloned">>]
          /\ functions' = [functions EXCEPT ![<<g, "cloned">>] = g]
     ELSE UNCHANGED <<template, functions>>
  /\ Goto(g, "execute")
  /\ UNCHANGED <<cached, asked, at, text, args, failed>>

-----------------------------------------------------------------------------
(* A piece of the text, with the marks of its places; upto counts the places *)
(* of the statement up to its end.                                           *)
Piece(what, cols, phs, upto) == [what |-> what, cols |-> cols, phs |-> phs, upto |-> upto]

Places(g, i) == IF i = 0 THEN 0 ELSE text[g][i].upto

(* normalizeOutParams drops what has no name or no type.                     *)
Outs(d) == SelectSeq(d.outs, LAMBDA o : o.name # "" /\ o.type # "")

(* A call's text and the values it binds, in the order of their places.      *)
Emit(what, cols, vals) == [err |-> FALSE, what |-> what, cols |-> cols, vals |-> vals]
Refuse == [err |-> TRUE, what |-> "", cols |-> <<>>, vals |-> <<>>]

Inclusion(fn, col, vals) ==
  IF col \notin Columns THEN Refuse
  ELSE IF vals = <<>> THEN Emit(IF fn = "notInList" THEN "1=1" ELSE "1=0", <<>>, <<>>)
  ELSE IF Len(vals) = 1 THEN Emit(IF fn = "notInList" THEN "<>" ELSE "=", <<col>>, vals)
  ELSE Emit(IF fn = "notInList" THEN "NOT IN" ELSE "IN", <<col>>, vals)

(* setList writes the columns of a map in their sorting order.               *)
Assignments(map) ==
  LET cols == SortCols(DOMAIN map)
  IN IF ~(DOMAIN map \subseteq Columns) THEN Refuse
     ELSE Emit(IF cols = <<>> THEN "" ELSE "SET", cols, [i \in DOMAIN cols |-> map[cols[i]]])

OutParams(fn, d) ==
  LET outs == Outs(d)
      Alias(o) == IF o.alias = "" THEN o.name ELSE o.alias
      Bad(o) == \/ o.name \notin Columns
                \/ fn = "spOutDecls" /\ o.type = "bad"
                \/ fn = "spOutVals" /\ Alias(o) \notin Columns
  IN IF \E i \in DOMAIN outs : Bad(outs[i]) THEN Refuse
     ELSE Emit(fn, [i \in DOMAIN outs |-> outs[i].name], <<>>)

(* What a function does with bound values when binding (funcs, inList), and  *)
(* when not (baseFuncs: param and in are errors).                            *)
Evaluate(call, d, bound) ==
  LET fn == call[1]  col == call[2] IN
  IF fn \in {"inList", "notInList"} THEN Inclusion(fn, col, d.list)
  ELSE IF fn = "setList" THEN Assignments(d.map)
  ELSE IF fn \in {"spOutDecls", "spOutVals"} THEN OutParams(fn, d)
  ELSE IF fn = "ident" THEN IF col \in Columns THEN Emit("ident", <<col>>, <<>>) ELSE Refuse
  ELSE IF ~bound \/ (fn = "in" /\ d.list = <<>>) THEN Refuse
  ELSE IF fn = "in" THEN Emit("list", <<>>, d.list) ELSE Emit("value", <<>>, <<d.one>>)

(* The placeholder of a binder's n-th argument; without one always "?".      *)
Mark(n, bound) == IF bound /\ Dialect \in {"postgres", "sqlserver"} THEN n ELSE 0

(* The next call: the functions are those of the template, whoever executes. *)
Call(g) ==
  /\ pc[g] = "execute" /\ at[g] < Len(Calls(file[g]))
  /\ LET binder == functions[template[g]]
         bound == binder # None
         out == Evaluate(Calls(file[g])[at[g] + 1], data[g], bound)
         before == IF bound THEN Len(args[binder]) ELSE 0
     IN IF out.err
        THEN failed' = [failed EXCEPT ![g] = TRUE] /\ Goto(g, "done") /\ UNCHANGED <<at, text, args>>
        ELSE /\ at' = [at EXCEPT ![g] = @ + 1]
             /\ text' = [text EXCEPT ![g] =
                  Append(@, Piece(out.what, out.cols, [i \in DOMAIN out.vals |-> Mark(before + i, bound)],
                                  Places(g, at[g]) + Len(out.vals)))]
             /\ args' = IF bound THEN [args EXCEPT ![binder] = @ \o out.vals] ELSE args
             /\ UNCHANGED <<failed, pc>>
  /\ UNCHANGED <<cached, functions, asked, template>>

(* PreloadDir only parses. *)
Return(g) ==
  /\ \/ pc[g] = "ready" /\ mode[g] = "preload"
     \/ pc[g] = "execute" /\ at[g] = Len(Calls(file[g]))
  /\ Goto(g, "done")
  /\ UNCHANGED <<cached, functions, asked, template, at, text, args, failed>>

Next == \E g \in Renderers :
  Lookup(g) \/ Parse(g) \/ ParseFails(g) \/ Store(g) \/ Begin(g) \/ Call(g) \/ Return(g)

Spec == Init /\ [][Next]_vars

-----------------------------------------------------------------------------
(* What a call means for the data given to it: which values, in their order. *)
Meant(call, d) ==
  IF call[1] = "param" THEN <<d.one>>
  ELSE IF call[1] \in {"in", "inList", "notInList"} THEN d.list
  ELSE IF call[1] = "setList" THEN [k \in DOMAIN SortCols(DOMAIN d.map) |-> d.map[SortCols(DOMAIN d.map)[k]]]
  ELSE <<>>

(* A Render returns a statement about its own data, whatever else is being   *)
(* rendered: as many arguments as places, and each call's places hold the    *)
(* values its own data gave that call.  A Load returns no arguments, leaves  *)
(* them to its caller, and never uses param or in.                           *)
RenderBinds ==
  \A g \in Renderers : pc[g] = "done" /\ ~failed[g] /\ mode[g] # "preload" =>
    IF mode[g] = "render"
    THEN /\ Places(g, Len(text[g])) = Len(args[g])
         /\ \A i \in DOMAIN text[g] :
              /\ \A k \in DOMAIN text[g][i].phs : text[g][i].phs[k] \in {0, Places(g, i - 1) + k}
              /\ SubSeq(args[g], Places(g, i - 1) + 1, Places(g, i)) = Meant(Calls(file[g])[i], data[g])
    ELSE /\ args[g] = <<>>
         /\ \A i \in DOMAIN text[g] : /\ Calls(file[g])[i][1] \notin {"param", "in"}
                                       /\ \A k \in DOMAIN text[g][i].phs : text[g][i].phs[k] = 0
=============================================================================
