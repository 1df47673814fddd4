------------------------------- MODULE Signal -------------------------------
(***************************************************************************)
(* pkg/signals, Signal: subscribers in a Go slice guarded by a lock, and   *)
(* Emit, which takes only the slice header under the lock and then walks   *)
(* it unlocked while others subscribe, unsubscribe and clear.  Whether an  *)
(* emission in progress is disturbed depends on who shares the backing     *)
(* array, so slices are modelled as Go has them: a header (array, length)  *)
(* into a heap of arrays whose length is the capacity.                     *)
(***************************************************************************)
EXTENDS Integers, SequencesExt

CONSTANTS
  MaxSubs,   \* bound: calls of Subscribe
  Emitters,  \* goroutines in Emit
  Arrays,    \* backing arrays; one nobody points to is garbage, and free
  NilArray   \* of the nil slice

VARIABLES
  subs,        \* s.subs: [arr, len]
  heap,        \* array -> its slots
  snap, pos,   \* each emission's slice header and next index, pos 0 when none
  next,        \* s.next, the last id given
  registered,  \* history: the subscriptions in force, in registration order
  promised     \* history: registered at the moment each emission began

vars == <<subs, heap, snap, pos, next, registered, promised>>

Empty == 0  \* an array slot not written yet; ids start at 1

Nil == [arr |-> NilArray, len |-> 0]

Init ==
  /\ subs = Nil
  /\ heap = [a \in Arrays \cup {NilArray} |-> <<>>]
  /\ snap = [e \in Emitters |-> Nil]
  /\ pos = [e \in Emitters |-> 0]
  /\ next = 0
  /\ registered = <<>>
  /\ promised = [e \in Emitters |-> <<>>]

-----------------------------------------------------------------------------
Cap(slice) == Len(heap[slice.arr])
Content(slice) == SubSeq(heap[slice.arr], 1, slice.len)
Free == Arrays \ ({subs.arr} \cup {snap[e].arr : e \in Emitters})

(* append: in place while there is capacity, otherwise into a new array of   *)
(* twice the size.                                                           *)
AppendTo(slice, id) ==
  \/ /\ slice.len < Cap(slice)
     /\ heap' = [heap EXCEPT ![slice.arr][slice.len + 1] = id]
     /\ subs' = [slice EXCEPT !.len = @ + 1]
  \/ /\ slice.len = Cap(slice)
     /\ \E a \in Free :
          LET size == IF slice.len = 0 THEN 1 ELSE 2 * slice.len
          IN  /\ heap' = [heap EXCEPT ![a] = [i \in 1 .. size |->
                            IF i <= slice.len THEN heap[slice.arr][i]
                            ELSE IF i = slice.len + 1 THEN id ELSE Empty]]
              /\ subs' = [arr |-> a, len |-> slice.len + 1]

Subscribe ==
  /\ next < MaxSubs
  /\ next' = next + 1
  /\ AppendTo(subs, next + 1)
  /\ registered' = Append(registered, next + 1)
  /\ UNCHANGED <<snap, pos, promised>>

(* Mutant: the tail is shifted within the shared array. *)
DropAtInPlace(i) ==
  /\ heap' = [heap EXCEPT ![subs.arr] =
       [j \in DOMAIN @ |-> IF j \in i .. subs.len - 1 THEN @[j + 1] ELSE @[j]]]
  /\ subs' = [subs EXCEPT !.len = @ - 1]

(* remove, from the unsubscribe function: a new array of exactly the length  *)
(* needed.  After Clear, or a second time, nothing is found.                 *)
DropAt(i) ==
  \E a \in Free :
    /\ heap' = [heap EXCEPT ![a] = RemoveAt(Content(subs), i)]
    /\ subs' = [arr |-> a, len |-> subs.len - 1]

Unsubscribe(id) ==
  /\ \E i \in 1 .. subs.len : heap[subs.arr][i] = id /\ DropAt(i)
  /\ \E k \in DOMAIN registered : registered[k] = id /\ registered' = RemoveAt(registered, k)
  /\ UNCHANGED <<snap, pos, next, promised>>

Clear ==
  /\ subs' = Nil
  /\ registered' = <<>>
  /\ UNCHANGED <<heap, snap, pos, next, promised>>

(* Emit: the header under the read lock, the walk without it. *)
EmitBegin(e) ==
  /\ pos[e] = 0
  /\ snap' = [snap EXCEPT ![e] = subs]
  /\ pos' = [pos EXCEPT ![e] = 1]
  /\ promised' = [promised EXCEPT ![e] = registered]
  /\ UNCHANGED <<subs, heap, next, registered>>

(* callSafe: a panic of the subscriber is recovered, so the walk goes on.    *)
Call(e) ==
  /\ pos[e] \in 1 .. snap[e].len
  /\ pos' = [pos EXCEPT ![e] = @ + 1]
  /\ UNCHANGED <<subs, heap, snap, next, registered, promised>>

(* The loop is over, or the OnPanic handler itself panicked. *)
EmitEnd(e) ==
  /\ pos[e] > 0
  /\ snap' = [snap EXCEPT ![e] = Nil]
  /\ pos' = [pos EXCEPT ![e] = 0]
  /\ promised' = [promised EXCEPT ![e] = <<>>]
  /\ UNCHANGED <<subs, heap, next, registered>>

Next ==
  \/ Clear \/ Subscribe
  \/ \E id \in 1 .. next : Unsubscribe(id)
  \/ \E e \in Emitters : EmitBegin(e) \/ Call(e) \/ EmitEnd(e)

Spec == Init /\ [][Next]_vars

-----------------------------------------------------------------------------
TypeOK ==
  /\ subs \in [arr : Arrays \cup {NilArray}, len : Nat]
  /\ \A a \in Arrays \cup {NilArray} : heap[a] \in Seq(0 .. next)
  /\ snap \in [Emitters -> [arr : Arrays \cup {NilArray}, len : Nat]]
  /\ pos \in [Emitters -> Nat]
  /\ next \in 0 .. MaxSubs
  /\ registered \in Seq(1 .. next)
  /\ promised \in [Emitters -> Seq(1 .. next)]

(* The slice holds the subscriptions in force, in registration order.        *)
ListIsRegistered == Content(subs) = registered

(* "o Emit çağrısı başladığı andaki abone listesini kullanır": whatever is   *)
(* subscribed, removed or cleared during an emission, what it walks is       *)
(* exactly the list of the moment it began.                                  *)
EmissionUndisturbed ==
  \A e \in Emitters : pos[e] > 0 => Content(snap[e]) = promised[e]
=============================================================================
