------------------------------- MODULE Mobject -------------------------------
(***************************************************************************)
(* libmobject: objects that a caller creates, puts into arrays and         *)
(* dictionaries, takes out again and frees.  A container owns what it      *)
(* holds; the caller owns the rest.                                        *)
(*                                                                         *)
(* The array is as the code keeps it: slots that were allocated, of which  *)
(* the first nused count, and what lies behind them.                       *)
(***************************************************************************)
EXTENDS Integers, Sequences, FiniteSets, Functions

CONSTANTS
  Id,         (* objects that may be allocated, except None                *)
  Key,        (* strings used as keys                                      *)
  ALLOC_MIN,  (* the least allocation of an array, 4 in the code           *)
  MARRAY_MAX, (* its limit                                                 *)
  SIZE_MOD    (* values of a size_t                                        *)

(* What is assumed of the constants.                                       *)
ObjectAssumption ==
  /\ {"NULL", "NONE"} \cap Id = {}
  /\ ALLOC_MIN \in Nat \ {0} /\ MARRAY_MAX \in Nat /\ ALLOC_MIN <= MARRAY_MAX
  /\ SIZE_MOD \in Nat \ {0}

VARIABLES
  heap,     (* the objects                                                 *)
  owned,    (* those that belong to the caller                             *)
  damaged   (* an object that is still held elsewhere was freed            *)

object_vars == <<heap, owned, damaged>>

Null == "NULL"
NONE == "NONE"  (* mnone_singleton; mobject_free() leaves it alone          *)

Gone == [type |-> "FREE"]
Number == [type |-> "MINT"]
EmptyArray == [type |-> "MARRAY", entries |-> <<>>, nalloc |-> 0, nused |-> 0]
EmptyDict == [type |-> "MDICT", entries |-> <<>>, num_entries |-> 0]

(* What an iterator yields, in its order: miterator_next_array(),          *)
(* miterator_next_dict(); slot k of an array is entries[k + 1].            *)
Count(o) == CASE o.type = "MARRAY" -> o.nused [] o.type = "MDICT" -> Len(o.entries) [] OTHER -> 0
Item(o, k) == IF o.type = "MARRAY" THEN o.entries[k] ELSE o.entries[k].value

Held(o) == {Item(o, k) : k \in 1..Count(o)} \ {Null, NONE}

(* An object and all that it holds, at any depth. *)
Closed(S, h) == \A i \in S : Held(h[i]) \subseteq S
Below(x, h) == {i \in Id : \A S \in SUBSET Id : {x} \ {Null, NONE} \subseteq S /\ Closed(S, h) => i \in S}

(* mobject_free() with marray_free() and mdict_free() *)
mobject_free(x, h) ==
  LET tree == Below(x, h) IN [i \in Id |-> IF i \in tree THEN Gone ELSE h[i]]

Live(type) == {i \in Id : heap[i].type = type}
Fresh == Live("FREE")

-----------------------------------------------------------------------------
(* Arrays *)

NoLess(m, n) == IF m < n THEN n ELSE m

(* marray_resize(): doubling until it is more than what is wanted. *)
NextAlloc(o, want) ==
  LET grown[n \in 1..(2 * MARRAY_MAX)] == IF n < MARRAY_MAX /\ n <= want THEN grown[2 * n] ELSE n
  IN  grown[NoLess(o.nalloc, ALLOC_MIN)]

Fits(o, want) == want < o.nalloc
CanResize(o, want) == Fits(o, want) \/ NextAlloc(o, want) < MARRAY_MAX

marray_resize(o, want) ==
  IF Fits(o, want) THEN o
  ELSE LET n == NextAlloc(o, want)
       IN  [o EXCEPT !.nalloc = n,
                     !.entries = [k \in 1..n |-> IF k <= o.nused THEN o.entries[k] ELSE Null]]

prepended(o, x) ==
  LET r == marray_resize(o, o.nused + 1)
  IN  [r EXCEPT !.nused = @ + 1,
                !.entries = [k \in 1..r.nalloc |-> IF k = 1 THEN x
                                                   ELSE IF k <= r.nused + 1 THEN r.entries[k - 1]
                                                   ELSE r.entries[k]]]

appended(o, x) ==
  LET r == marray_resize(o, o.nused + 1)
  IN  [r EXCEPT !.entries[r.nused + 1] = x, !.nused = @ + 1]

(* marray_set() up to the entry that it replaces, and after it: slots that *)
(* are skipped get None.                                                   *)
filled(o, ndx) ==
  LET r == marray_resize(o, ndx + 1)
  IN  [r EXCEPT !.entries = [k \in 1..r.nalloc |-> IF k > r.nused /\ k <= ndx THEN NONE
                                                   ELSE r.entries[k]]]
stored(r, ndx, x) == [r EXCEPT !.entries[ndx + 1] = x, !.nused = NoLess(@, ndx + 1)]

popped(o) == [o EXCEPT !.entries[o.nused] = Null, !.nused = @ - 1]

(* Mutant of pulled: the entries are not moved.                            *)
pulled_unmoved(o) == [o EXCEPT !.nused = @ - 1]

(* marray_pull(): the slot behind the last is cleared only when no entry   *)
(* is left.                                                                *)
pulled(o) ==
  [o EXCEPT !.nused = @ - 1,
            !.entries = [k \in 1..o.nalloc |-> IF o.nused = 1 /\ k = 1 THEN Null
                                               ELSE IF k < o.nused THEN o.entries[k + 1]
                                               ELSE o.entries[k]]]

-----------------------------------------------------------------------------
(* Dictionaries: a list of entries *)

Has(o, key) == \E k \in 1..Len(o.entries) : o.entries[k].key = key
Position(o, key) == CHOOSE k \in 1..Len(o.entries) : o.entries[k].key = key
Value(o, key) == o.entries[Position(o, key)].value
Without(o, key) ==
  [k \in 1..(Len(o.entries) - 1) |-> IF k < Position(o, key) THEN o.entries[k] ELSE o.entries[k + 1]]
Entry(key, x) == [key |-> key, value |-> x]

inserted(o, key, x) ==
  [o EXCEPT !.entries = Append(@, Entry(key, x)), !.num_entries = (@ + 1) % SIZE_MOD]
removed(o, key) ==
  [o EXCEPT !.entries = Without(o, key), !.num_entries = (@ - 1) % SIZE_MOD]

replaced(o, key, x) ==
  IF Has(o, key) THEN inserted(removed(o, key), key, x) ELSE inserted(o, key, x)

-----------------------------------------------------------------------------
(* Calls.  One that fails for lack of memory leaves everything as it was,  *)
(* and so do those helpers that create an object first: they free it.      *)

Empty(type) == CASE type = "MINT" -> Number [] type = "MARRAY" -> EmptyArray
                 [] type = "MDICT" -> EmptyDict

create(type) ==
  /\ \E i \in Fresh :
       /\ heap' = [heap EXCEPT ![i] = Empty(type)]
       /\ owned' = owned \cup {i}
  /\ UNCHANGED damaged

(* The caller gives an object of its own, and not what holds the container *)
(* already.                                                                *)
give(x, c) ==
  /\ x \in owned \cup {NONE} /\ c \notin Below(x, heap)
  /\ owned' = owned \ {x}

marray_append(a, x) ==
  /\ give(x, a) /\ CanResize(heap[a], heap[a].nused + 1)
  /\ heap' = [heap EXCEPT ![a] = appended(@, x)]
  /\ UNCHANGED damaged

marray_prepend(a, x) ==
  /\ give(x, a) /\ CanResize(heap[a], heap[a].nused + 1)
  /\ heap' = [heap EXCEPT ![a] = prepended(@, x)]
  /\ UNCHANGED damaged

(* Whatever lies in the slot is freed, although behind nused it belongs to *)
(* someone else.                                                           *)
marray_set(a, ndx, x) ==
  /\ give(x, a) /\ CanResize(heap[a], ndx + 1)
  /\ LET r == filled(heap[a], ndx)
         old == r.entries[ndx + 1]
     IN  /\ heap' = [mobject_free(old, heap) EXCEPT ![a] = stored(r, ndx, x)]
         /\ damaged' = (ndx >= r.nused /\ old \in Id)

take(x) == owned' = owned \cup ({x} \ {NONE, Null})

marray_pop(a) ==
  /\ heap[a].nused > 0
  /\ take(heap[a].entries[heap[a].nused])
  /\ heap' = [heap EXCEPT ![a] = popped(@)]
  /\ UNCHANGED damaged

marray_pull(a) ==
  /\ heap[a].nused > 0
  /\ take(heap[a].entries[1])
  /\ heap' = [heap EXCEPT ![a] = pulled(@)]
  /\ UNCHANGED damaged

mdict_insert(d, key, x) ==
  /\ give(x, d) /\ ~Has(heap[d], key)
  /\ heap' = [heap EXCEPT ![d] = inserted(@, key, x)]
  /\ UNCHANGED damaged

mdict_replace(d, key, x) ==
  /\ give(x, d)
  /\ LET old == IF Has(heap[d], key) THEN Value(heap[d], key) ELSE Null
     IN  heap' = [mobject_free(old, heap) EXCEPT ![d] = replaced(heap[d], key, x)]
  /\ UNCHANGED damaged

mdict_remove(d, key) ==
  /\ Has(heap[d], key)
  /\ take(Value(heap[d], key))
  /\ heap' = [heap EXCEPT ![d] = removed(@, key)]
  /\ UNCHANGED damaged

(* mdict_remove() has counted the entry off already. *)
mdict_delete(d, key) ==
  /\ Has(heap[d], key)
  /\ LET r == removed(heap[d], key)
     IN  heap' = [mobject_free(Value(heap[d], key), heap) EXCEPT
                    ![d] = [r EXCEPT !.num_entries = (@ - 1) % SIZE_MOD]]
  /\ UNCHANGED <<owned, damaged>>

(* helpers.c: an object is made for the container, and freed again when    *)
(* the container does not take it.                                         *)
marray_append_new(a, type) ==
  /\ CanResize(heap[a], heap[a].nused + 1)
  /\ \E i \in Fresh : heap' = [heap EXCEPT ![i] = Empty(type), ![a] = appended(@, i)]
  /\ UNCHANGED <<owned, damaged>>

marray_prepend_new(a, type) ==
  /\ CanResize(heap[a], heap[a].nused + 1)
  /\ \E i \in Fresh : heap' = [heap EXCEPT ![i] = Empty(type), ![a] = prepended(@, i)]
  /\ UNCHANGED <<owned, damaged>>

marray_set_new(a, ndx, type) ==
  /\ CanResize(heap[a], ndx + 1)
  /\ LET r == filled(heap[a], ndx)
         old == r.entries[ndx + 1]
     IN  \E i \in Fresh :
           /\ heap' = [mobject_free(old, heap) EXCEPT ![a] = stored(r, ndx, i), ![i] = Empty(type)]
           /\ damaged' = (ndx >= r.nused /\ old \in Id)
  /\ UNCHANGED owned

mdict_insert_new(d, key, type) ==
  /\ ~Has(heap[d], key)
  /\ \E i \in Fresh :
       heap' = [heap EXCEPT ![i] = Empty(type), ![d] = inserted(@, key, i)]
  /\ UNCHANGED <<owned, damaged>>

mdict_replace_new(d, key, type) ==
  /\ LET old == IF Has(heap[d], key) THEN Value(heap[d], key) ELSE Null
     IN  \E i \in Fresh :
           heap' = [mobject_free(old, heap) EXCEPT
                      ![i] = Empty(type), ![d] = replaced(heap[d], key, i)]
  /\ UNCHANGED <<owned, damaged>>

free(x) ==
  /\ x \in owned
  /\ heap' = mobject_free(x, heap)
  /\ owned' = owned \ {x}
  /\ UNCHANGED damaged

(* mobject_deepcopy(): f gives the copies their places. *)
Preimage(f, i) == CHOOSE j \in DOMAIN f : f[j] = i
Renamed(f, x) == IF x \in DOMAIN f THEN f[x] ELSE x

(* The copy of an array grows entry by entry to the least size for all.    *)
copied_array(o, f) ==
  IF o.nused = 0 THEN EmptyArray
  ELSE LET r == marray_resize(EmptyArray, o.nused)
       IN  [r EXCEPT !.nused = o.nused,
                     !.entries = [k \in 1..r.nalloc |-> IF k <= o.nused THEN Renamed(f, o.entries[k]) ELSE Null]]
copied_dict(o, f) ==
  [type |-> "MDICT", num_entries |-> Len(o.entries) % SIZE_MOD,
   entries |-> [k \in 1..Len(o.entries) |-> Entry(o.entries[k].key, Renamed(f, o.entries[k].value))]]
copied(o, f) ==
  CASE o.type = "MARRAY" -> copied_array(o, f) [] o.type = "MDICT" -> copied_dict(o, f) [] OTHER -> o

mobject_deepcopy(x) ==
  /\ Cardinality(Below(x, heap)) <= Cardinality(Fresh)
  /\ \E f \in [Below(x, heap) -> Fresh] :
       /\ IsInjective(f)
       /\ heap' = [i \in Id |-> IF i \in Range(f) THEN copied(heap[Preimage(f, i)], f) ELSE heap[i]]
       /\ owned' = owned \cup {f[x]}
  /\ UNCHANGED damaged

-----------------------------------------------------------------------------
ObjectInit ==
  /\ heap = [i \in Id |-> Gone]
  /\ owned = {} /\ damaged = FALSE

Type == {"MINT", "MARRAY", "MDICT"}

ArrayCall(a) ==
  \/ \E type \in Type :
       \/ marray_append_new(a, type) \/ marray_prepend_new(a, type)
       \/ \E ndx \in 0..2 : marray_set_new(a, ndx, type)
  \/ \E x \in owned : marray_append(a, x) \/ marray_prepend(a, x)
  \/ \E x \in owned, ndx \in 0..2 : marray_set(a, ndx, x)
  \/ marray_pop(a) \/ marray_pull(a)

DictCall(d) ==
  \E key \in Key :
    \/ \E x \in owned : mdict_insert(d, key, x) \/ mdict_replace(d, key, x)
    \/ mdict_remove(d, key) \/ mdict_delete(d, key)
    \/ \E type \in Type : mdict_insert_new(d, key, type) \/ mdict_replace_new(d, key, type)

(* After the damage anything may happen: nothing is said of it.            *)
ObjectNext ==
  /\ ~damaged
  /\ \/ \E type \in Type : create(type)
     \/ \E a \in Live("MARRAY") : ArrayCall(a)
     \/ \E d \in Live("MDICT") : DictCall(d)
     \/ \E x \in owned : free(x) \/ mobject_deepcopy(x)

ObjectSpec == ObjectInit /\ [][ObjectNext]_object_vars

-----------------------------------------------------------------------------
(* The objects keep their shapes: an array has the slots it counts.        *)
ObjectTypeOK ==
  /\ owned \subseteq Id /\ damaged \in BOOLEAN
  /\ \A a \in Live("MARRAY") :
       /\ heap[a].nused <= heap[a].nalloc /\ heap[a].nalloc < MARRAY_MAX
       /\ Len(heap[a].entries) = heap[a].nalloc
  /\ \A d \in Live("MDICT") : heap[d].num_entries \in 0..(SIZE_MOD - 1)

(* The places of the containers in which an object is.                     *)
Places(i) == {p \in UNION {{j} \X (1..Count(heap[j])) : j \in Id} : Item(heap[p[1]], p[2]) = i}

(* Every object that lives has exactly one owner, the caller or a place in *)
(* a container, and nothing freed has one: no object is freed twice or     *)
(* used after it was freed.                                                *)
OwnedOnce ==
  \A i \in Id :
    Cardinality(Places(i)) + (IF i \in owned THEN 1 ELSE 0)
      = (IF heap[i].type = "FREE" THEN 0 ELSE 1)

(* What lives can be reached from what the caller has: no object leaks.    *)
NothingLeaks == \A i \in Id \ Fresh : \E x \in owned : i \in Below(x, heap)

(* A key is in a dictionary once. *)
KeysDiffer ==
  \A d \in Live("MDICT") : \A j, k \in 1..Len(heap[d].entries) :
    heap[d].entries[j].key = heap[d].entries[k].key => j = k

(* The objects of mobject.c keep their shapes, and each that lives has one *)
(* owner and can be reached, unless marray_set() hits a slot that          *)
(* marray_pull() left behind.                                              *)
OneOwner == ObjectTypeOK /\ KeysDiffer /\ (damaged \/ (OwnedOnce /\ NothingLeaks))

=============================================================================
