----------------------------- MODULE Mnamespace -----------------------------
(***************************************************************************)
(* mnamespace_set() and mnamespace_lookup(): a location such as a.b[1].c   *)
(* names a place in a tree of dictionaries and arrays, which set() makes   *)
(* as far as it is missing.                                                *)
(*                                                                         *)
(* A location is a sequence of steps: to a name (the first, or after a     *)
(* dot), to an index, or something that is neither.                        *)
(*                                                                         *)
(* That memory runs out is left out: mdict_item_s() tells of it as of an   *)
(* entry that is missing, and set() then puts a new container in place of  *)
(* what is there.                                                          *)
(***************************************************************************)
EXTENDS Integers, Sequences

CONSTANTS
  Name,     (* names                                                       *)
  Index,    (* indices                                                     *)
  Steps,    (* bound: steps of a location                                  *)
  Sets,     (* bound: calls of mnamespace_set()                            *)
  ArrayMax  (* MARRAY_MAX, the limit of an array                           *)

SpaceAssumption ==
  /\ "" \notin Name /\ Index \in SUBSET Nat /\ Steps \in Nat /\ Sets \in Nat
  /\ ArrayMax \in Nat

VARIABLES
  ns,       (* the namespace                                               *)
  last_set  (* the last call: before, location, number and result          *)

space_vars == <<ns, last_set>>

Absent == [type |-> "NULL"]
Hole == [type |-> "MNONE"]
Integer(n) == [type |-> "MINT", value |-> n]
NewDict == [type |-> "MDICT", items |-> [n \in Name |-> Absent]]
NewArray == [type |-> "MARRAY", items |-> <<>>]

(* "" is an empty name or one that is too long, -1 an index that is empty, *)
(* not terminated or not a number.                                         *)
Step ==
  [by : {"."}, name : Name \cup {""}]
    \cup [by : {"["}, ndx : Index \cup {-1}]
    \cup [by : {"?"}]

(* The first is to a name; a name ends only before a dot, a bracket or the *)
(* end.                                                                    *)
Location ==
  {l \in UNION {[1..n -> Step] : n \in 1..Steps} :
     /\ l[1].by = "." /\ l[1].name # ""
     /\ \A k \in 2..Len(l) : l[k].by = "?" => l[k - 1].by = "["}

(* What a step calls for, and what it leads to. *)
Container(s) == IF s.by = "." THEN "MDICT" ELSE IF s.by = "[" THEN "MARRAY" ELSE "NONE"

item(v, s) ==
  IF v.type # Container(s) THEN Absent
  ELSE IF s.by = "." THEN (IF s.name = "" THEN Absent ELSE v.items[s.name])
  ELSE IF s.ndx \in 0..(Len(v.items) - 1) THEN v.items[s.ndx + 1] ELSE Absent

mnamespace_lookup(v, location) ==
  LET next[k \in 0..Len(location)] == IF k = 0 THEN v ELSE item(next[k - 1], location[k])
  IN  next[Len(location)]

(* Mutant of replace: the holes before the index are left out.             *)
replace_dense(v, s, x) ==
  [v EXCEPT !.items =
     IF s.by = "." THEN [@ EXCEPT ![s.name] = x]
     ELSE IF s.ndx < Len(@) THEN [@ EXCEPT ![s.ndx + 1] = x] ELSE Append(@, x)]

(* marray_set(), with holes up to the index. *)
padded(items, ndx, x) ==
  [k \in 1..(IF ndx < Len(items) THEN Len(items) ELSE ndx + 1) |->
     IF k = ndx + 1 THEN x ELSE IF k <= Len(items) THEN items[k] ELSE Hole]

(* mdict_replace_s(), marray_set() *)
replace(v, s, x) ==
  [v EXCEPT !.items = IF s.by = "." THEN [@ EXCEPT ![s.name] = x] ELSE padded(@, s.ndx, x)]

Settable(s) == s.by = "." \/ s.ndx < ArrayMax

(* xalloc_by_typechar() and its insertion, if nothing is there.            *)
made(v, s, next) ==
  IF item(v, s) = Absent /\ next.by # "?" /\ Settable(s)
  THEN replace(v, s, IF next.by = "." THEN NewDict ELSE NewArray)
  ELSE v

Valid(s) == IF s.by = "." THEN s.name # "" ELSE s.by = "[" /\ s.ndx # -1

(* mnamespace_set(): the containers that it comes through, where what is   *)
(* missing was made on the way, ...                                        *)
Current(v, location) ==
  LET current[k \in 1..Len(location)] ==
        IF k = 1 THEN v
        ELSE item(made(current[k - 1], location[k - 1], location[k]), location[k - 1])
  IN  current

(* ... the step at which it ends: the last, or one that leads to no         *)
(* container of the right type, ...                                        *)
Ends(current, location, k) ==
  \/ k = Len(location)
  \/ ~Valid(location[k + 1])
  \/ current[k + 1].type # Container(location[k + 1])

End(current, location) ==
  CHOOSE k \in 1..Len(location) :
    Ends(current, location, k) /\ \A j \in 1..(k - 1) : ~Ends(current, location, j)

(* ... what it does there, ...                                             *)
changed(current, location, k, x) ==
  IF k < Len(location) THEN made(current[k], location[k], location[k + 1])
  ELSE IF Settable(location[k]) THEN replace(current[k], location[k], x)
  ELSE current[k]

(* ... and what that makes of the containers, from the end to the first. *)
After(current, location, end, x) ==
  LET after[j \in 0..(end - 1)] ==
        IF j = 0 THEN changed(current, location, end, x)
        ELSE replace(made(current[end - j], location[end - j], location[end - j + 1]),
                     location[end - j], after[j - 1])
  IN  after

(* What a call that fails has made remains. *)
mnamespace_set(location) ==
  LET current == Current(ns, location)
      end == End(current, location)
  IN  /\ last_set.n < Sets
      /\ ns' = After(current, location, end, Integer(last_set.n + 1))[end - 1]
      /\ last_set' = [n |-> last_set.n + 1, before |-> ns, location |-> location,
                      ok |-> end = Len(location) /\ Settable(location[end])]

SpaceInit ==
  /\ ns = NewDict
  /\ last_set = [n |-> 0, before |-> NewDict, location |-> <<>>, ok |-> TRUE]

SpaceNext == \E location \in Location : mnamespace_set(location)

SpaceSpec == SpaceInit /\ [][SpaceNext]_space_vars

-----------------------------------------------------------------------------
(* A lookup finds what the last set() has stored. *)
StoredIsFound ==
  last_set.n > 0 /\ last_set.ok
    => mnamespace_lookup(ns, last_set.location) = Integer(last_set.n)

(* A set() keeps every object that it does not replace: those found before *)
(* at a place that is not under its location are found there still, even   *)
(* when it fails halfway.                                                  *)
Under(location, other) ==
  Len(location) <= Len(other) /\ \A k \in 1..Len(location) : location[k] = other[k]

OthersStay ==
  \A location \in Location :
    LET x == mnamespace_lookup(last_set.before, location)
    IN  x.type = "MINT" /\ (last_set.ok => ~Under(last_set.location, location))
          => mnamespace_lookup(ns, location) = x

(* mnamespace_lookup() finds what mnamespace_set() has stored, and what it *)
(* did not replace is still there, even when it has failed.                *)
SetIsFound == StoredIsFound /\ OthersStay
=============================================================================
