-------------------------------- MODULE Vdb --------------------------------
(***************************************************************************)
(* What `struct vdb' promises to the threads that call set() and geta():   *)
(* the calls of one caller on one key take effect in the order of the      *)
(* calls, each of them at one moment; a geta() is answered once, with the  *)
(* value the key had at that moment; and every geta() is answered.         *)
(***************************************************************************)
EXTENDS VdbCalls

VARIABLES
  store,    (* the value of each key                                       *)
  calls,    (* calls each caller has made                                  *)
  waiting,  (* calls that have not taken effect                            *)
  found,    (* values that were found and not yet given to async_result()  *)
  answers   (* what async_result() was called with                         *)

vars == <<store, calls, waiting, found, answers>>

Ask(c) ==
  /\ calls[c] < Calls[c]
  /\ calls' = [calls EXCEPT ![c] = @ + 1]
  /\ \E o \in Call(c, calls'[c]) : waiting' = waiting \cup {o}
  /\ UNCHANGED <<store, found, answers>>

First(o) == \A e \in waiting : e.by = o.by /\ e.key = o.key => o.n <= e.n

Effect(o) ==
  /\ o \in waiting /\ First(o)
  /\ waiting' = waiting \ {o}
  /\ \/ /\ o.kind = "set"
        /\ store' = [store EXCEPT ![o.key] = o.value]
        /\ UNCHANGED found
     \/ /\ o.kind = "get"
        /\ found' = found \cup {<<o, store[o.key]>>}
        /\ UNCHANGED store
  /\ UNCHANGED <<calls, answers>>

async_result(a) ==
  /\ a \in found
  /\ found' = found \ {a} /\ answers' = answers \cup {a}
  /\ UNCHANGED <<store, calls, waiting>>

Init ==
  /\ store = [k \in Key |-> Null]
  /\ calls = [c \in Caller |-> 0]
  /\ waiting = {} /\ found = {} /\ answers = {}

Next ==
  \/ \E c \in Caller : Ask(c)
  \/ \E o \in waiting : Effect(o)
  \/ \E a \in found : async_result(a)

Answered(c, n) == \E a \in answers : a[1].by = c /\ a[1].n = n

Pending(c, n) == \E o \in waiting : o.by = c /\ o.n = n /\ o.kind = "get"

Spec ==
  /\ Init /\ [][Next]_vars
  /\ \A c \in Caller, n \in 1..MaxCalls : Pending(c, n) ~> Answered(c, n)
=============================================================================
