---------------------------- MODULE RequestQueue ----------------------------
(***************************************************************************)
(* What `struct vqueue' promises, whichever implementation stands behind   *)
(* its function pointers: requests come out in the order in which they     *)
(* went in, none is lost or repeated, pop() gives every request that was   *)
(* pushed, and gives NULL only after stop() and when nothing is left.      *)
(***************************************************************************)
EXTENDS Naturals, Sequences

CONSTANTS
  Producer,   (* threads that call push()                                 *)
  Count       (* requests each of them pushes                             *)

VARIABLES
  pushed,     (* requests each producer has pushed                        *)
  contents,   (* what pop() has not given yet, in order                   *)
  stopped,    (* stop() was called                                        *)
  taken,      (* what pop() has given, in order                           *)
  ended       (* pop() has given NULL                                     *)

vars == <<pushed, contents, stopped, taken, ended>>

(* The n-th request of a producer. *)
Request == Producer \X (1..Count)

Pushed(r) == pushed[r[1]] >= r[2]
Taken(r) == \E i \in 1..Len(taken) : taken[i] = r

push(p) ==
  /\ ~stopped /\ pushed[p] < Count
  /\ pushed' = [pushed EXCEPT ![p] = @ + 1]
  /\ contents' = Append(contents, <<p, pushed'[p]>>)
  /\ UNCHANGED <<stopped, taken, ended>>

(* Nothing is pushed after stop(). *)
stop ==
  /\ ~stopped
  /\ stopped' = TRUE
  /\ UNCHANGED <<pushed, contents, taken, ended>>

pop ==
  /\ ~ended /\ contents # <<>>
  /\ taken' = Append(taken, Head(contents))
  /\ contents' = Tail(contents)
  /\ UNCHANGED <<pushed, stopped, ended>>

pop_null ==
  /\ ~ended /\ stopped /\ contents = <<>>
  /\ ended' = TRUE
  /\ UNCHANGED <<pushed, contents, stopped, taken>>

Init ==
  /\ pushed = [p \in Producer |-> 0]
  /\ contents = <<>> /\ taken = <<>>
  /\ stopped = FALSE /\ ended = FALSE

Next == pop \/ pop_null \/ stop \/ \E p \in Producer : push(p)

(* Every request comes out, and so does the NULL after stop().             *)
Delivery ==
  /\ \A r \in Request : Pushed(r) ~> Taken(r)
  /\ stopped ~> ended

Spec == Init /\ [][Next]_vars /\ Delivery
=============================================================================
