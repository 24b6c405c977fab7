------------------------------ MODULE CndQueue ------------------------------
(***************************************************************************)
(* req_queue_cnd: the queue of requests with a mutex and a condition       *)
(* variable.  Any number of threads push, one thread pops; pop() moves the *)
(* whole queue to a list of its own, which it then empties without a lock. *)
(*                                                                         *)
(* Everything between pthread_mutex_lock() and the unlock or the wait is   *)
(* one step after the step that takes the mutex.  The one access without   *)
(* the mutex, no_requests(&queue->queue) at the top of the loop of pop(),  *)
(* is a step of its own.                                                   *)
(***************************************************************************)
EXTENDS Naturals, Sequences

CONSTANTS
  Producer,  (* threads that call push()                                  *)
  Count      (* requests each of them pushes before it ends               *)

(* Who holds the mutex when no producer does is none. *)
CndAssumption ==
  /\ Count \in Nat
  /\ Producer \cap {"popper", "owner", "nobody"} = {}

VARIABLES
  queue,     (* the list under the mutex                                  *)
  local,     (* local_queue                                               *)
  running,   (* the flag under the mutex                                  *)
  mutex,     (* who holds it: a producer, "popper", "owner" or "nobody"   *)
  cnd_pc,    (* where the thread that pops is                             *)
  seen,      (* its variable `running'                                    *)
  pushed,    (* requests each producer has pushed                         *)
  taken      (* what pop() has returned                                   *)

vars == <<queue, local, running, mutex, cnd_pc, seen, pushed, taken>>

(* top -- at the head of the loop            lock -- before the mutex      *)
(* inside -- holds it                        wait -- in pthread_cond_wait()*)
(* woken -- signalled, wants the mutex back  move -- has it back           *)
(* ended -- pop() has returned NULL                                        *)
PopPlace == {"top", "lock", "inside", "wait", "woken", "move", "ended"}

-----------------------------------------------------------------------------
(* push(), in a producer; stop(), in the thread that has joined them all.  *)

acquire(t) == mutex = "nobody" /\ mutex' = t

(* pthread_cond_signal(): nothing happens when nobody waits.               *)
signal == cnd_pc' = IF cnd_pc = "wait" THEN "woken" ELSE cnd_pc

push_lock(p) ==
  /\ pushed[p] < Count
  /\ acquire(p)
  /\ UNCHANGED <<queue, local, running, cnd_pc, seen, pushed, taken>>

(* Mutant of push: a push to an empty list after the first ones is quiet.  *)
push_quiet(p) ==
  /\ mutex = p
  /\ pushed' = [pushed EXCEPT ![p] = @ + 1]
  /\ queue' = Append(queue, <<p, pushed'[p]>>)
  /\ IF queue = <<>> /\ taken # <<>> THEN UNCHANGED cnd_pc ELSE signal
  /\ mutex' = "nobody"
  /\ UNCHANGED <<local, running, seen, taken>>

push(p) ==
  /\ mutex = p
  /\ pushed' = [pushed EXCEPT ![p] = @ + 1]
  /\ queue' = Append(queue, <<p, pushed'[p]>>)
  /\ signal
  /\ mutex' = "nobody"
  /\ UNCHANGED <<local, running, seen, taken>>

stop_lock ==
  /\ running /\ \A p \in Producer : pushed[p] = Count
  /\ acquire("owner")
  /\ UNCHANGED <<queue, local, running, cnd_pc, seen, pushed, taken>>

stop ==
  /\ mutex = "owner"
  /\ running' = FALSE
  /\ signal
  /\ mutex' = "nobody"
  /\ UNCHANGED <<queue, local, seen, pushed, taken>>

-----------------------------------------------------------------------------
(* pop(), called in a loop by one thread. *)

(* A call that finds something in the local list returns it.  `running' is *)
(* a variable of the call: the next one starts with 1.                     *)
pop_local ==
  /\ cnd_pc = "top" /\ local # <<>>
  /\ taken' = Append(taken, Head(local))
  /\ local' = Tail(local)
  /\ seen' = TRUE
  /\ UNCHANGED <<queue, running, mutex, cnd_pc, pushed>>

(* The test of the queue without the mutex. *)
pop_peek ==
  /\ cnd_pc = "top" /\ local = <<>>
  /\ cnd_pc' = IF ~seen /\ queue = <<>> THEN "ended" ELSE "lock"
  /\ UNCHANGED <<queue, local, running, mutex, seen, pushed, taken>>

pop_lock ==
  /\ cnd_pc = "lock"
  /\ acquire("popper")
  /\ seen' = running
  /\ cnd_pc' = "inside"
  /\ UNCHANGED <<queue, local, running, pushed, taken>>

pop_wait ==
  /\ cnd_pc = "inside" /\ seen /\ queue = <<>>
  /\ mutex' = "nobody"
  /\ cnd_pc' = "wait"
  /\ UNCHANGED <<queue, local, running, seen, pushed, taken>>

spurious ==
  /\ cnd_pc = "wait"
  /\ cnd_pc' = "woken"
  /\ UNCHANGED <<queue, local, running, mutex, seen, pushed, taken>>

pop_wake ==
  /\ cnd_pc = "woken"
  /\ acquire("popper")
  /\ cnd_pc' = "move"
  /\ UNCHANGED <<queue, local, running, seen, pushed, taken>>

(* The list moves to the local one, and the mutex is released. *)
pop_move ==
  /\ cnd_pc = "move" \/ (cnd_pc = "inside" /\ ~(seen /\ queue = <<>>))
  /\ local' = local \o queue /\ queue' = <<>>
  /\ mutex' = "nobody"
  /\ cnd_pc' = "top"
  /\ UNCHANGED <<running, seen, pushed, taken>>

pop == pop_local \/ pop_peek \/ pop_lock \/ pop_wait \/ pop_wake \/ pop_move

-----------------------------------------------------------------------------
Init ==
  /\ queue = <<>> /\ local = <<>> /\ taken = <<>>
  /\ running = TRUE /\ seen = TRUE
  /\ mutex = "nobody" /\ cnd_pc = "top"
  /\ pushed = [p \in Producer |-> 0]

Next ==
  \/ pop \/ spurious \/ stop_lock \/ stop
  \/ \E p \in Producer : push_lock(p) \/ push(p)

(* A thread that can go on does; who holds the mutex releases it.  The     *)
(* mutex is fair enough to let the popper in, as the producers end.        *)
Fairness ==
  /\ WF_vars(pop) /\ WF_vars(stop)
  /\ \A p \in Producer : WF_vars(push(p))

Spec == Init /\ [][Next]_vars /\ Fairness

-----------------------------------------------------------------------------
Requests == Seq(Producer \X (1..Count))

(* The variables keep their types, and the mutex is held by the thread     *)
(* whose place says so.                                                    *)
TypeOK ==
  /\ queue \in Requests /\ local \in Requests /\ taken \in Requests
  /\ running \in BOOLEAN /\ seen \in BOOLEAN
  /\ mutex \in Producer \cup {"popper", "owner", "nobody"}
  /\ cnd_pc \in PopPlace
  /\ pushed \in [Producer -> 0..Count]
  /\ mutex = "popper" <=> cnd_pc \in {"inside", "move"}

(* What the queue holds, as `struct vqueue' sees it. *)
Contents == local \o queue
=============================================================================
