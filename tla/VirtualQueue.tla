---------------------------- MODULE VirtualQueue ----------------------------
(***************************************************************************)
(* A queue as init_parallel_db() gets it: create_queue is create_cnd_queue *)
(* or create_sem_queue, and the caller sees a `struct vqueue'.  Whichever  *)
(* it is, it implements RequestQueue.                                      *)
(*                                                                         *)
(* The two implementations share nothing; the one that was not created     *)
(* rests in its initial state.                                             *)
(***************************************************************************)
EXTENDS Naturals, Sequences

CONSTANTS
  Producer,  (* threads that push to the queue with the condition variable *)
  Single,    (* the one thread that pushes to the queue with semaphores    *)
  Count, Size

VARIABLES
  kind,      (* what create_queue created                                  *)
  queue, local, running, mutex, cnd_pc, seen, cnd_pushed, cnd_taken,
  q, head, tail, full, empty, push_pc, sem_pc, entry, sem_pushed, sem_taken

cnd_vars == <<queue, local, running, mutex, cnd_pc, seen, cnd_pushed, cnd_taken>>
sem_vars == <<q, head, tail, full, empty, push_pc, sem_pc, entry, sem_pushed, sem_taken>>
vars == <<kind, cnd_vars, sem_vars>>

Cnd == INSTANCE CndQueue WITH pushed <- cnd_pushed, taken <- cnd_taken
Sem == INSTANCE SemQueue WITH Producer <- Single,
         pc <- sem_pc, pushed <- sem_pushed, taken <- sem_taken

create_queue == kind \in {"cnd", "sem"}

Init == create_queue /\ Cnd!Init /\ Sem!Init

cnd_step == kind = "cnd" /\ Cnd!Next /\ UNCHANGED <<kind, sem_vars>>
sem_step == kind = "sem" /\ Sem!Next /\ UNCHANGED <<kind, cnd_vars>>

Next == cnd_step \/ sem_step

(* The fairness of the queue that was created; see the two modules.        *)
Fairness ==
  /\ WF_cnd_vars(kind = "cnd" /\ Cnd!pop) /\ WF_cnd_vars(kind = "cnd" /\ Cnd!stop)
  /\ \A p \in Producer : WF_cnd_vars(kind = "cnd" /\ Cnd!push(p))
  /\ WF_sem_vars(kind = "sem" /\ Sem!push) /\ WF_sem_vars(kind = "sem" /\ Sem!pop)

Spec == Init /\ [][Next]_vars /\ Fairness

-----------------------------------------------------------------------------
(* Both queues keep their types. *)
TypeOK == Cnd!TypeOK /\ Sem!TypeOK

(* The assert() of queue_sem_push() never fails.                           *)
SlotIsFree == Sem!SlotIsFree

Chosen(cnd, sem) == IF kind = "cnd" THEN cnd ELSE sem

Queue == INSTANCE RequestQueue WITH
  pushed <- Chosen(cnd_pushed,
                   [p \in Producer |-> IF p \in Single THEN sem_pushed[p] ELSE 0]),
  contents <- Chosen(Cnd!Contents, Sem!Contents),
  stopped <- Chosen(~running, push_pc \in {"stopped", "over"}),
  taken <- Chosen(cnd_taken, sem_taken),
  ended <- Chosen(cnd_pc, sem_pc) = "ended"

(* The queue that was created implements RequestQueue: first in, first     *)
(* out, nothing lost, nothing twice, NULL only at the end; and pop() never *)
(* sleeps on a request or on a stop() (no wake-up is lost).                *)
QueueSpec == Queue!Spec
=============================================================================
