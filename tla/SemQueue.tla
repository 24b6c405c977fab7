------------------------------ MODULE SemQueue ------------------------------
(***************************************************************************)
(* req_queue_sem and queue_sem.h: a ring of Size slots between one thread  *)
(* that pushes and one that pops, with a semaphore that counts the empty   *)
(* slots (`full' in the code) and one that counts the used ones (`empty'). *)
(* An empty slot is NULL, and so is the entry that stop() pushes.          *)
(*                                                                         *)
(* head belongs to the thread that pushes and tail to the one that pops:   *)
(* the slot and its index are one step, the semaphores are steps of their  *)
(* own.  A wait that EINTR breaks off is repeated, a stuttering step.      *)
(***************************************************************************)
EXTENDS Naturals, Sequences

CONSTANTS
  Producer,  (* the thread that pushes, as a set of one                    *)
  Count,     (* requests it pushes, before it calls stop()                 *)
  Size       (* slots of the ring                                          *)

(* What is assumed of the constants: see assert() of init_queue_sem().     *)
SemAssumption ==
  /\ Count \in Nat
  /\ Size \in Nat \ {0}

(* Entries are pairs; no entry is the empty tuple. *)
NULL == <<>>

VARIABLES
  q,         (* the slots                                                  *)
  head, tail,
  full,      (* value of the semaphore of empty slots                      *)
  empty,     (* value of the semaphore of used slots                       *)
  push_pc,   (* ready, store, post, or over: stop() has returned           *)
  pc,        (* ready, take, post, or ended: pop() has returned NULL       *)
  entry,     (* the entry pop() is about to return                         *)
  pushed,    (* requests pushed                                            *)
  taken      (* what pop() has returned                                    *)

vars == <<q, head, tail, full, empty, push_pc, pc, entry, pushed, taken>>

advance(i) == IF i + 1 = Size THEN 0 ELSE i + 1

-----------------------------------------------------------------------------
(* queue_sem_push(), for a request or, at last, for the NULL of stop(). *)

push_wait ==
  /\ push_pc = "ready" /\ full > 0
  /\ full' = full - 1
  /\ push_pc' = "store"
  /\ UNCHANGED <<q, head, tail, empty, pc, entry, pushed, taken>>

push_store(p) ==
  /\ push_pc = "store" /\ pushed[p] < Count
  /\ pushed' = [pushed EXCEPT ![p] = @ + 1]
  /\ q' = [q EXCEPT ![head] = <<p, pushed'[p]>>]
  /\ head' = advance(head)
  /\ push_pc' = "post"
  /\ UNCHANGED <<tail, full, empty, pc, entry, taken>>

push_post ==
  /\ push_pc = "post"
  /\ empty' = empty + 1
  /\ push_pc' = "ready"
  /\ UNCHANGED <<q, head, tail, full, pc, entry, pushed, taken>>

(* stop() pushes NULL into a slot that is NULL.                            *)
stop ==
  /\ push_pc = "store" /\ \A p \in Producer : pushed[p] = Count
  /\ head' = advance(head)
  /\ push_pc' = "stopped"
  /\ UNCHANGED <<q, tail, full, empty, pc, entry, pushed, taken>>

stop_post ==
  /\ push_pc = "stopped"
  /\ empty' = empty + 1
  /\ push_pc' = "over"
  /\ UNCHANGED <<q, head, tail, full, pc, entry, pushed, taken>>

push == push_wait \/ push_post \/ stop \/ stop_post \/ \E p \in Producer : push_store(p)

-----------------------------------------------------------------------------
(* queue_sem_pop() *)

pop_wait ==
  /\ pc = "ready" /\ empty > 0
  /\ empty' = empty - 1
  /\ pc' = "take"
  /\ UNCHANGED <<q, head, tail, full, push_pc, entry, pushed, taken>>

(* The request counts as taken here, when it leaves the ring.              *)
pop_take ==
  /\ pc = "take"
  /\ entry' = q[tail]
  /\ q' = [q EXCEPT ![tail] = NULL]
  /\ tail' = advance(tail)
  /\ pc' = "post"
  /\ taken' = IF q[tail] = NULL THEN taken ELSE Append(taken, q[tail])
  /\ UNCHANGED <<head, full, empty, push_pc, pushed>>

pop_post ==
  /\ pc = "post"
  /\ full' = full + 1
  /\ pc' = IF entry = NULL THEN "ended" ELSE "ready"
  /\ entry' = NULL
  /\ UNCHANGED <<q, head, tail, empty, push_pc, pushed, taken>>

pop == pop_wait \/ pop_take \/ pop_post

-----------------------------------------------------------------------------
Init ==
  /\ q = [i \in 0..Size - 1 |-> NULL]
  /\ head = 0 /\ tail = 0
  /\ full = Size /\ empty = 0
  /\ push_pc = "ready" /\ pc = "ready" /\ entry = NULL
  /\ pushed = [p \in Producer |-> 0] /\ taken = <<>>

Next == push \/ pop

Fairness == WF_vars(push) /\ WF_vars(pop)

Spec == Init /\ [][Next]_vars /\ Fairness

-----------------------------------------------------------------------------
(* The variables keep their types. *)
TypeOK ==
  /\ q \in [0..Size - 1 -> (Producer \X (1..Count)) \cup {NULL}]
  /\ head \in 0..Size - 1 /\ tail \in 0..Size - 1
  /\ full \in 0..Size /\ empty \in 0..Size
  /\ push_pc \in {"ready", "store", "post", "stopped", "over"}
  /\ pc \in {"ready", "take", "post", "ended"}
  /\ entry \in (Producer \X (1..Count)) \cup {NULL}
  /\ pushed \in [Producer -> 0..Count]
  /\ taken \in Seq(Producer \X (1..Count))

(* The assert() of queue_sem_push: a slot that is written is empty.        *)
SlotIsFree == push_pc = "store" => q[head] = NULL

(* The k-th slot from the tail on, and the used ones among them.           *)
Slot(k) == q[IF tail + k < Size THEN tail + k ELSE tail + k - Size]

Filled(n) ==
  /\ \A k \in 0..n - 1 : Slot(k) # NULL
  /\ n < Size => Slot(n) = NULL

(* What the ring holds, from the tail on, as `struct vqueue' sees it.      *)
Contents == [k \in 1..(CHOOSE n \in 0..Size : Filled(n)) |-> Slot(k - 1)]

=============================================================================
