----------------------------- MODULE LabsDataMC -----------------------------
(***************************************************************************)
(* Instances for TLC of the queues, the databases, their tree and the line *)
(* buffer of posix-programming_labs, one of them at a time: the others     *)
(* rest in an initial state.                                               *)
(***************************************************************************)
EXTENDS LockDb, LineBuffer, SimpleDb

VARIABLES
  part,  (* the part that this behaviour is about                           *)
  (* VirtualQueue *)
  queue_kind, queue, local, queue_running, mutex, cnd_pc, seen, cnd_pushed, cnd_taken,
  q, head, tail, full, empty, push_pc, sem_pc, entry, sem_pushed, sem_taken,
  (* VirtualDb; LockDb, LineBuffer and SimpleDb declare their own *)
  db_kind, owner, i, made, requests, stopped, db_thread, request,
  par_copied, par_store, par_calls, par_answers

cnd_vars == <<queue, local, queue_running, mutex, cnd_pc, seen, cnd_pushed, cnd_taken>>
sem_vars == <<q, head, tail, full, empty, push_pc, sem_pc, entry, sem_pushed, sem_taken>>
queue_vars == <<queue_kind, cnd_vars, sem_vars>>
par_vars ==
  <<owner, i, made, requests, stopped, db_thread, request,
    par_copied, par_store, par_calls, par_answers>>
db_vars == <<db_kind, lock_vars, par_vars>>
vars == <<part, queue_vars, db_vars, tree_vars, line_vars>>

-----------------------------------------------------------------------------
(* The bounds. *)

Queue == INSTANCE VirtualQueue
  WITH Producer <- {"p1", "p2"}, Single <- {"p1"}, Count <- 3, Size <- 2,
       kind <- queue_kind, running <- queue_running

ASSUME Queue!Cnd!CndAssumption /\ Queue!Sem!SemAssumption

(* Two keys of two parts.  A key is a sequence of characters. *)
MCKey == {<<1>>, <<1, 3>>}

(* A third one, whose hash is N_SUBS. *)
AnyKey == MCKey \cup {<<1, 2>>}

MCCalls == [c \in Caller |-> IF c = "c1" THEN 2 ELSE 1]

Db == INSTANCE VirtualDb
  WITH kind <- db_kind, thread <- db_thread,
       lock_store <- store, lock_copied <- copied, lock_calls <- calls, lock_answers <- answers,
       store <- par_store, copied <- par_copied, calls <- par_calls, answers <- par_answers

ASSUME Db!Par!ParAssumption

Part == {"queue", "db", "tree", "line"}

(* Where a part has several initial states, it rests in one of them. *)
Rest ==
  /\ part = "queue" \/ queue_kind = "cnd"
  /\ part = "db" \/ db_kind = "lock"

Init ==
  /\ part \in Part
  /\ Queue!Init /\ Db!Init /\ TreeInit /\ LineInit
  /\ Rest

Next ==
  /\ UNCHANGED part
  /\ IF part = "queue" THEN Queue!Next ELSE UNCHANGED queue_vars
  /\ IF part = "db" THEN Db!Next ELSE UNCHANGED db_vars
  /\ IF part = "tree" THEN TreeNext ELSE UNCHANGED tree_vars
  /\ IF part = "line" THEN LineNext ELSE UNCHANGED line_vars

(* That of each part; why it is justified stands in its module. *)
QueueFairness ==
  /\ WF_cnd_vars(part = "queue" /\ queue_kind = "cnd" /\ Queue!Cnd!pop)
  /\ WF_cnd_vars(part = "queue" /\ queue_kind = "cnd" /\ Queue!Cnd!stop)
  /\ \A p \in {"p1", "p2"} : WF_cnd_vars(part = "queue" /\ queue_kind = "cnd" /\ Queue!Cnd!push(p))
  /\ WF_sem_vars(part = "queue" /\ queue_kind = "sem" /\ Queue!Sem!push)
  /\ WF_sem_vars(part = "queue" /\ queue_kind = "sem" /\ Queue!Sem!pop)

DbFairness ==
  /\ \A c \in Caller :
       /\ WF_lock_vars(part = "db" /\ db_kind = "lock" /\ Db!Lock!get(c))
       /\ WF_lock_vars(part = "db" /\ db_kind = "lock" /\ Db!Lock!geta(c))
       /\ WF_lock_vars(part = "db" /\ db_kind = "lock" /\ Db!Lock!set(c))
  /\ WF_par_vars(part = "db" /\ db_kind = "parallel" /\ Db!Par!manage)
  /\ \A t \in Db!Par!Sub : WF_par_vars(part = "db" /\ db_kind = "parallel" /\ Db!Par!db_thread(t))

Spec == Init /\ [][Next]_vars /\ QueueFairness /\ DbFairness

-----------------------------------------------------------------------------
(* Either queue implements RequestQueue: first in, first out, nothing      *)
(* lost, nothing twice, NULL only at the end, and pop() never sleeps on a  *)
(* request or on a stop().  The assert() of queue_sem_push() never fails.  *)
QueueSpec == []Queue!TypeOK /\ []Queue!SlotIsFree /\ Queue!QueueSpec

(* Either database implements Vdb: the calls of a caller on a key take     *)
(* effect in order, an answer is the value at one moment, every geta() is  *)
(* answered.  In db_parallel, no queue goes while a thread pops from it,   *)
(* a failed initialisation and destroy() leave nothing behind, and both    *)
(* return.                                                                 *)
VdbSpec ==
  []Db!TypeOK /\ Db!VdbSpec /\ []Db!QueuesOutliveThreads
    /\ (part = "db" /\ db_kind = "parallel" ~> owner \in {"up", "down", "failed"})
    /\ (owner = "stop" ~> owner = "down")

(* The assertion that precedes every access to a part of db_lock: a key    *)
(* has one of the N_SUBS parts.                                            *)
HashInRange == Db!HashInRange
=============================================================================
