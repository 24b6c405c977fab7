----------------------------- MODULE VirtualDb -----------------------------
(***************************************************************************)
(* A database as a server gets it from load_db_lib(): a `struct vdb' that  *)
(* init_lock_db() or init_parallel_db() has filled in.  Whichever it is,   *)
(* it implements Vdb.                                                      *)
(*                                                                         *)
(* The two implementations share nothing; the one that was not loaded      *)
(* rests in its initial state.                                             *)
(***************************************************************************)
EXTENDS Naturals, Sequences

CONSTANTS Caller, Key, Value, Null, Calls, N_SUBS

VARIABLES
  kind,      (* the library that was loaded                                *)
  lock_store, readers, writer, pc, call, lock_copied, lock_calls, lock_answers,
  owner, i, made, requests, stopped, thread, request, copied, store, calls, answers

lock_vars == <<lock_store, readers, writer, pc, call, lock_copied, lock_calls, lock_answers>>
par_vars ==
  <<owner, i, made, requests, stopped, thread, request, copied, store, calls, answers>>
vars == <<kind, lock_vars, par_vars>>

Lock == INSTANCE LockDb WITH store <- lock_store, copied <- lock_copied,
          calls <- lock_calls, answers <- lock_answers
Par == INSTANCE ParallelDb

load_db_lib == kind \in {"lock", "parallel"}

Init == load_db_lib /\ Lock!LockInit /\ Par!Init

lock_step == kind = "lock" /\ Lock!LockNext /\ UNCHANGED <<kind, par_vars>>
par_step == kind = "parallel" /\ Par!Next /\ UNCHANGED <<kind, lock_vars>>

Next == lock_step \/ par_step

(* A thread that is not blocked goes on.  Nothing says that callers call,  *)
(* nor that the database is destroyed.  A lock is fair to who waits for    *)
(* it: the callers of the model end.                                       *)
Fairness ==
  /\ \A c \in Caller :
       /\ WF_lock_vars(kind = "lock" /\ Lock!get(c))
       /\ WF_lock_vars(kind = "lock" /\ Lock!geta(c))
       /\ WF_lock_vars(kind = "lock" /\ Lock!set(c))
  /\ WF_par_vars(kind = "parallel" /\ Par!manage)
  /\ \A t \in Par!Sub : WF_par_vars(kind = "parallel" /\ Par!db_thread(t))

Spec == Init /\ [][Next]_vars /\ Fairness

-----------------------------------------------------------------------------
(* Both databases keep their types. *)
TypeOK == Lock!LockTypeOK /\ Par!TypeOK

(* In db_lock, who reads a part and who writes it exclude each other, so   *)
(* that no value is copied that was freed or is not there yet.             *)
NoHoleRead == Lock!NoHoleRead

(* In db_parallel, no queue goes while a thread pops from it, and a        *)
(* failed initialisation and destroy() leave nothing behind.               *)
QueuesOutliveThreads == Par!QueuesOutliveThreads

(* The assertion that precedes every access to a part of db_lock holds.    *)
HashInRange == \A c \in Caller : ~Lock!AssertFails(c)

Chosen(lock, par) == IF kind = "lock" THEN lock ELSE par

Db == INSTANCE Vdb WITH
  store <- Chosen(Lock!Store, store),
  calls <- Chosen(lock_calls, calls),
  waiting <- Chosen(Lock!Waiting, Par!Waiting),
  found <- Chosen(Lock!Found, Par!Found),
  answers <- Chosen(lock_answers, answers)

(* The database that was loaded implements Vdb: the calls of one caller on *)
(* one key take effect in order, an answer is the value of the key at one  *)
(* moment, and every geta() is answered, destroy() or not.                 *)
VdbSpec == Db!Spec
=============================================================================
