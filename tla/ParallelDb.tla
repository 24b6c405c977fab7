----------------------------- MODULE ParallelDb -----------------------------
(***************************************************************************)
(* db_parallel: a simple database per part, each with a queue of requests  *)
(* and a thread that serves it.  set() and geta() push a request and       *)
(* return; the thread answers a geta() through async_result().             *)
(*                                                                         *)
(* A queue is what RequestQueue says of it: requests in order, and NULL    *)
(* after stop() and the last request.                                      *)
(***************************************************************************)
EXTENDS VdbCalls, StringHash

(* What is assumed of the constants: there is a part, and calls have a     *)
(* bound.                                                                  *)
ParAssumption ==
  /\ N_SUBS \in Nat \ {0}
  /\ MaxCalls \in Nat /\ \A c \in Caller : Calls[c] \in 0..MaxCalls

VARIABLES
  owner,    (* where the thread is that initialises and destroys           *)
  i,        (* the index of its loop                                       *)
  made,     (* the parts whose queue exists                                *)
  requests, (* the queue of each part                                      *)
  stopped,  (* the queues that were stopped                                *)
  thread,   (* where the thread of each part is                            *)
  request,  (* the request it has popped                                   *)
  copied,   (* `value' in it                                               *)
  store,    (* the value of each key                                       *)
  calls,    (* calls that each caller has made                             *)
  answers   (* what async_result() was called with                         *)

caller_vars == <<calls, requests>>
thread_vars == <<thread, request, copied, store, answers>>
vars == <<owner, i, made, stopped, caller_vars, thread_vars>>

Sub == 0..N_SUBS - 1

OwnerPlace == {"create_queues", "create_threads", "undo_stop", "undo_join",
               "undo_queues", "failed", "up", "stop", "join", "free", "down"}

-----------------------------------------------------------------------------
(* init_parallel_db(): two loops, and when a step of one fails, what was   *)
(* done is undone.                                                         *)

goto(place, index) == owner' = place /\ i' = index

create_queue ==
  /\ owner = "create_queues"
  /\ \/ /\ made' = made \cup {i}
        /\ IF i + 1 = N_SUBS THEN goto("create_threads", 0) ELSE goto(owner, i + 1)
     \/ goto("undo_queues", 0) /\ UNCHANGED made
  /\ UNCHANGED <<stopped, caller_vars, thread_vars>>

(* destroy_trds ends at ntrds, the index of the thread that failed: the    *)
(* others are not there.                                                   *)
pthread_create ==
  /\ owner = "create_threads"
  /\ \/ /\ thread' = [thread EXCEPT ![i] = "pop"]
        /\ IF i + 1 = N_SUBS THEN goto("up", 0) ELSE goto(owner, i + 1)
     \/ goto("undo_stop", 0) /\ UNCHANGED thread
  /\ UNCHANGED <<made, stopped, request, copied, store, answers, caller_vars>>

Created == {t \in Sub : thread[t] # "none"}

undo_stop ==
  /\ owner = "undo_stop"
  /\ IF i \in Created
     THEN stopped' = stopped \cup {i} /\ goto("undo_join", i)
     ELSE goto("undo_queues", 0) /\ UNCHANGED stopped
  /\ UNCHANGED <<made, caller_vars, thread_vars>>

undo_join ==
  /\ owner = "undo_join" /\ thread[i] = "ended"
  /\ goto("undo_stop", i + 1)
  /\ UNCHANGED <<made, stopped, caller_vars, thread_vars>>

undo_queue ==
  /\ owner = "undo_queues"
  /\ IF i \in made THEN made' = made \ {i} /\ goto(owner, i + 1)
                   ELSE goto("failed", 0) /\ UNCHANGED made
  /\ UNCHANGED <<stopped, caller_vars, thread_vars>>

init_parallel_db == create_queue \/ pthread_create \/ undo_stop \/ undo_join \/ undo_queue

-----------------------------------------------------------------------------
(* destroy(), when no one calls set() and geta() any more. *)

destroy ==
  /\ owner = "up" /\ goto("stop", 0)
  /\ UNCHANGED <<made, stopped, caller_vars, thread_vars>>

destroy_stop ==
  /\ owner = "stop"
  /\ stopped' = stopped \cup {i} /\ goto("join", i)
  /\ UNCHANGED <<made, caller_vars, thread_vars>>

destroy_join ==
  /\ owner = "join" /\ thread[i] = "ended"
  /\ IF i + 1 = N_SUBS THEN goto("free", 0) ELSE goto("stop", i + 1)
  /\ UNCHANGED <<made, stopped, caller_vars, thread_vars>>

destroy_free ==
  /\ owner = "free"
  /\ made' = made \ {i}
  /\ IF i + 1 = N_SUBS THEN goto("down", 0) ELSE goto(owner, i + 1)
  /\ UNCHANGED <<stopped, caller_vars, thread_vars>>

-----------------------------------------------------------------------------
(* set() and geta() of a caller. *)

(* The assertion of get_queue().                                           *)
InRange(t) == t \in Sub

(* Mutant of push: the request goes to the head of the queue.              *)
push_head(o) ==
  LET t == string_hash(o.key)
  IN  InRange(t) /\ requests' = [requests EXCEPT ![t] = <<o>> \o @]

push(o) ==
  LET t == string_hash(o.key)
  IN  InRange(t) /\ requests' = [requests EXCEPT ![t] = Append(@, o)]

set_or_geta(c) ==
  /\ owner = "up" /\ calls[c] < Calls[c]
  /\ calls' = [calls EXCEPT ![c] = @ + 1]
  /\ \E o \in Call(c, calls'[c]) : push(o)
  /\ UNCHANGED <<owner, i, made, stopped, thread_vars>>

-----------------------------------------------------------------------------
(* db_thread(), for the part t. *)

pop(t) ==
  /\ thread[t] = "pop" /\ requests[t] # <<>>
  /\ request' = [request EXCEPT ![t] = Head(requests[t])]
  /\ requests' = [requests EXCEPT ![t] = Tail(@)]
  /\ thread' = [thread EXCEPT ![t] = Head(requests[t]).kind]
  /\ UNCHANGED <<owner, i, made, stopped, copied, store, calls, answers>>

pop_null(t) ==
  /\ thread[t] = "pop" /\ requests[t] = <<>> /\ t \in stopped
  /\ thread' = [thread EXCEPT ![t] = "ended"]
  /\ UNCHANGED <<owner, i, made, stopped, request, copied, store, answers, caller_vars>>

set_inst(t) ==
  /\ thread[t] = "set"
  /\ store' = [store EXCEPT ![request[t].key] = request[t].value]
  /\ thread' = [thread EXCEPT ![t] = "pop"]
  /\ UNCHANGED <<owner, i, made, stopped, request, copied, answers, caller_vars>>

get(t) ==
  /\ thread[t] = "get"
  /\ copied' = [copied EXCEPT ![t] = store[request[t].key]]
  /\ thread' = [thread EXCEPT ![t] = "result"]
  /\ UNCHANGED <<owner, i, made, stopped, request, store, answers, caller_vars>>

result_func(t) ==
  /\ thread[t] = "result"
  /\ answers' = answers \cup {<<request[t], copied[t]>>}
  /\ thread' = [thread EXCEPT ![t] = "pop"]
  /\ UNCHANGED <<owner, i, made, stopped, request, copied, store, caller_vars>>

db_thread(t) == pop(t) \/ pop_null(t) \/ set_inst(t) \/ get(t) \/ result_func(t)

-----------------------------------------------------------------------------
NoCall == [kind |-> "none"]

Init ==
  /\ owner = "create_queues" /\ i = 0
  /\ made = {} /\ stopped = {}
  /\ requests = [t \in Sub |-> <<>>]
  /\ thread = [t \in Sub |-> "none"] /\ request = [t \in Sub |-> NoCall]
  /\ copied = [t \in Sub |-> Null]
  /\ store = [k \in Key |-> Null]
  /\ calls = [c \in Caller |-> 0] /\ answers = {}

manage == init_parallel_db \/ destroy_stop \/ destroy_join \/ destroy_free

Next ==
  \/ manage \/ destroy
  \/ \E c \in Caller : set_or_geta(c)
  \/ \E t \in Sub : db_thread(t)

-----------------------------------------------------------------------------
(* The variables keep their types. *)
TypeOK ==
  /\ owner \in OwnerPlace /\ i \in 0..N_SUBS
  /\ made \subseteq Sub /\ stopped \subseteq Sub
  /\ requests \in [Sub -> Seq(Get \cup Set)]
  /\ thread \in [Sub -> {"none", "pop", "get", "set", "result", "ended"}]
  /\ request \in [Sub -> Get \cup Set \cup {NoCall}]
  /\ copied \in [Sub -> Value \cup {Null}]
  /\ store \in [Key -> Value \cup {Null}]
  /\ calls \in [Caller -> 0..MaxCalls]
  /\ answers \subseteq Get \X (Value \cup {Null})

(* A queue exists as long as a thread pops from it or requests wait in it, *)
(* and nothing is left when init_parallel_db() fails or destroy() returns. *)
QueuesOutliveThreads ==
  /\ \A t \in Sub : thread[t] \notin {"none", "ended"} \/ requests[t] # <<>> => t \in made
  /\ owner \in {"failed", "down"} =>
       made = {} /\ \A t \in Sub : thread[t] \in {"none", "ended"}

-----------------------------------------------------------------------------
(* As `struct vdb' shows it. *)
Waiting ==
  (UNION {{requests[t][n] : n \in 1..Len(requests[t])} : t \in Sub})
    \cup {request[t] : t \in {s \in Sub : thread[s] \in {"get", "set"}}}

Found == {<<request[t], copied[t]>> : t \in {s \in Sub : thread[s] = "result"}}
=============================================================================
