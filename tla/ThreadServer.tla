---------------------------- MODULE ThreadServer ----------------------------
(***************************************************************************)
(* server_thread: a server with a thread per connection.                   *)
(*                                                                         *)
(* The main thread accepts, starts a thread for each connection and keeps  *)
(* its `struct client_thread' in a list under threads.lock.  A thread that *)
(* ends takes its entry out of the list and frees it, as long as the       *)
(* server is in SERVER_RUNNING; afterwards the main thread joins whoever   *)
(* is left.  SIGTERM and SIGINT clear `running' in whichever thread the    *)
(* kernel picks.                                                           *)
(***************************************************************************)
EXTENDS Naturals, FiniteSets, SequencesExt

CONSTANTS Client     (* connections, each of them made at most once         *)

NoThread == "NOBODY"

ThreadAssumption == IsFiniteSet(Client) /\ NoThread \notin Client

VARIABLES
  serving,     (* `running', the flag that the signal handler clears        *)
  main,        (* where the main thread is                                  *)
  new_socket,  (* the connection it has accepted                            *)
  server_state,(* server->state                                            *)
  state_lock,  (* who holds it for reading, or {"main"} for writing         *)
  n, list,     (* threads->n and threads->list, the head first              *)
  lock,        (* who holds threads->lock for writing                       *)
  freed,       (* entries that were freed                                   *)
  thread,      (* where the thread of each connection is                    *)
  socket,      (* the connection, as the client and the kernel see it       *)
  joined       (* the entry that join_threads() is at                       *)

conn_vars == <<thread, socket>>
list_vars == <<n, list, freed>>
thread_vars ==
  <<serving, main, new_socket, server_state, state_lock, lock, joined, list_vars, conn_vars>>

(* loop -- tests serving          call -- about to enter accept()           *)
(* accept -- blocked in accept()  crashed, aborted, exited -- the process   *)
(* is gone: a bad pointer, an assertion, fatal()                            *)
MainPlace == {"loop", "call", "accept", "lock", "create", "unlock", "close", "state",
              "set_state", "join_lock", "join", "next", "joined", "destroy", "ended",
              "crashed", "aborted", "exited"}

(* recv -- blocked in recv()      removed -- its entry is freed             *)
ThreadPlace == {"none", "init", "loop", "recv", "close", "rdlock", "state",
                "remove", "removed", "unlock", "ended"}

(* none, backlog: not accepted.  idle, asked: a request has arrived or not. *)
(* hung: the client has closed.  closed: the server has, too.               *)
Connection == {"none", "backlog", "idle", "asked", "hung", "closed"}

Gone == {"ended", "crashed", "aborted", "exited"}
Alive == main \notin Gone

main_to(place) == main' = place
thread_to(c, place) == thread' = [thread EXCEPT ![c] = place]

-----------------------------------------------------------------------------
(* Clients, and a signal.  The handler runs in some thread; it breaks off  *)
(* the call in which this thread is blocked, and no other.                 *)

Connects(c) == socket[c] = "none" /\ socket' = [socket EXCEPT ![c] = "backlog"]
Asks(c) == socket[c] = "idle" /\ socket' = [socket EXCEPT ![c] = "asked"]
HangsUp(c) == socket[c] \in {"idle", "asked"} /\ socket' = [socket EXCEPT ![c] = "hung"]

peer(c) ==
  /\ Connects(c) \/ Asks(c) \/ HangsUp(c)
  /\ UNCHANGED <<serving, main, new_socket, server_state, state_lock, lock, joined, list_vars, thread>>

thread_term_handler ==
  /\ serving /\ serving' = FALSE
  /\ \/ main_to(IF main = "accept" THEN "loop" ELSE main) /\ UNCHANGED thread
     \/ \E c \in Client :
          /\ thread[c] \notin {"none", "ended"}
          /\ thread_to(c, IF thread[c] = "recv" THEN "loop" ELSE thread[c])
          /\ UNCHANGED main
  /\ UNCHANGED <<new_socket, server_state, state_lock, lock, joined, list_vars, socket>>

-----------------------------------------------------------------------------
(* run_server() *)

main_loop ==
  /\ \/ main = "loop" /\ main_to(IF serving THEN "call" ELSE "state")
     \/ main = "call" /\ main_to("accept")
  /\ UNCHANGED <<serving, new_socket, server_state, state_lock, lock, joined, list_vars, conn_vars>>

accept ==
  /\ main = "accept"
  /\ \E c \in Client :
       /\ socket[c] = "backlog"
       /\ socket' = [socket EXCEPT ![c] = "idle"]
       /\ new_socket' = c
  /\ main_to("lock")
  /\ UNCHANGED <<serving, server_state, state_lock, lock, joined, list_vars, thread>>

(* Any other error, as EMFILE, leaves run_server(). *)
accept_fails ==
  /\ main = "accept" /\ \E c \in Client : socket[c] = "backlog"
  /\ main_to("destroy")
  /\ UNCHANGED <<serving, new_socket, server_state, state_lock, lock, joined, list_vars, conn_vars>>

(* new_thread().  pthread_rwlock_wrlock() gives EDEADLK to the thread that *)
(* holds the lock, which fatal() makes an exit().                          *)
wrlock(place, next) ==
  /\ main = place
  /\ \/ lock = NoThread /\ lock' = "main" /\ main_to(next)
     \/ lock = "main" /\ main_to("exited") /\ UNCHANGED lock

new_thread_lock ==
  /\ wrlock("lock", "create")
  /\ UNCHANGED <<serving, new_socket, server_state, state_lock, joined, list_vars, conn_vars>>

new_thread ==
  /\ main = "create"
  /\ n' = n + 1
  /\ list' = <<new_socket>> \o list
  /\ thread_to(new_socket, "init")
  /\ main_to("unlock")
  /\ UNCHANGED <<serving, new_socket, server_state, state_lock, lock, joined, freed, socket>>

(* pthread_create() fails: the lock is not released, n stays raised, and   *)
(* the caller closes the socket.                                           *)
new_thread_fails ==
  /\ main = "create"
  /\ n' = n + 1
  /\ freed' = freed \cup {new_socket}
  /\ main_to("close")
  /\ UNCHANGED <<serving, new_socket, server_state, state_lock, lock, joined, list, conn_vars>>

(* malloc() fails before anything is done. *)
no_memory ==
  /\ main = "lock"
  /\ main_to("close")
  /\ UNCHANGED <<serving, new_socket, server_state, state_lock, lock, joined, list_vars, conn_vars>>

new_thread_unlock ==
  /\ main = "unlock"
  /\ lock' = NoThread /\ main_to("loop")
  /\ UNCHANGED <<serving, new_socket, server_state, state_lock, joined, list_vars, conn_vars>>

close_new ==
  /\ main = "close"
  /\ socket' = [socket EXCEPT ![new_socket] = "closed"]
  /\ main_to("loop")
  /\ UNCHANGED <<serving, new_socket, server_state, state_lock, lock, joined, list_vars, thread>>

shutdown ==
  /\ \/ /\ main = "state" /\ state_lock = {}
        /\ state_lock' = {"main"} /\ server_state' = "SERVER_SHUTDOWN"
        /\ main_to("set_state")
     \/ /\ main = "set_state"
        /\ state_lock' = {} /\ UNCHANGED server_state
        /\ main_to("join_lock")
  /\ UNCHANGED <<serving, new_socket, lock, joined, list_vars, conn_vars>>

run_server ==
  \/ main_loop \/ accept \/ accept_fails \/ new_thread_lock \/ new_thread \/ new_thread_fails
  \/ no_memory \/ new_thread_unlock \/ close_new \/ shutdown

-----------------------------------------------------------------------------
(* join_threads() *)

join_lock ==
  /\ wrlock("join_lock", "join")
  /\ joined' = IF list = <<>> THEN NoThread ELSE Head(list)
  /\ UNCHANGED <<serving, new_socket, server_state, state_lock, list_vars, conn_vars>>

(* Mutant of remove_unsafe: the entry is not uncounted.                    *)
remove_uncounted(c) ==
  /\ list' = RemoveFirst(list, c)
  /\ freed' = freed \cup {c}
  /\ UNCHANGED n

remove_unsafe(c) ==
  /\ n' = n - 1
  /\ list' = RemoveFirst(list, c)
  /\ freed' = freed \cup {c}

(* Mutant of join_thread: the thread is not waited for.                    *)
join_hasty ==
  /\ main = "join" /\ joined # NoThread
  /\ remove_unsafe(joined)
  /\ main_to("next")
  /\ UNCHANGED <<serving, new_socket, server_state, state_lock, lock, joined, conn_vars>>

join_thread ==
  /\ main = "join" /\ joined # NoThread /\ thread[joined] = "ended"
  /\ remove_unsafe(joined)
  /\ main_to("next")
  /\ UNCHANGED <<serving, new_socket, server_state, state_lock, lock, joined, conn_vars>>

(* LIST_FOREACH reads the link of the entry that was just freed: it is     *)
(* still there, which leads to the head of what remains, or it is not.     *)
join_next ==
  /\ main = "next"
  /\ \/ joined' = (IF list = <<>> THEN NoThread ELSE Head(list)) /\ main_to("join")
     \/ main_to("crashed") /\ UNCHANGED joined
  /\ UNCHANGED <<serving, new_socket, server_state, state_lock, lock, list_vars, conn_vars>>

join_end ==
  /\ main = "join" /\ joined = NoThread
  /\ IF n = 0 THEN lock' = NoThread /\ main_to("destroy")
              ELSE main_to("aborted") /\ UNCHANGED lock
  /\ UNCHANGED <<serving, new_socket, server_state, state_lock, joined, list_vars, conn_vars>>

thread_destroy_server ==
  /\ main = "destroy"
  /\ main_to(IF n = 0 THEN "ended" ELSE "aborted")
  /\ UNCHANGED <<serving, new_socket, server_state, state_lock, lock, joined, list_vars, conn_vars>>

join_threads == join_lock \/ join_thread \/ join_next \/ join_end

-----------------------------------------------------------------------------
(* thread_func() of the thread of c. *)

(* Without a buffer or a mutex the thread ends at once, as it is.          *)
init_cnct(c) ==
  /\ thread[c] = "init"
  /\ thread_to(c, "loop") \/ thread_to(c, "ended")
  /\ UNCHANGED <<serving, main, new_socket, server_state, state_lock, lock, joined, list_vars, socket>>

thread_loop(c) ==
  /\ thread[c] = "loop"
  /\ thread_to(c, IF serving THEN "recv" ELSE "close")
  /\ UNCHANGED <<serving, main, new_socket, server_state, state_lock, lock, joined, list_vars, socket>>

(* process_cnct(): a request, or the end of the connection.                *)
process_cnct(c) ==
  /\ thread[c] = "recv"
  /\ \/ /\ socket[c] = "asked"
        /\ socket' = [socket EXCEPT ![c] = "idle"]
        /\ thread_to(c, "loop") \/ thread_to(c, "close")
     \/ socket[c] = "hung" /\ thread_to(c, "close") /\ UNCHANGED socket
  /\ UNCHANGED <<serving, main, new_socket, server_state, state_lock, lock, joined, list_vars>>

thread_close(c) ==
  /\ thread[c] = "close"
  /\ socket' = [socket EXCEPT ![c] = "closed"]
  /\ thread_to(c, "rdlock")
  /\ UNCHANGED <<serving, main, new_socket, server_state, state_lock, lock, joined, list_vars>>

thread_rdlock(c) ==
  /\ thread[c] = "rdlock" /\ state_lock # {"main"}
  /\ state_lock' = state_lock \cup {c}
  /\ thread_to(c, IF server_state = "SERVER_RUNNING" THEN "remove" ELSE "unlock")
  /\ UNCHANGED <<serving, main, new_socket, server_state, lock, joined, list_vars, socket>>

(* remove_thread(), which takes threads.lock.                              *)
remove_thread(c) ==
  /\ thread[c] = "remove" /\ lock = NoThread
  /\ remove_unsafe(c)
  /\ thread_to(c, "removed")
  /\ UNCHANGED <<serving, main, new_socket, server_state, state_lock, lock, joined, socket>>

(* thread->server is read although the entry was freed: it is still there, *)
(* or it is not.                                                           *)
thread_unlock(c) ==
  /\ thread[c] \in {"removed", "unlock"}
  /\ \/ state_lock' = state_lock \ {c} /\ thread_to(c, "ended") /\ UNCHANGED main
     \/ thread[c] = "removed" /\ main_to("crashed") /\ UNCHANGED <<state_lock, thread>>
  /\ UNCHANGED <<serving, new_socket, server_state, lock, joined, list_vars, socket>>

thread_func(c) ==
  \/ init_cnct(c) \/ thread_loop(c) \/ process_cnct(c) \/ thread_close(c)
  \/ thread_rdlock(c) \/ remove_thread(c) \/ thread_unlock(c)

-----------------------------------------------------------------------------
ThreadInit ==
  /\ serving = TRUE /\ main = "loop" /\ new_socket = NoThread
  /\ server_state = "SERVER_RUNNING" /\ state_lock = {}
  /\ n = 0 /\ list = <<>> /\ lock = NoThread /\ freed = {} /\ joined = NoThread
  /\ thread = [c \in Client |-> "none"]
  /\ socket = [c \in Client |-> "none"]

main_thread == Alive /\ (run_server \/ join_threads \/ thread_destroy_server)

ThreadNext ==
  \/ main_thread
  \/ Alive /\ thread_term_handler
  \/ Alive /\ \E c \in Client : peer(c) \/ thread_func(c)

(* Every thread that is not blocked goes on.  Nothing makes clients ask,   *)
(* hang up or connect, and no signal has to come.                          *)
ThreadFairness ==
  /\ WF_thread_vars(main_thread)
  /\ \A c \in Client : WF_thread_vars(Alive /\ thread_func(c))

ThreadSpec == ThreadInit /\ [][ThreadNext]_thread_vars /\ ThreadFairness

-----------------------------------------------------------------------------
(* The variables keep their types. *)
ThreadTypeOK ==
  /\ serving \in BOOLEAN /\ main \in MainPlace
  /\ new_socket \in Client \cup {NoThread} /\ joined \in Client \cup {NoThread}
  /\ server_state \in {"SERVER_RUNNING", "SERVER_SHUTDOWN"}
  /\ state_lock \in (SUBSET Client) \cup {{"main"}}
  /\ n \in 0..Cardinality(Client) + 1 /\ list \in Seq(Client)
  /\ lock \in {"main", NoThread} /\ freed \subseteq Client
  /\ thread \in [Client -> ThreadPlace] /\ socket \in [Client -> Connection]

Listed == {list[k] : k \in 1..Len(list)}

(* A freed entry is in nobody's hands: not in the list, not with a thread  *)
(* that will use it, not with who is about to wait for it or to fill it.   *)
NoneFreedInUse ==
  /\ Len(list) = Cardinality(Listed)
  /\ \A c \in freed :
       /\ c \notin Listed
       /\ thread[c] \in {"none", "removed", "ended"}
       /\ main = "join" => joined # c
       /\ main = "create" => new_socket # c

(* The code of server_thread reads freed entries in two places: a thread   *)
(* that has removed its own reads thread->server to unlock the state       *)
(* (`removed'), and LIST_FOREACH reads the link of the entry that was just *)
(* joined (main = "next").  This says that there is no third: an entry is  *)
(* freed once, by its thread or by join_threads() and never by both, and   *)
(* nothing else in the list, in a thread or in the main thread uses it     *)
(* afterwards.                                                             *)
FreedReadAtTwoPlaces == ThreadTypeOK /\ NoneFreedInUse

(* The one way to hold threads.lock for ever is a failed pthread_create(). *)
LockLost == lock = "main" /\ main \in {"state", "exited"}

(* A failing accept() leaves run_server() with the threads unjoined, and   *)
(* destroy_threads() asserts that there are none.                          *)
AcceptFailed == main = "aborted" /\ server_state = "SERVER_RUNNING"

(* The signal counts as soon as run_server() tests the flag again: now, or *)
(* with the next connection if the signal came to another thread or just   *)
(* before accept(), in which the main thread then waits.                   *)
StopNoticed == ~serving /\ (main \in {"call", "accept"} => \E c \in Client : socket[c] = "backlog")

(* Once the signal is noticed and every client hangs up or asks on,        *)
(* server_thread ends: no thread is waited for in vain, neither lock is in *)
(* the way, and the assertion of join_threads() on n holds.  But it may    *)
(* crash where it reads a freed entry, and a failed pthread_create() or    *)
(* accept() spoils the end.                                                *)
ThreadsEnd ==
  (\A c \in Client : []<>(socket[c] # "idle"))
    => (StopNoticed ~> main \in {"ended", "crashed"} \/ LockLost \/ AcceptFailed)
=============================================================================
