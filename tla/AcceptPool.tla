----------------------------- MODULE AcceptPool -----------------------------
(***************************************************************************)
(* The pool of working processes that share one listening socket           *)
(* (MailServer.serve and WorkingProcess.run in server/mail_server.py).     *)
(*                                                                         *)
(* Every process blocks in select() on the inherited listening socket and  *)
(* on its own clients.  A pending connection makes the socket readable for *)
(* all of them at once; one accept() gets it, and a loser waits inside     *)
(* accept() for READ_TIMEOUT.  The timeout is an exception that run()      *)
(* answers by leaving its loop for good.                                   *)
(*                                                                         *)
(* What a process does with its clients is the subject of WorkerLoop; here *)
(* a client is only served, finished, or the cause of an exception.        *)
(***************************************************************************)
EXTENDS Naturals, FiniteSets

CONSTANTS
  Worker,     (* the working processes: processes_cnt of them              *)
  Conn,       (* the connections clients open, each at most once           *)
  BacklogMax  (* completed connections the kernel keeps for listen(0)      *)

ASSUME PoolAssumption ==
  /\ Worker # {}
  /\ BacklogMax \in Nat \ {0}

VARIABLES
  pc,       (* where each process is in run()                              *)
  pending,  (* connections completed by the kernel and not yet accepted    *)
  clients,  (* server.clients, of which each process has its own copy      *)
  left      (* connections that ended, or that were never opened again     *)

pool_vars == <<pc, pending, clients, left>>

(* select  -- at the head of the loop, about to call select()              *)
(* accept  -- select() reported the listening socket, accept() not over    *)
(* serve   -- the handlers of the clients that select() reported           *)
(* timeout, error, interrupt -- run() is over: by the timeout of accept(), *)
(*            by an exception of a handler, by KeyboardInterrupt           *)
Running == {"select", "accept", "serve"}
Ended   == {"timeout", "error", "interrupt"}

Opened == pending \cup left \cup UNION {clients[w] : w \in Worker}

Goto(w, from, to) ==
  /\ pc[w] = from
  /\ pc' = [pc EXCEPT ![w] = to]

-----------------------------------------------------------------------------
(* The clients' side: the kernel completes a connection while the backlog  *)
(* has room; it makes the listening socket readable for every process.     *)
Connect(c) ==
  /\ c \notin Opened
  /\ Cardinality(pending) < BacklogMax
  /\ pending' = pending \cup {c}
  /\ UNCHANGED <<pc, clients, left>>

(* Mutant of SelectListener: a process that has clients does not accept.   *)
SelectListenerIdle(w) ==
  /\ pending # {}
  /\ clients[w] = {}
  /\ Goto(w, "select", "accept")
  /\ UNCHANGED <<pending, clients, left>>

(* select() returns: the listening socket comes first in rfds, so accept() *)
(* is called before any client is looked at.                               *)
SelectListener(w) ==
  /\ pending # {}
  /\ Goto(w, "select", "accept")
  /\ UNCHANGED <<pending, clients, left>>

(* select() returns only sockets of clients.                               *)
SelectClients(w) ==
  /\ pending = {}
  /\ clients[w] # {}
  /\ Goto(w, "select", "serve")
  /\ UNCHANGED <<pending, clients, left>>

(* accept() returns a connection, stored in server.clients of this process *)
Accept(w) ==
  /\ Goto(w, "accept", "serve")
  /\ \E c \in pending :
       /\ pending' = pending \ {c}
       /\ clients' = [clients EXCEPT ![w] = @ \cup {c}]
  /\ UNCHANGED left

(* Mutant of AcceptTimeout: the wait gives up on a connection that is there *)
AcceptTimeoutEarly(w) ==
  /\ Goto(w, "accept", "timeout")
  /\ UNCHANGED <<pending, clients, left>>

(* Every connection went to other processes and none came for READ_TIMEOUT *)
(* seconds: socket.timeout leaves the loop of run().                       *)
AcceptTimeout(w) ==
  /\ pending = {}
  /\ Goto(w, "accept", "timeout")
  /\ UNCHANGED <<pending, clients, left>>

(* QUIT_write of a client, after which server.clients forgets it.          *)
FinishClient(w, c) ==
  /\ pc[w] = "serve"
  /\ c \in clients[w]
  /\ clients' = [clients EXCEPT ![w] = @ \ {c}]
  /\ left' = left \cup {c}
  /\ UNCHANGED <<pc, pending>>

(* The loops over rfds and wfds are over.                                  *)
EndIteration(w) ==
  /\ Goto(w, "serve", "select")
  /\ UNCHANGED <<pending, clients, left>>

(* Mutant of HandlerError: run() goes on after the handlers that are left. *)
HandlerErrorResumed(w) ==
  /\ clients[w] # {}
  /\ Goto(w, "serve", "resume")
  /\ UNCHANGED <<pending, clients, left>>

(* A handler of one client raises: ValueError is caught and leaves the     *)
(* loop, any other exception ends run() too.                               *)
HandlerError(w) ==
  /\ clients[w] # {}
  /\ Goto(w, "serve", "error")
  /\ UNCHANGED <<pending, clients, left>>

(* KeyboardInterrupt, wherever the process is.                             *)
Interrupt(w) ==
  /\ pc[w] \in Running
  /\ pc' = [pc EXCEPT ![w] = "interrupt"]
  /\ UNCHANGED <<pending, clients, left>>

-----------------------------------------------------------------------------
PoolInit ==
  /\ pc = [w \in Worker |-> "select"]
  /\ pending = {}
  /\ clients = [w \in Worker |-> {}]
  /\ left = {}

Iterate(w) ==
  \/ SelectListener(w)
  \/ SelectClients(w)
  \/ Accept(w)
  \/ AcceptTimeout(w)
  \/ EndIteration(w)

PoolNext ==
  \/ \E c \in Conn : Connect(c)
  \/ \E w \in Worker :
       \/ Iterate(w)
       \/ \E c \in Conn : FinishClient(w, c)
       \/ HandlerError(w)
       \/ Interrupt(w)

(* The operating system schedules every process; nothing obliges clients   *)
(* to connect or to leave, handlers to raise, or anyone to interrupt.      *)
PoolFairness == \A w \in Worker : WF_pool_vars(Iterate(w))

PoolSpec == PoolInit /\ [][PoolNext]_pool_vars /\ PoolFairness

-----------------------------------------------------------------------------
PoolTypeOK ==
  /\ pc \in [Worker -> Running \cup Ended]
  /\ pending \subseteq Conn
  /\ clients \in [Worker -> SUBSET Conn]
  /\ left \subseteq Conn

(* Losing the race for accept() costs a process its life, yet never the    *)
(* last one: when every process has left run(), at least one of them left  *)
(* it by an exception of a handler or by an interrupt.                     *)
RaceLeavesAWorker ==
  (\A w \in Worker : pc[w] \in Ended) => \E w \in Worker : pc[w] # "timeout"

(* A connection in the backlog is accepted in the end, unless a process    *)
(* ended by something else than the race.                                  *)
PendingAccepted ==
  \A c \in Conn :
    c \in pending ~> \/ c \notin pending
                     \/ \E w \in Worker : pc[w] \in {"error", "interrupt"}

=============================================================================
