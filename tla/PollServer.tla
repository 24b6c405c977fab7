----------------------------- MODULE PollServer -----------------------------
(***************************************************************************)
(* server_poll: one thread that polls its clients, and a database whose    *)
(* threads answer a get through a pipe.                                    *)
(*                                                                         *)
(* A client occupies a slot.  A get that it asks for outlives the          *)
(* connection: its answer comes through the pipe with the number of the    *)
(* slot.  queue_cnt counts the gets of a slot that are under way; until it *)
(* is zero, a slot that was left is in CNCT_WAIT and is not given to       *)
(* another client.                                                         *)
(*                                                                         *)
(* The database is what Vdb says of it: it takes gets over, finds values   *)
(* in any order and calls async_response() once for each.                  *)
(***************************************************************************)
EXTENDS Naturals, Sequences, FiniteSets

CONSTANTS
  Conn,      (* connections, each made at most once                         *)
  max_cnct,  (* slots for connections                                       *)
  Quota,     (* bound: the commands that each connection sends              *)
  Eager,     (* those that send without waiting for the last reply          *)
  PipeSize   (* answers that the pipe holds                                 *)

NOBODY == "NOBODY"

(* What stands for no connection is none. *)
ASSUME PollAssumption == max_cnct \in Nat /\ NOBODY \notin Conn

(* The entries of fds: those of the slots, of the bound socket and of the  *)
(* control pipe.                                                           *)
Slot == 0..(max_cnct - 1)
bindedfd == max_cnct
controlfd == max_cnct + 1

VARIABLES
  link,      (* each connection, as the kernel sees it                      *)
  sent,      (* commands each client has sent                               *)
  stream,    (* those that the server has not received                      *)
  received,  (* the commands to which each client has a reply               *)
  running,   (* the flag that the signal handler clears                     *)
  pc,        (* where the server is                                         *)
  revents,   (* what poll() has reported and is not processed               *)
  fd,        (* the connection in each slot, or NOBODY for -1               *)
  pollout,   (* events has POLLOUT                                          *)
  state,     (* cnct->state                                                 *)
  queue_cnt, (* cnct->queue_cnt                                             *)
  buf,       (* commands received and not processed                         *)
  wrbuf,     (* replies to be sent                                          *)
  asked,     (* gets ever asked of the database                             *)
  waiting,   (* gets the database has taken over and not answered           *)
  pipe       (* answers in the control pipe                                 *)

client_vars == <<link, sent, stream, received>>
slot_vars == <<fd, pollout, state, queue_cnt, buf, wrbuf>>
db_vars == <<asked, waiting>>
poll_vars == <<client_vars, running, pc, revents, slot_vars, db_vars, pipe>>

Command == [by : Conn, n : Nat, kind : {"get", "set"}]

(* none, backlog: not accepted.  hung: the client has closed.  closed: the *)
(* server has.                                                             *)
Link == {"none", "backlog", "open", "hung", "closed"}

Place == {"loop", "poll", "fds", "control", "destroy", "ended", "aborted"}

go(place) == pc' = place

-----------------------------------------------------------------------------
(* Clients and the signal *)

Connect(c) ==
  /\ link[c] = "none" /\ link' = [link EXCEPT ![c] = "backlog"]
  /\ UNCHANGED <<sent, stream, received>>

Send(c) ==
  /\ link[c] \in {"backlog", "open"} /\ sent[c] < Quota[c]
  /\ c \in Eager \/ Len(received[c]) = sent[c]
  /\ sent' = [sent EXCEPT ![c] = @ + 1]
  /\ \E t \in {"get", "set"} :
       stream' = [stream EXCEPT ![c] = Append(@, [by |-> c, n |-> sent'[c], kind |-> t])]
  /\ UNCHANGED <<link, received>>

HangUp(c) ==
  /\ link[c] = "open" /\ link' = [link EXCEPT ![c] = "hung"]
  /\ UNCHANGED <<sent, stream, received>>

client_acts(c) ==
  /\ Connect(c) \/ Send(c) \/ HangUp(c)
  /\ UNCHANGED <<running, pc, revents, slot_vars, db_vars, pipe>>

(* It breaks off poll() if it comes to the thread of the server.           *)
term_handler ==
  /\ running /\ running' = FALSE
  /\ pc' = pc \/ (pc = "poll" /\ go("loop"))
  /\ UNCHANGED <<client_vars, revents, slot_vars, db_vars, pipe>>

-----------------------------------------------------------------------------
(* The database, and async_response() in its threads: a write to a full    *)
(* pipe blocks.                                                            *)

async_response(r) ==
  /\ r \in waiting /\ Len(pipe) < PipeSize
  /\ waiting' = waiting \ {r} /\ pipe' = Append(pipe, r)
  /\ UNCHANGED <<client_vars, running, pc, revents, slot_vars, asked>>

-----------------------------------------------------------------------------
(* poll_fds(): the control pipe first, then the bound socket, then the     *)
(* slots from the highest.                                                 *)

Named(s) == {event \in revents : event[1] = s}
Reported(s, what) == <<s, what>> \in revents

Events ==
  {<<controlfd, "POLLIN">> : k \in 1..Len(pipe)}
    \cup {<<bindedfd, "POLLIN">> : c \in {d \in Conn : link[d] = "backlog"}}
    \cup {<<s, "POLLIN">> : s \in {u \in Slot : fd[u] # NOBODY /\ stream[fd[u]] # <<>>}}
    \cup {<<s, "POLLHUP">> : s \in {u \in Slot : fd[u] # NOBODY /\ link[fd[u]] = "hung"}}
    \cup {<<s, "POLLOUT">> : s \in {u \in Slot : fd[u] # NOBODY /\ pollout[u]}}

test_running ==
  /\ pc = "loop" /\ running
  /\ go("poll")
  /\ UNCHANGED <<client_vars, running, revents, slot_vars, db_vars, pipe>>

poll ==
  /\ pc = "poll" /\ Events # {}
  /\ revents' = Events
  /\ go(IF pipe # <<>> THEN "control" ELSE "fds")
  /\ UNCHANGED <<client_vars, running, slot_vars, db_vars, pipe>>

(* dec_queue_cnt() *)
answered(s) ==
  /\ queue_cnt' = [queue_cnt EXCEPT ![s] = @ - 1]
  /\ state' = IF state[s] = "WAIT" /\ queue_cnt[s] = 1
              THEN [state EXCEPT ![s] = "SHUT"] ELSE state

(* Mutant of process_control: POLLOUT is not set.                          *)
process_control_quiet ==
  /\ pc = "control" /\ pipe # <<>>
  /\ pipe' = Tail(pipe)
  /\ LET s == Head(pipe).slot
     IN  /\ answered(s)
         /\ wrbuf' = IF fd[s] = NOBODY THEN wrbuf
                     ELSE [wrbuf EXCEPT ![s] = Append(@, Head(pipe).cmd)]
  /\ UNCHANGED <<client_vars, running, pc, revents, fd, pollout, buf, db_vars>>

(* Mutant of process_control: the answers of a slot that was left are not  *)
(* counted.                                                                *)
process_control_late ==
  /\ pc = "control" /\ pipe # <<>>
  /\ pipe' = Tail(pipe)
  /\ LET s == Head(pipe).slot
     IN  IF fd[s] = NOBODY THEN UNCHANGED slot_vars
         ELSE /\ answered(s)
              /\ wrbuf' = [wrbuf EXCEPT ![s] = Append(@, Head(pipe).cmd)]
              /\ pollout' = [pollout EXCEPT ![s] = TRUE]
              /\ UNCHANGED <<fd, buf>>
  /\ UNCHANGED <<client_vars, running, pc, revents, db_vars>>

(* process_control(), one answer.  Without a client it is dropped.         *)
process_control ==
  /\ pc = "control" /\ pipe # <<>>
  /\ pipe' = Tail(pipe)
  /\ LET s == Head(pipe).slot
     IN  /\ answered(s)
         /\ IF fd[s] = NOBODY THEN UNCHANGED <<wrbuf, pollout>>
            ELSE /\ wrbuf' = [wrbuf EXCEPT ![s] = Append(@, Head(pipe).cmd)]
                 /\ pollout' = [pollout EXCEPT ![s] = TRUE]
  /\ UNCHANGED <<client_vars, running, pc, revents, fd, buf, db_vars>>

process_control_end ==
  /\ pc = "control" /\ pipe = <<>>
  /\ go("fds")
  /\ UNCHANGED <<client_vars, running, revents, slot_vars, db_vars, pipe>>

(* add_fd(): the first slot in CNCT_SHUT, or the connection is closed.     *)
Free == {s \in Slot : state[s] = "SHUT"}

(* Mutant of add_fd: any slot without a socket will do.                    *)
add_fd_empty(c, s) ==
  /\ fd[s] = NOBODY
  /\ fd' = [fd EXCEPT ![s] = c]
  /\ queue_cnt' = [queue_cnt EXCEPT ![s] = 0]
  /\ state' = [state EXCEPT ![s] = "OPEN"]
  /\ buf' = [buf EXCEPT ![s] = <<>>]

add_fd(c, s) ==
  /\ s \in Free /\ \A t \in Free : s <= t
  /\ fd' = [fd EXCEPT ![s] = c]
  /\ queue_cnt' = [queue_cnt EXCEPT ![s] = 0]
  /\ state' = [state EXCEPT ![s] = "OPEN"]
  /\ buf' = [buf EXCEPT ![s] = <<>>]

accept_connection ==
  /\ pc = "fds" /\ Named(bindedfd) # {}
  /\ \E c \in Conn :
       /\ link[c] = "backlog"
       /\ \/ /\ \E s \in Slot : add_fd(c, s)
             /\ link' = [link EXCEPT ![c] = "open"]
          \/ /\ Free = {}
             /\ link' = [link EXCEPT ![c] = "closed"]
             /\ UNCHANGED <<fd, queue_cnt, state, buf>>
  /\ revents' = revents \ Named(bindedfd)
  /\ UNCHANGED <<sent, stream, received, running, pc, pollout, wrbuf, db_vars, pipe>>

-----------------------------------------------------------------------------
(* process_client() of the slot s *)

turn(s) ==
  /\ pc = "fds" /\ Named(s) # {}
  /\ \A t \in (s + 1)..bindedfd : Named(t) = {}
  /\ revents' = revents \ Named(s)

(* remove_connection(): shutdown_cnct() leaves the slot in CNCT_WAIT when  *)
(* gets are under way.  POLLOUT stays in events.                           *)
remove(s, gets) ==
  /\ link' = [link EXCEPT ![fd[s]] = "closed"]
  /\ state' = [state EXCEPT ![s] = IF gets = 0 THEN "SHUT" ELSE "WAIT"]
  /\ fd' = [fd EXCEPT ![s] = NOBODY]
  /\ wrbuf' = [wrbuf EXCEPT ![s] = <<>>]

(* POLLHUP; a command that is none; a full buffer; a send() that fails.    *)
process_client_gone(s) ==
  /\ turn(s)
  /\ remove(s, queue_cnt[s])
  /\ UNCHANGED <<sent, stream, received, running, pc, pollout, queue_cnt, buf, db_vars, pipe>>

(* send_wrbuffer(): one reply or more; POLLOUT goes with the last.         *)
send_wrbuffer(s, extra) ==
  \E k \in 1..Len(wrbuf[s]) :
    /\ received' = [received EXCEPT ![fd[s]] = @ \o extra \o SubSeq(wrbuf[s], 1, k)]
    /\ wrbuf' = [wrbuf EXCEPT ![s] = SubSeq(@, k + 1, Len(@))]
    /\ pollout' = [pollout EXCEPT ![s] = wrbuf'[s] # <<>>]

(* POLLOUT after the input, if there is any.                               *)
output(s, extra) ==
  \/ Reported(s, "POLLOUT") /\ send_wrbuffer(s, extra)
  \/ /\ Reported(s, "POLLOUT") /\ wrbuf[s] = <<>>
     /\ received' = [received EXCEPT ![fd[s]] = @ \o extra]
     /\ pollout' = [pollout EXCEPT ![s] = FALSE]
     /\ UNCHANGED wrbuf
  \/ /\ ~Reported(s, "POLLOUT")
     /\ received' = [received EXCEPT ![fd[s]] = @ \o extra]
     /\ UNCHANGED <<wrbuf, pollout>>

(* process_cnct(): whatever has come is received, one command of it is     *)
(* processed.  A get is counted and given to the database; a set is        *)
(* answered at once.  A reply that cannot be sent removes the connection.  *)
process_client_input(s) ==
  /\ turn(s) /\ Reported(s, "POLLIN") /\ ~Reported(s, "POLLHUP")
  /\ LET all == buf[s] \o stream[fd[s]]
         cmd == Head(all)
         get == cmd.kind = "get"
     IN  /\ buf' = [buf EXCEPT ![s] = Tail(all)]
         /\ stream' = [stream EXCEPT ![fd[s]] = <<>>]
         /\ IF get
            THEN /\ queue_cnt' = [queue_cnt EXCEPT ![s] = @ + 1]
                 /\ waiting' = waiting \cup {[id |-> asked, slot |-> s, cmd |-> cmd]}
                 /\ asked' = asked + 1
            ELSE UNCHANGED <<queue_cnt, waiting, asked>>
         /\ \/ output(s, IF get THEN <<>> ELSE <<cmd>>) /\ UNCHANGED <<link, fd, state>>
            \/ remove(s, queue_cnt'[s]) /\ UNCHANGED <<received, pollout>>
  /\ UNCHANGED <<sent, running, pc, pipe>>

process_client_output(s) ==
  /\ turn(s) /\ Named(s) = {<<s, "POLLOUT">>}
  /\ output(s, <<>>)
  /\ UNCHANGED <<link, sent, stream, running, pc, fd, state, queue_cnt, buf, db_vars, pipe>>

process_client(s) ==
  process_client_gone(s) \/ process_client_input(s) \/ process_client_output(s)

poll_end ==
  /\ pc = "fds" /\ revents = Named(controlfd)
  /\ revents' = {}
  /\ go("loop")
  /\ UNCHANGED <<client_vars, running, slot_vars, db_vars, pipe>>

-----------------------------------------------------------------------------
(* The end of run_server(): every connection is removed.  destroy_server() *)
(* waits for the threads of the database, then destroys the slots.         *)

remove_all ==
  /\ pc = "loop" /\ ~running
  /\ link' = [c \in Conn |-> IF \E s \in Slot : fd[s] = c THEN "closed" ELSE link[c]]
  /\ state' = [s \in Slot |-> IF fd[s] = NOBODY THEN state[s]
                              ELSE IF queue_cnt[s] = 0 THEN "SHUT" ELSE "WAIT"]
  /\ fd' = [s \in Slot |-> NOBODY]
  /\ wrbuf' = [s \in Slot |-> <<>>]
  /\ go("destroy")
  /\ UNCHANGED <<sent, stream, received, running, revents, pollout, queue_cnt, buf, db_vars, pipe>>

destroy_server ==
  /\ pc = "destroy" /\ waiting = {}
  /\ go(IF \A s \in Slot : queue_cnt[s] = 0 THEN "ended" ELSE "aborted")
  /\ UNCHANGED <<client_vars, running, revents, slot_vars, db_vars, pipe>>

-----------------------------------------------------------------------------
PollInit ==
  /\ link = [c \in Conn |-> "none"] /\ sent = [c \in Conn |-> 0]
  /\ stream = [c \in Conn |-> <<>>] /\ received = [c \in Conn |-> <<>>]
  /\ running = TRUE /\ pc = "loop" /\ revents = {}
  /\ fd = [s \in Slot |-> NOBODY] /\ pollout = [s \in Slot |-> FALSE]
  /\ state = [s \in Slot |-> "SHUT"] /\ queue_cnt = [s \in Slot |-> 0]
  /\ buf = [s \in Slot |-> <<>>] /\ wrbuf = [s \in Slot |-> <<>>]
  /\ asked = 0 /\ waiting = {} /\ pipe = <<>>

server ==
  \/ test_running \/ poll \/ process_control \/ process_control_end
  \/ accept_connection \/ (\E s \in Slot : process_client(s)) \/ poll_end
  \/ remove_all \/ destroy_server

database == \E r \in waiting : async_response(r)

PollNext == server \/ database \/ term_handler \/ \E c \in Conn : client_acts(c)

(* The server goes on when poll() has something; every get is found, and   *)
(* every thread of the database that can write does.                       *)
PollFairness == WF_poll_vars(server) /\ WF_poll_vars(database)

PollSpec == PollInit /\ [][PollNext]_poll_vars /\ PollFairness

-----------------------------------------------------------------------------
Request == [id : Nat, slot : Slot, cmd : Command]

(* The variables keep their types. *)
PollTypeOK ==
  /\ link \in [Conn -> Link] /\ sent \in [Conn -> Nat]
  /\ stream \in [Conn -> Seq(Command)] /\ received \in [Conn -> Seq(Command)]
  /\ running \in BOOLEAN /\ pc \in Place
  /\ revents \subseteq (0..controlfd) \X {"POLLIN", "POLLOUT", "POLLHUP"}
  /\ fd \in [Slot -> Conn \cup {NOBODY}] /\ pollout \in [Slot -> BOOLEAN]
  /\ state \in [Slot -> {"SHUT", "OPEN", "WAIT"}] /\ queue_cnt \in [Slot -> Nat]
  /\ buf \in [Slot -> Seq(Command)] /\ wrbuf \in [Slot -> Seq(Command)]
  /\ asked \in Nat /\ waiting \subseteq Request
  /\ pipe \in Seq(Request)

InPipe == {pipe[k] : k \in 1..Len(pipe)}
UnderWay(s) == {r \in waiting \cup InPipe : r.slot = s}

(* queue_cnt is the number of gets of the slot that are under way: the     *)
(* assertion of dec_queue_cnt() holds, and CNCT_SHUT means that none is.   *)
QueueCount ==
  \A s \in Slot :
    /\ queue_cnt[s] = Cardinality(UnderWay(s))
    /\ state[s] = "SHUT" => queue_cnt[s] = 0
    /\ fd[s] # NOBODY <=> state[s] = "OPEN"

(* No client ever gets an answer that another one has asked for, although  *)
(* slots are used again while answers are under way.                       *)
NoCrossTalk ==
  /\ \A c \in Conn : \A k \in 1..Len(received[c]) : received[c][k].by = c
  /\ \A s \in Slot : \A k \in 1..Len(wrbuf[s]) : wrbuf[s][k].by = fd[s]

(* A command is answered at most once. *)
AnsweredOnce ==
  \A c \in Conn : Cardinality({received[c][k] : k \in 1..Len(received[c])}) = Len(received[c])

(* Every client gets the answers to its own requests, once each, although  *)
(* slots are used again while answers are under way.                       *)
AnswersRight == PollTypeOK /\ NoCrossTalk /\ AnsweredOnce

(* A client that waits for every reply gets it, or the server has closed   *)
(* the connection, or ends.                                                *)
EveryoneAnswered ==
  \A c \in Conn \ Eager : \A n \in 1..Quota[c] :
    sent[c] = n /\ link[c] = "open"
      ~> Len(received[c]) >= n \/ link[c] # "open" \/ ~running

(* The signal counts as soon as run_server() tests the flag again: now, or *)
(* with the next event if it came to another thread or just before poll(), *)
(* in which the server then waits.                                         *)
TermNoticed == ~running /\ (pc = "poll" => Events # {})

(* Once the signal is noticed, the server ends; but it waits for ever for  *)
(* the threads of its database if the pipe is full when it stops reading,  *)
(* and fails an assertion if there are answers in the pipe then.           *)
ShutdownEnds ==
  TermNoticed ~> (
    \/ pc = "ended"
    \/ (pc = "aborted" /\ pipe # <<>>)
    \/ (pc = "destroy" /\ Len(pipe) = PipeSize))
=============================================================================
