--------------------------- MODULE LabsServersMC ----------------------------
(***************************************************************************)
(* Instances for TLC of the servers, the service program and its logging   *)
(* of posix-programming_labs, one of them at a time: the others rest in an *)
(* initial state.                                                          *)
(***************************************************************************)
EXTENDS Service, PollServer, ThreadServer, LogRedirect

VARIABLES
  part,  (* the part that this behaviour is about                           *)
  (* those of Service, PollServer, ThreadServer and LogRedirect are declared there *)
  (* Telnet *)
  telnet_server, telnet_kind, telnet_client, telnet_sent, answer, got, in, out, telnet_pc,
  telnet_running, cnct, served, telnet_buf, reply, telnet_pipe, telnet_wrbuf, db, done

telnet_vars ==
  <<telnet_server, telnet_kind, telnet_client, telnet_sent, answer, got, in, out, telnet_pc,
    telnet_running, cnct, served, telnet_buf, reply, telnet_pipe, telnet_wrbuf, db, done>>
vars == <<part, thread_vars, poll_vars, telnet_vars, service_vars, redirect_vars>>

-----------------------------------------------------------------------------
(* The bounds. *)

(* A client of server_poll that asks for two gets at once, and one that    *)
(* waits.                                                                  *)
MCQuota == [c \in Conn |-> IF c \in Eager THEN 2 ELSE 1]

ASSUME ThreadAssumption

Wire == INSTANCE Telnet
  WITH Client <- {"c1"}, Requests <- 2, BUF_SIZE <- 7,
       server <- telnet_server, kind <- telnet_kind, client <- telnet_client, sent <- telnet_sent,
       pc <- telnet_pc, running <- telnet_running, pipe <- telnet_pipe, buf <- telnet_buf,
       wrbuf <- telnet_wrbuf

ASSUME RedirectAssumption

Part == {"threads", "poll", "telnet", "service", "log"}

(* Where a part has several initial states, it rests in one of them. *)
Rest ==
  /\ part = "telnet" \/ (telnet_server = "poll" /\ telnet_kind = "waits")
  /\ part = "service" \/ (program = "sample" /\ ~relative)
  /\ part = "log" \/ plugin = "logfile"

Init ==
  /\ part \in Part
  /\ ThreadInit /\ PollInit /\ Wire!Init /\ ServiceInit /\ RedirectInit
  /\ Rest

Next ==
  /\ UNCHANGED part
  /\ IF part = "threads" THEN ThreadNext ELSE UNCHANGED thread_vars
  /\ IF part = "poll" THEN PollNext ELSE UNCHANGED poll_vars
  /\ IF part = "telnet" THEN Wire!Next ELSE UNCHANGED telnet_vars
  /\ IF part = "service" THEN ServiceNext ELSE UNCHANGED service_vars
  /\ IF part = "log" THEN RedirectNext ELSE UNCHANGED redirect_vars

(* That of each part; why it is justified stands in its module. *)
FairServers ==
  /\ WF_thread_vars(part = "threads" /\ main_thread)
  /\ \A c \in Client : WF_thread_vars(part = "threads" /\ Alive /\ thread_func(c))
  /\ WF_poll_vars(part = "poll" /\ server)
  /\ WF_poll_vars(part = "poll" /\ database)
  /\ WF_telnet_vars(part = "telnet" /\ Wire!Serve)
  /\ WF_telnet_vars(part = "telnet" /\ Wire!Answer)
  /\ WF_telnet_vars(part = "telnet" /\ Wire!Receive)

FairServices ==
  /\ \A s \in Start : WF_service_vars(part = "service" /\ Proceed(s))
  /\ WF_redirect_vars(part = "log" /\ Stops)
  /\ WF_redirect_vars(part = "log" /\ Logs)

Spec == Init /\ [][Next]_vars /\ FairServers /\ FairServices

-----------------------------------------------------------------------------
(* The requests of a client are processed whole, in order and once, in     *)
(* whatever pieces they come.  It gets the right answers in this order,    *)
(* unless it sends to server_poll without waiting; and a client that waits *)
(* for its replies gets them, or the connection is closed, or the server   *)
(* ends.                                                                   *)
EveryoneServed ==
  /\ EveryoneAnswered /\ Wire!EveryoneAnswered
  /\ []Wire!TypeOK /\ []Wire!RequestsIntact /\ []Wire!AnswersMatch

(* What is told to end does, from the moment at which it notices: the      *)
(* servers when they test their flag again, which a signal that comes just *)
(* before accept() or poll() puts off to the next connection or event; a   *)
(* service and its program after SIGTERM; and the stop() of a plugin of    *)
(* the logging.  The ways in which the end of a server fails are named in  *)
(* ThreadsEnd and ShutdownEnds.                                            *)
EveryStopEnds ==
  []ServiceTypeOK /\ ThreadsEnd /\ ShutdownEnds /\ StopEnds /\ StopReturns
=============================================================================
