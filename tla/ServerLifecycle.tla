-------------------------- MODULE ServerLifecycle --------------------------
(***************************************************************************)
(* The processes of the server: the main process that runs                 *)
(*     with MailServer(...) as server: server.serve(blocking)              *)
(* the working processes it forks, and the logging processes, one of the   *)
(* server and one of every session (QueueProcessLogger).  A fork copies    *)
(* the objects: what the main process assigns afterwards, no other process *)
(* sees.  A process that is over first joins its own children, then the    *)
(* threads that feed the pipes of its queues.                              *)
(*                                                                         *)
(* A Ctrl-C is posted to every process of the terminal at once, but each   *)
(* takes it, as a KeyboardInterrupt, in a step of its own, and the others  *)
(* go on in between.  A process forked by one that has not taken it yet    *)
(* does not get it: the interpreter forgets it in the child.               *)
(***************************************************************************)
EXTENDS Naturals

CONSTANTS
  Process,     (* the working processes                                    *)
  SessionMax   (* bound on the loggers of sessions one process has         *)

ASSUME LifecycleAssumption ==
  /\ Process # {}
  /\ SessionMax \in Nat

VARIABLES
  blocking,  (* the argument of serve(); never changes                     *)
  main,      (* where the main process is                                  *)
  sock,      (* does the main process hold the listening socket?           *)
  active,    (* WorkingProcess.active, as the main process has it          *)
  worker,    (* where each working process is                              *)
  sessions,  (* the logging processes of its sessions that run...          *)
  ending,    (* ... and those that run and have a Ctrl-C on its way        *)
  logger,    (* where the logging process of the server is                 *)
  main_signalled, (* has the main process an interrupt on its way?         *)
  signalled, (* the working processes that have one on its way             *)
  late,      (* the working processes that have forked a logger meanwhile  *)
  stuck      (* those with a full pipe that an ended logger does not read  *)

signal_vars == <<main_signalled, signalled, late, stuck>>
lifecycle_vars ==
  <<blocking, main, sock, active, worker, sessions, ending, logger, signal_vars>>

(* starts -- serve() starts processes    sleeps -- its blocking loop       *)
(* body   -- serve() has returned, the with block goes on                  *)
(* joins  -- after __exit__, the interpreter joins the children            *)
MainPlace   == { "starts", "sleeps", "body", "joins", "gone" }

(* runs -- in run()    joins -- run() is over, the children are joined     *)
WorkerPlace == { "none", "runs", "joins", "gone" }

-----------------------------------------------------------------------------
(* p.start(): the child has copies of the server and of its socket.        *)
StartProcess(w) ==
  /\ main = "starts"
  /\ worker[w] = "none"
  /\ worker' = [worker EXCEPT ![w] = "runs"]
  /\ active' = [active EXCEPT ![w] = TRUE]
  /\ UNCHANGED <<blocking, main, sock, sessions, ending, logger, signal_vars>>

AllStarted ==
  /\ main = "starts"
  /\ \A w \in Process : worker[w] # "none"
  /\ main' = IF blocking THEN "sleeps" ELSE "body"
  /\ UNCHANGED <<blocking, sock, active, worker, sessions, ending, logger, signal_vars>>

(* __exit__: the main process closes its socket and sets its own flags;    *)
(* logger.terminate() sets one, too, that the logging process never sees.  *)
exit ==
  /\ sock' = FALSE
  /\ active' = [w \in Process |-> FALSE]

LeaveBlock ==
  /\ main = "body"
  /\ main' = "joins"
  /\ exit
  /\ UNCHANGED <<blocking, worker, sessions, ending, logger, signal_vars>>

(* KeyboardInterrupt in the main process.  The blocking loop calls         *)
(* __exit__ and goes on; elsewhere the exception leaves the with block;    *)
(* and the join of the children is given up.                               *)
MainInterrupted ==
  CASE main = "sleeps"             -> exit /\ UNCHANGED main
    [] main \in {"starts", "body"} -> exit /\ main' = "joins"
    [] main = "joins"              -> main' = "gone" /\ UNCHANGED <<sock, active>>

MainTakes ==
  /\ main_signalled
  /\ main # "gone"
  /\ MainInterrupted
  /\ main_signalled' = FALSE
  /\ UNCHANGED <<blocking, worker, sessions, ending, logger, signalled, late, stuck>>

MainJoined ==
  /\ main = "joins"
  /\ \A w \in Process : worker[w] \in {"none", "gone"}
  /\ logger = "gone"
  /\ main' = "gone"
  /\ UNCHANGED <<blocking, sock, active, worker, sessions, ending, logger, signal_vars>>

-----------------------------------------------------------------------------
(* accept() and Client(): SMTP_FSM starts a logging process of its own,    *)
(* which may be behind a Ctrl-C that the working process has not taken.    *)
OpenSession(w) ==
  /\ worker[w] = "runs"
  /\ sessions[w] + ending[w] < SessionMax
  /\ sessions' = [sessions EXCEPT ![w] = @ + 1]
  /\ late' = IF w \in signalled THEN late \cup {w} ELSE late
  /\ UNCHANGED <<blocking, main, sock, active, worker, ending, logger, main_signalled, signalled, stuck>>

(* An exception ends run(): the timeout of accept() or a handler's.  The   *)
(* interpreter raises an interrupt that has come before it runs into one.  *)
EndRun(w) ==
  /\ worker[w] = "runs"
  /\ w \notin signalled
  /\ worker' = [worker EXCEPT ![w] = "joins"]
  /\ UNCHANGED <<blocking, main, sock, active, sessions, ending, logger, signal_vars>>

Gone(w) ==
  /\ worker' = [worker EXCEPT ![w] = "gone"]
  /\ signalled' = signalled \ {w}
  /\ UNCHANGED <<blocking, main, sock, active, sessions, ending, logger, main_signalled, late, stuck>>

(* Mutant of WorkerJoined: the logging processes are not waited for.       *)
WorkerLeaves(w) ==
  /\ worker[w] = "joins"
  /\ Gone(w)

(* Nothing ends the logging process of a session when the session is over, *)
(* so a process that has had one waits here until a Ctrl-C; and then, if a *)
(* pipe is full, for a feeder thread that will never be rid of its records.*)
WorkerJoined(w) ==
  /\ worker[w] = "joins"
  /\ sessions[w] + ending[w] = 0
  /\ w \notin stuck
  /\ Gone(w)

-----------------------------------------------------------------------------
(* An interrupt leaves run() of a worker and of a logger; a join is given  *)
(* up, be it that of a child or of a feeder thread.                        *)
WorkerTakes(w) ==
  /\ w \in signalled
  /\ worker' = [worker EXCEPT ![w] = IF @ = "runs" THEN "joins" ELSE "gone"]
  /\ signalled' = signalled \ {w}
  /\ UNCHANGED <<blocking, main, sock, active, sessions, ending, logger, main_signalled, late, stuck>>

(* From now on nobody reads the pipe of the session: it may be full, or be *)
(* filled by what its working process still does.                          *)
SessionLoggerTakes(w) ==
  /\ ending[w] > 0
  /\ ending' = [ending EXCEPT ![w] = @ - 1]
  /\ stuck' \in {stuck, stuck \cup {w}}
  /\ UNCHANGED <<blocking, main, sock, active, worker, sessions, logger, main_signalled, signalled, late>>

LoggerTakes ==
  /\ logger = "signalled"
  /\ logger' = "gone"
  /\ UNCHANGED <<blocking, main, sock, active, worker, sessions, ending, signal_vars>>

(* Mutant of LoggersSignalled: only the server's own logger gets it.       *)
SessionLoggersGoOn ==
  /\ logger' = IF logger = "runs" THEN "signalled" ELSE logger
  /\ UNCHANGED <<sessions, ending>>

LoggersSignalled ==
  /\ logger' = IF logger = "runs" THEN "signalled" ELSE logger
  /\ ending' = [w \in Process |-> ending[w] + sessions[w]]
  /\ sessions' = [w \in Process |-> 0]

CtrlC ==
  /\ main # "gone"
  /\ main_signalled' = TRUE
  /\ signalled' = { w \in Process : worker[w] \in {"runs", "joins"} }
  /\ LoggersSignalled
  /\ UNCHANGED <<blocking, main, sock, active, worker, late, stuck>>

(* A signal to the main process alone. *)
InterruptMain ==
  /\ main # "gone"
  /\ main_signalled' = TRUE
  /\ UNCHANGED <<blocking, main, sock, active, worker, sessions, ending, logger, signalled, late, stuck>>

-----------------------------------------------------------------------------
LifecycleInit ==
  /\ blocking \in BOOLEAN
  /\ main = "starts"
  /\ sock = TRUE
  /\ active = [w \in Process |-> FALSE]
  /\ worker = [w \in Process |-> "none"]
  /\ sessions = [w \in Process |-> 0]
  /\ ending = [w \in Process |-> 0]
  /\ logger = "runs"
  /\ main_signalled = FALSE
  /\ signalled = {} /\ late = {} /\ stuck = {}

MainStep == (\E w \in Process : StartProcess(w)) \/ AllStarted \/ LeaveBlock \/ MainJoined

(* What a process does of itself once it has been interrupted or is over.  *)
EndStep(w) == WorkerJoined(w) \/ WorkerTakes(w) \/ SessionLoggerTakes(w)

LifecycleNext ==
  \/ MainStep \/ MainTakes \/ LoggerTakes
  \/ \E w \in Process : OpenSession(w) \/ EndRun(w) \/ EndStep(w)
  \/ InterruptMain
  \/ CtrlC

(* Processes that can go on do, and take an interrupt that was posted;     *)
(* nobody has to interrupt, to open a session or to cause an exception.    *)
LifecycleSpec ==
  /\ LifecycleInit /\ [][LifecycleNext]_lifecycle_vars
  /\ WF_lifecycle_vars(MainStep) /\ WF_lifecycle_vars(MainTakes)
  /\ \A w \in Process : /\ WF_lifecycle_vars(WorkerJoined(w))
                         /\ WF_lifecycle_vars(WorkerTakes(w))
                         /\ WF_lifecycle_vars(SessionLoggerTakes(w))

-----------------------------------------------------------------------------
(* The variables keep their types.                                         *)
LifecycleTypeOK ==
  /\ blocking \in BOOLEAN
  /\ main \in MainPlace
  /\ sock \in BOOLEAN
  /\ active \in [Process -> BOOLEAN]
  /\ worker \in [Process -> WorkerPlace]
  /\ sessions \in [Process -> 0..SessionMax]
  /\ ending \in [Process -> 0..SessionMax]
  /\ \A w \in Process : sessions[w] + ending[w] <= SessionMax
  /\ logger \in {"runs", "signalled", "gone"}
  /\ main_signalled \in BOOLEAN
  /\ signalled \subseteq { w \in Process : worker[w] \in {"runs", "joins"} }
  /\ late \subseteq Process
  /\ stuck \subseteq Process

(* The logging process of a session is left behind by the process that     *)
(* started it only if a Ctrl-C is on its way to it, too, however the ends  *)
(* of the processes and the interrupts interleave.                         *)
LoggersHaveParents ==
  \A w \in Process : sessions[w] > 0 => worker[w] \in {"runs", "joins"}

NothingLeft(w) == worker[w] = "gone" /\ sessions[w] + ending[w] = 0

(* What holds up a process that has taken a Ctrl-C in run(): a logger that *)
(* it forked before it took it, or a feeder thread at a full pipe.         *)
HeldUp(w) == worker[w] = "joins" /\ w \notin signalled /\ w \in late \cup stuck

(* A Ctrl-C ends a working process and the loggers of its sessions,        *)
(* whatever they were doing, or leaves the process held up where it joins; *)
(* and the next one ends that process, too, for it gives up the join.      *)
CtrlCEndsPool ==
  \A w \in Process : w \in signalled ~> (NothingLeft(w) \/ HeldUp(w))

(* The docstring of serve(): "processes finish when main process will be   *)
(* finished (exit context manager)".                                       *)
ExitFinishesProcesses ==
  main = "joins" ~> \A w \in Process : worker[w] \in {"none", "gone"}

=============================================================================
