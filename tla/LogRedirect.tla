---------------------------- MODULE LogRedirect ----------------------------
(***************************************************************************)
(* log_lib with its plug-ins: the standard output and the standard error   *)
(* of a program go through pipes to logging processes, which write each    *)
(* line to the log.                                                        *)
(*                                                                         *)
(* logfile and logsyslog have a process per stream, and take a stream back *)
(* when its logger is gone; logfile2 has one process that polls both.      *)
(* Lines are numbered in the order in which they are printed.              *)
(***************************************************************************)
EXTENDS Integers, Sequences, FiniteSets

CONSTANTS
  Lines,    (* bound: lines that the program prints                        *)
  PipeLines (* lines that a pipe holds                                     *)

R == {"out", "err"}       (* R_OUT, R_ERR                                   *)
Logger == {"out", "err"}  (* a logger is named after its first stream       *)

(* What is assumed of the constants.                                       *)
RedirectAssumption == Lines \in Nat /\ PipeLines \in Nat \ {0}

VARIABLES
  plugin,   (* "logfile" (or logsyslog), or "logfile2"                     *)
  logged_program,  (* what the program is about to do                      *)
  log_fd,   (* where the streams of the program go                         *)
  saved,    (* streams with saved_fd # -1                                  *)
  pid,      (* streams with pid # -1                                       *)
  log_pipe, (* lines in the pipes                                          *)
  writers,  (* processes that have the writing end of a pipe               *)
  logger,   (* states of the loggers                                       *)
  log,      (* lines that were logged                                      *)
  printed,  (* by stream, the lines printed                                *)
  gone,     (* lines that were neither logged nor lie in a pipe: shown on  *)
            (* the terminal, or lost                                       *)
  killed    (* a logger was killed, or the program                         *)

redirect_vars ==
  <<plugin, logged_program, log_fd, saved, pid, log_pipe, writers, logger, log, printed, gone,
    killed>>

(* The logger of a stream. *)
of(r) == IF plugin = "logfile2" THEN "out" ELSE r
Streams(l) == {r \in R : of(r) = l}
reads(r) == logger[of(r)] = "reading"
LinesPrinted == Len(printed["out"]) + Len(printed["err"])
Elements(s) == {s[k] : k \in 1..Len(s)}

-----------------------------------------------------------------------------
(* logger_start(), logger_polled_start() *)

(* create_pipe() and fork() for a stream: the child has what its parent    *)
(* has, closes its own pipe_in and reads; the parent goes on in            *)
(* activate_pipe().                                                        *)
fork_redir(r) ==
  /\ plugin = "logfile" /\ logged_program = <<"start", r>>
  /\ logger' = [logger EXCEPT ![r] = "reading"]
  /\ writers' = [q \in R |-> IF q = r THEN {"program"}
                             ELSE IF "program" \in writers[q] THEN writers[q] \cup {r} ELSE writers[q]]
  /\ log_fd' = [log_fd EXCEPT ![r] = "pipe"] /\ pid' = pid \cup {r}
  /\ logged_program' = IF r = "out" THEN <<"start", "err">> ELSE <<"handlers">>
  /\ UNCHANGED <<plugin, saved, log_pipe, log, printed, gone, killed>>

(* From now on a logger that ends leaves no zombie (SA_NOCLDWAIT).         *)
set_sig_handlers ==
  /\ logged_program = <<"handlers">> /\ logged_program' = <<"run">>
  /\ UNCHANGED <<plugin, log_fd, saved, pid, log_pipe, writers, logger, log, printed, gone, killed>>

fork_redirs ==
  /\ plugin = "logfile2" /\ logged_program = <<"start", "out">>
  /\ logger' = [logger EXCEPT !["out"] = "reading"]
  /\ writers' = [r \in R |-> {"program"}]
  /\ log_fd' = [r \in R |-> "pipe"] /\ pid' = R
  /\ logged_program' = <<"run">>
  /\ UNCHANGED <<plugin, saved, log_pipe, log, printed, gone, killed>>

(* pipe() or fork() fails: start() returns -1 and the program ends.        *)
start_fails ==
  /\ logged_program \in {"start"} \X R
  /\ logged_program' = <<"ended">>
  /\ writers' = [r \in R |-> writers[r] \ {"program"}]
  /\ UNCHANGED <<plugin, log_fd, saved, pid, log_pipe, logger, log, printed, gone, killed>>

-----------------------------------------------------------------------------
(* The program *)

(* restore_redir() *)
restore(rs) ==
  /\ log_fd' = [r \in R |-> IF r \in rs THEN "saved" ELSE log_fd[r]]
  /\ saved' = saved \ rs
  /\ writers' = [r \in R |-> IF r \in rs THEN writers[r] \ {"program"} ELSE writers[r]]

(* Mutant of Broken: a process that is gone is found for the second stream.*)
Broken_first(r) == r = "out" /\ r \in saved /\ r \in pid /\ logger[of(r)] = "dead"

(* restore_broken_redir(): kill() finds no such process.  It finds one     *)
(* that is a zombie.                                                       *)
Broken(r) == r \in saved /\ r \in pid /\ logger[of(r)] = "dead"

(* The text that could not be written is lost, or written again. *)
sigpipe_handler ==
  LET broken == {r \in R : Broken(r)} IN restore(broken) /\ pid' = pid \ broken

Dies ==
  /\ logged_program' = <<"ended">> /\ killed' = TRUE
  /\ writers' = [r \in R |-> writers[r] \ {"program"}]
  /\ UNCHANGED <<log_fd, saved, pid>>

print(r) ==
  /\ logged_program \in {<<"run">>, <<"exec">>} /\ LinesPrinted < Lines
  /\ log_fd[r] = "pipe" /\ reads(r) => Len(log_pipe[r]) < PipeLines
  /\ printed' = [printed EXCEPT ![r] = Append(@, LinesPrinted + 1)]
  /\ IF log_fd[r] = "pipe" /\ reads(r)
     THEN log_pipe' = [log_pipe EXCEPT ![r] = Append(@, LinesPrinted + 1)]
          /\ UNCHANGED <<logged_program, log_fd, saved, pid, writers, gone, killed>>
     ELSE /\ gone' = gone \cup {LinesPrinted + 1} /\ UNCHANGED log_pipe
          /\ IF log_fd[r] = "saved" THEN UNCHANGED <<logged_program, log_fd, saved, pid, writers, killed>>
             ELSE IF plugin = "logfile" /\ logged_program = <<"run">> 
                  THEN sigpipe_handler /\ UNCHANGED <<logged_program, killed>>
             ELSE Dies
  /\ UNCHANGED <<plugin, logger, log>>

(* srvc_runner executes the service: the handler of SIGPIPE is gone, and   *)
(* nobody calls stop().                                                    *)
runner_execvp ==
  /\ logged_program = <<"run">> /\ logged_program' = <<"exec">>
  /\ UNCHANGED <<plugin, log_fd, saved, pid, log_pipe, writers, logger, log, printed, gone, killed>>

logged_ends ==
  /\ logged_program = <<"exec">> /\ logged_program' = <<"ended">>
  /\ writers' = [r \in R |-> writers[r] \ {"program"}]
  /\ UNCHANGED <<plugin, log_fd, saved, pid, log_pipe, logger, log, printed, gone, killed>>

-----------------------------------------------------------------------------
(* logger_stop() *)

Order == <<<<"restore", "out">>, <<"restore", "err">>, <<"wait", "out">>, <<"wait", "err">>>>

After(step) ==
  LET k == CHOOSE n \in 1..4 : Order[n] = step IN IF k = 4 THEN <<"stopped">> ELSE Order[k + 1]

logger_stop ==
  /\ logged_program = <<"run">> /\ logged_program' = Order[1]
  /\ UNCHANGED <<plugin, log_fd, saved, pid, log_pipe, writers, logger, log, printed, gone, killed>>

restore_redir(r) ==
  /\ logged_program = <<"restore", r>> /\ logged_program' = After(logged_program)
  /\ IF r \in saved THEN restore({r}) ELSE UNCHANGED <<log_fd, saved, writers>>
  /\ UNCHANGED <<plugin, pid, log_pipe, logger, log, printed, gone, killed>>

(* waitpid() returns when the process is gone. *)
Departed == {"zombie", "dead"}
Waited(r) == logger[of(r)] \in Departed

waitpid_redir(r) ==
  /\ logged_program = <<"wait", r>> /\ logged_program' = After(logged_program)
  /\ r \in pid => Waited(r)
  /\ pid' = pid \ {r}
  /\ UNCHANGED <<plugin, log_fd, saved, log_pipe, writers, logger, log, printed, gone, killed>>

-----------------------------------------------------------------------------
(* The loggers *)

(* process_input(), or a turn of poll_inputs(): the lines that are there   *)
(* are logged.                                                             *)
process(r) ==
  /\ reads(r) /\ log_pipe[r] # <<>>
  /\ log' = [log EXCEPT ![r] = @ \o log_pipe[r]]
  /\ log_pipe' = [log_pipe EXCEPT ![r] = <<>>]
  /\ UNCHANGED <<plugin, logged_program, log_fd, saved, pid, writers, logger, printed, gone, killed>>

(* A process that ends closes its ends of the pipes before it is gone.     *)
Closes(l) ==
  /\ logger' = [logger EXCEPT ![l] = "closing"]
  /\ writers' = [r \in R |-> writers[r] \ {l}]
  /\ log_pipe' = [r \in R |-> IF r \in Streams(l) THEN <<>> ELSE log_pipe[r]]
  /\ gone' = gone \cup UNION {Elements(log_pipe[r]) : r \in Streams(l)}
  /\ UNCHANGED <<plugin, logged_program, log_fd, saved, pid, log, printed>>

(* read() returns 0 when nobody writes any more. *)
end_of_file(l) ==
  /\ logger[l] = "reading"
  /\ \A r \in Streams(l) : log_pipe[r] = <<>> /\ writers[r] = {}
  /\ Closes(l) /\ UNCHANGED killed

SIGKILL(l) ==
  /\ logger[l] = "reading"
  /\ Closes(l) /\ killed' = TRUE

exit(l) ==
  /\ logger[l] = "closing"
  /\ logger' = [logger EXCEPT ![l] =
                   IF plugin = "logfile" /\ logged_program \in {<<"start", "err">>, <<"handlers">>}
                   THEN "zombie" ELSE "dead"]
  /\ UNCHANGED <<plugin, logged_program, log_fd, saved, pid, log_pipe, writers, log, printed, gone, killed>>

-----------------------------------------------------------------------------
RedirectInit ==
  /\ plugin \in {"logfile", "logfile2"} /\ logged_program = <<"start", "out">>
  /\ log_fd = [r \in R |-> "saved"] /\ saved = R /\ pid = {}
  /\ log_pipe = [r \in R |-> <<>>] /\ writers = [r \in R |-> {}]
  /\ logger = [l \in Logger |-> "none"]
  /\ log = [r \in R |-> <<>>] /\ printed = [r \in R |-> <<>>]
  /\ gone = {} /\ killed = FALSE

Starts == (\E r \in R : fork_redir(r)) \/ set_sig_handlers \/ fork_redirs
Stops == \E r \in R : restore_redir(r) \/ waitpid_redir(r)
Logs == \E r \in R : process(r) \/ end_of_file(r) \/ exit(r)

RedirectNext ==
  \/ Starts \/ start_fails \/ (\E r \in R : print(r)) \/ logger_stop \/ Stops
  \/ runner_execvp \/ logged_ends
  \/ Logs \/ \E l \in Logger : SIGKILL(l)

(* Nothing but waitpid() and a full pipe holds up a process.               *)
RedirectFairness == WF_redirect_vars(Stops) /\ WF_redirect_vars(Logs)

RedirectSpec == RedirectInit /\ [][RedirectNext]_redirect_vars /\ RedirectFairness

-----------------------------------------------------------------------------
RedirectTypeOK ==
  /\ logged_program \in {<<"handlers">>, <<"run">>, <<"exec">>, <<"ended">>, <<"stopped">>}
                         \cup ({"start", "restore", "wait"} \X R)
  /\ log_fd \in [R -> {"saved", "pipe"}] /\ saved \subseteq R /\ pid \subseteq R
  /\ \A r \in R : Len(log_pipe[r]) <= PipeLines /\ writers[r] \subseteq Logger \cup {"program"}
  /\ logger \in [Logger -> {"none", "reading", "closing", "zombie", "dead"}]
  /\ gone \subseteq 1..Lines /\ killed \in BOOLEAN

(* The lines of a stream that were logged, and those that will be. *)
Kept(r) == log[r] \o log_pipe[r]

(* Each line printed is in one place, and the log has the lines of a       *)
(* stream in the order in which they were printed.                         *)
LoggedOnce ==
  \A r \in R :
    /\ Elements(Kept(r)) = Elements(printed[r]) \ gone
    /\ \A j, k \in 1..Len(Kept(r)) : j < k => Kept(r)[j] < Kept(r)[k]

(* When stop() returns and no process was killed, everything that was      *)
(* printed has been logged.                                                *)
StopKeepsAll ==
  logged_program = <<"stopped">> /\ ~killed => \A r \in R : log[r] = printed[r]

(* stop() returns: it waits for a logger only when every process that      *)
(* keeps its pipe open will end.                                           *)
StopReturns == logged_program[1] = "restore" ~> logged_program = <<"stopped">>

(* A stream comes back after its logger has gone: the next line printed to *)
(* it is the last that is lost.  Not so when the logger was gone before    *)
(* set_sig_handlers(): kill() finds the zombie for ever, and the lines of  *)
(* the stream are lost until stop().                                       *)
ComesBack ==
  [][\A r \in R :
       /\ Len(printed'[r]) > Len(printed[r]) /\ logged_program = <<"run">>
       /\ plugin = "logfile" /\ logger[r] = "dead"
       => log_fd'[r] = "saved"]_redirect_vars

(* Each line printed is logged at most once and in order; when stop()      *)
(* returns and no process was killed, all of them have been; and a stream  *)
(* comes back after its logger has gone, unless it was gone before the     *)
(* handlers were set.                                                      *)
LogKept == [](RedirectTypeOK /\ LoggedOnce /\ StopKeepsAll) /\ ComesBack
=============================================================================
