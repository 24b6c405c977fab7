------------------------------ MODULE Service ------------------------------
(***************************************************************************)
(* srvc_lib and srvc_runner: a service is started in the background and    *)
(* its process number kept in a pid file, by which it is stopped.          *)
(*                                                                         *)
(* The sample program supervises the service and deletes the pid file      *)
(* when it ends.  The runner becomes the service itself, and stop deletes  *)
(* the pid file.                                                           *)
(*                                                                         *)
(* A pid file is named after the start that has created it: a process may  *)
(* hold one open that is not in the directory any more.                    *)
(***************************************************************************)
EXTENDS FiniteSets

CONSTANTS
  Start,  (* calls of start; also the processes that daemonize() makes     *)
  Stop    (* calls of stop                                                 *)

VARIABLES
  program,  (* sample or runner                                            *)
  relative, (* the path of the pid file is relative                        *)
  dir,      (* the pid file that is there, if any                          *)
  written,  (* pid files with a number in them                             *)
  at,       (* what each start, then its daemon, is about to do            *)
  handler,  (* daemons with sig_handler()                                  *)
  known,    (* daemons that have set sighandler_pid                        *)
  eintr,    (* daemons whose waitpid() was interrupted                     *)
  service,  (* the services                                                *)
  told,     (* services that ran when a stop sent its SIGTERM             *)
  stop,     (* what each stop is about to do, and for whom                 *)
  leaked    (* starts that leave a pid file behind when they fail          *)

service_vars ==
  <<program, relative, dir, written, at, handler, known, eintr, service, told, stop, leaked>>

NONE == "none"

(* What stands for no process is none. *)
ASSUME ServiceAssumption == NONE \notin Start

goto(s, label) == at' = [at EXCEPT ![s] = label]

-----------------------------------------------------------------------------
(* start() *)

(* Mutant of Created: without O_EXCL.                                      *)
Created_shared == TRUE

(* open(O_CREAT | O_EXCL) *)
Created == dir = NONE

open_pidfile(s) ==
  /\ at[s] = "open"
  /\ IF Created
     THEN /\ dir' = s
          /\ \/ goto(s, "daemonize") /\ UNCHANGED leaked
             \/ goto(s, "exit") /\ leaked' = leaked \cup {s}   (* fdopen() *)
     ELSE goto(s, "exit") /\ UNCHANGED <<dir, leaked>>
  /\ UNCHANGED <<program, relative, written, handler, known, eintr, service, told, stop>>

(* Each of these may fail, and then the pid file is deleted; by daemonize() *)
(* in the directory of the user, by the others in the root.                *)
next_label(label) ==
  CASE label = "daemonize" -> IF program = "runner" THEN "setup_log" ELSE "set_sighandler"
    [] label = "setup_log" -> "set_sighandler"
    [] label = "set_sighandler" -> "close_pidfile"
    [] label = "close_pidfile" -> IF program = "runner" THEN "execvp" ELSE "fork"

step(s, label) ==
  /\ at[s] = label
  /\ \/ goto(s, next_label(label))
     \/ goto(s, IF label = "daemonize" THEN "undo" ELSE "delete")

daemonize(s) ==
  /\ step(s, "daemonize")
  /\ UNCHANGED <<program, relative, dir, written, handler, known, eintr, service, told, stop, leaked>>

setup_log(s) ==
  /\ step(s, "setup_log")
  /\ UNCHANGED <<program, relative, dir, written, handler, known, eintr, service, told, stop, leaked>>

(* Mutant of Installed: the handler is not there yet.                      *)
Installed_late(s) == UNCHANGED handler
Installed(s) == handler' = handler \cup {s}

set_sighandler(s) ==
  /\ step(s, "set_sighandler")
  /\ IF at'[s] = "delete" THEN UNCHANGED handler ELSE Installed(s)
  /\ UNCHANGED <<program, relative, dir, written, known, eintr, service, told, stop, leaked>>

close_pidfile(s) ==
  /\ step(s, "close_pidfile")
  /\ IF at'[s] = "delete" THEN UNCHANGED written ELSE written' = written \cup {s}
  /\ UNCHANGED <<program, relative, dir, handler, known, eintr, service, told, stop, leaked>>

(* fork_service(): the child has the handler of its parent until it        *)
(* executes the program.                                                   *)
fork_service(s) ==
  /\ at[s] = "fork"
  /\ \/ service' = [service EXCEPT ![s] = "forked"] /\ goto(s, "set_pid")
     \/ goto(s, "delete") /\ UNCHANGED service
  /\ UNCHANGED <<program, relative, dir, written, handler, known, eintr, told, stop, leaked>>

set_sighandler_pid(s) ==
  /\ at[s] = "set_pid" /\ goto(s, "wait")
  /\ known' = known \cup {s}
  /\ UNCHANGED <<program, relative, dir, written, handler, eintr, service, told, stop, leaked>>

wait_again(s) == goto(s, "wait")

wait_service(s) ==
  /\ at[s] = "wait"
  /\ \/ s \in eintr /\ eintr' = eintr \ {s} /\ wait_again(s)
     \/ s \notin eintr /\ service[s] = "ended" /\ goto(s, "delete") /\ UNCHANGED eintr
  /\ UNCHANGED <<program, relative, dir, written, handler, known, service, told, stop, leaked>>

(* By its name, whoever has made it; a relative one is not found after     *)
(* chdir("/").                                                             *)
unlink(s) == dir' = IF relative /\ at[s] = "delete" THEN dir ELSE NONE

delete_pidfile(s) ==
  /\ at[s] \in {"undo", "delete"} /\ goto(s, "exit")
  /\ unlink(s)
  /\ UNCHANGED <<program, relative, written, handler, known, eintr, service, told, stop, leaked>>

(* The runner, which becomes the service; handlers are reset. *)
execvp(s) ==
  /\ at[s] = "execvp"
  /\ \/ goto(s, "service") /\ service' = [service EXCEPT ![s] = "running"]
     \/ goto(s, "delete") /\ UNCHANGED service
  /\ UNCHANGED <<program, relative, dir, written, handler, known, eintr, told, stop, leaked>>

-----------------------------------------------------------------------------
(* The service *)

(* execvp() in the child of fork_service(), or exit(101). *)
execvp_child(s) ==
  /\ service[s] = "forked"
  /\ \E state \in {"running", "ended"} : service' = [service EXCEPT ![s] = state]
  /\ UNCHANGED <<program, relative, dir, written, at, handler, known, eintr, told, stop, leaked>>

Ends(s) ==
  /\ service' = [service EXCEPT ![s] = "ended"]
  /\ IF program = "runner" THEN goto(s, "exit") ELSE UNCHANGED at
  /\ UNCHANGED <<program, relative, dir, written, handler, known, eintr, told, stop, leaked>>

(* A service runs as long as it likes, or until it was told to end. *)
service_ends(s) == service[s] = "running" /\ Ends(s)
service_obeys(s) == service[s] = "terminating" /\ Ends(s)

-----------------------------------------------------------------------------
(* stop_service() *)

Forwards(s) == s \in known

(* The child of fork_service() has no sighandler_pid to forward to.        *)
Terminate(s) ==
  service' = IF service[s] = "running" THEN [service EXCEPT ![s] = "terminating"] ELSE service

(* SIGTERM is sent to the process s: a daemon without the handler is       *)
(* killed; one that has no sighandler_pid yet ignores the signal.          *)
SIGTERM(s) ==
  CASE at[s] = "service" -> Terminate(s) /\ UNCHANGED <<at, eintr>>
    [] at[s] # "service" /\ s \notin handler -> goto(s, "exit") /\ UNCHANGED <<service, eintr>>
    [] at[s] # "service" /\ s \in handler /\ Forwards(s) ->
         /\ Terminate(s)
         /\ eintr' = IF at[s] = "wait" THEN eintr \cup {s} ELSE eintr
         /\ UNCHANGED at
    [] OTHER -> UNCHANGED <<at, service, eintr>>

Executed(s) == service[s] \in {"running", "terminating"} /\ at[s] \in {"wait", "service"}

fscanf(t) ==
  /\ stop[t].at = "read"
  /\ stop' = [stop EXCEPT ![t] = IF dir \in written THEN [at |-> "kill", pid |-> dir]
                                 ELSE [at |-> "done", pid |-> NONE]]
  /\ UNCHANGED <<program, relative, dir, written, at, handler, known, eintr, service, told, leaked>>

kill(t) ==
  /\ stop[t].at = "kill"
  /\ stop' = [stop EXCEPT ![t].at = IF program = "runner" THEN "delete" ELSE "done"]
  /\ IF at[stop[t].pid] = "exit" THEN UNCHANGED <<at, service, eintr>> ELSE SIGTERM(stop[t].pid)
  /\ told' = IF Executed(stop[t].pid) THEN told \cup {stop[t].pid} ELSE told
  /\ UNCHANGED <<program, relative, dir, written, handler, known, leaked>>

(* main() of the runner, in the directory of the user *)
stop_delete(t) ==
  /\ stop[t].at = "delete"
  /\ stop' = [stop EXCEPT ![t].at = "done"]
  /\ dir' = NONE
  /\ UNCHANGED <<program, relative, written, at, handler, known, eintr, service, told, leaked>>

-----------------------------------------------------------------------------
ServiceInit ==
  /\ program \in {"sample", "runner"} /\ relative \in BOOLEAN
  /\ dir = NONE /\ written = {}
  /\ at = [s \in Start |-> "open"]
  /\ handler = {} /\ known = {} /\ eintr = {} /\ leaked = {}
  /\ service = [s \in Start |-> "none"]
  /\ told = {}
  /\ stop = [t \in Stop |-> [at |-> "read", pid |-> NONE]]

(* What the programs do by themselves; they are never blocked for ever     *)
(* but in waitpid().                                                       *)
Proceed(s) ==
  \/ daemonize(s) \/ setup_log(s) \/ set_sighandler(s) \/ close_pidfile(s)
  \/ fork_service(s) \/ set_sighandler_pid(s) \/ wait_service(s) \/ delete_pidfile(s)
  \/ execvp(s) \/ execvp_child(s) \/ service_obeys(s)

ServiceNext ==
  \/ \E s \in Start : open_pidfile(s) \/ Proceed(s) \/ service_ends(s)
  \/ \E t \in Stop : fscanf(t) \/ kill(t) \/ stop_delete(t)

ServiceFairness == \A s \in Start : WF_service_vars(Proceed(s))

ServiceSpec == ServiceInit /\ [][ServiceNext]_service_vars /\ ServiceFairness

-----------------------------------------------------------------------------
Label ==
  {"open", "daemonize", "setup_log", "set_sighandler", "close_pidfile", "fork", "set_pid",
   "wait", "undo", "delete", "execvp", "service", "exit"}

ServiceTypeOK ==
  /\ program \in {"sample", "runner"} /\ relative \in BOOLEAN
  /\ dir \in Start \cup {NONE}
  /\ written \subseteq Start /\ handler \subseteq Start /\ known \subseteq Start
  /\ eintr \subseteq Start /\ told \subseteq Start /\ leaked \subseteq Start
  /\ at \in [Start -> Label]
  /\ service \in [Start -> {"none", "forked", "running", "terminating", "ended"}]
  /\ stop \in [Stop -> [at : {"read", "kill", "delete", "done"}, pid : Start \cup {NONE}]]

Runs(s) == service[s] \in {"forked", "running", "terminating"}

(* A pid file stands for one service: the sample program never lets two of *)
(* them run, because it deletes the file only when its own has ended.      *)
OneService ==
  program = "sample" => \A s, t \in Start : Runs(s) /\ Runs(t) => s = t

(* The sample program leaves no pid file behind, whenever it is stopped:   *)
(* its number can be read only when it catches the signal.                 *)
PidfileRemoved ==
  program = "sample" /\ ~relative =>
    \A s \in Start : at[s] = "exit" /\ s \notin leaked => dir # s

(* A service that runs when stop sends its SIGTERM ends, and the sample    *)
(* program after it.  (A signal that comes before sighandler_pid is set,   *)
(* or before the program is executed, is lost.)                            *)
StopEnds ==
  \A s \in Start : s \in told ~> (service[s] = "ended" /\ at[s] = "exit")
=============================================================================
