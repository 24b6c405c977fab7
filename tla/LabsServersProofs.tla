-------------------------- MODULE LabsServersProofs --------------------------
(***************************************************************************)
(* Proofs about the programs of posix-programming_labs: Service for any    *)
(* calls of start and stop, LogRedirect for any number of lines and any    *)
(* size of the pipes, ThreadServer for any number of connections.          *)
(***************************************************************************)
EXTENDS Service, LogRedirect, ThreadServer, SequenceTheorems, FiniteSetTheorems, TLAPS

(* Where a start of the sample program has its pid file, where it may have *)
(* a service, and where a signal finds the handler.                        *)
Holds == {"daemonize", "set_sighandler", "close_pidfile", "fork", "set_pid", "wait", "undo", "delete"}
Attends == {"set_pid", "wait"}
Guarded == {"close_pidfile", "fork", "set_pid", "wait"}

Way == Holds \cup {"open", "exit"}

(* That no two services run, and that no pid file stays behind, holds      *)
(* because a start holds the pid file for as long as it has a service, and *)
(* because the handler is there before the number can be read: no stop     *)
(* kills a start that has one.                                             *)
Supervised ==
  /\ \A s \in Start :
       /\ at[s] \in Way
       /\ at[s] \in Holds => dir = s
       /\ at[s] = "open" => dir # s
       /\ Runs(s) => at[s] \in Attends
       /\ at[s] \in Guarded => s \in handler
       /\ at[s] = "exit" /\ s \notin leaked /\ ~relative => dir # s
  /\ written \subseteq handler
  /\ \A t \in Stop : stop[t].at # "delete" /\ (stop[t].at = "kill" => stop[t].pid \in handler)

(* The types alone are not inductive: a signal goes to a process.          *)
Typed ==
  ServiceTypeOK /\ \A t \in Stop : stop[t].at = "kill" => stop[t].pid \in Start

ServiceInv == Typed /\ (program = "sample" => Supervised)

-----------------------------------------------------------------------------
LEMMA ServiceInitHolds == ServiceInit => ServiceInv
BY ServiceAssumption DEF ServiceInit, ServiceInv, Typed, ServiceTypeOK, Supervised, Label, Way, Holds,
                         Attends, Guarded, Runs

LEMMA ServiceTypeStep == Typed /\ [ServiceNext]_service_vars => Typed'
<1> SUFFICES ASSUME Typed, [ServiceNext]_service_vars
             PROVE  Typed'
  OBVIOUS
<1> USE DEF Typed, ServiceTypeOK, goto, Label
<1>1. ASSUME NEW s \in Start, open_pidfile(s)
      PROVE  Typed'
  BY <1>1 DEF open_pidfile
<1>2. ASSUME NEW s \in Start,
             daemonize(s) \/ setup_log(s) \/ set_sighandler(s) \/ close_pidfile(s)
      PROVE  Typed'
  BY <1>2 DEF daemonize, setup_log, set_sighandler, close_pidfile, step, next_label, Installed
<1>3. ASSUME NEW s \in Start,
             fork_service(s) \/ set_sighandler_pid(s) \/ wait_service(s) \/ delete_pidfile(s)
      PROVE  Typed'
  BY <1>3 DEF fork_service, set_sighandler_pid, wait_service, wait_again, delete_pidfile, unlink
<1>4. ASSUME NEW s \in Start, execvp(s) \/ execvp_child(s)
      PROVE  Typed'
  BY <1>4 DEF execvp, execvp_child
<1>5. ASSUME NEW s \in Start, service_obeys(s) \/ service_ends(s)
      PROVE  Typed'
  BY <1>5 DEF service_obeys, service_ends, Ends
<1>6. ASSUME NEW t \in Stop, fscanf(t)
      PROVE  Typed'
  BY <1>6 DEF fscanf
<1>7. ASSUME NEW t \in Stop, kill(t)
      PROVE  Typed'
  <2>1. stop' \in [Stop -> [at : {"read", "kill", "delete", "done"}, pid : Start \cup {NONE}]]
    BY <1>7 DEF kill
  <2>2. /\ at' \in [Start -> Label] /\ eintr' \subseteq Start
        /\ service' \in [Start -> {"none", "forked", "running", "terminating", "ended"}]
    BY <1>7 DEF kill, SIGTERM, Terminate, Forwards
  <2>3. told' \subseteq Start
    BY <1>7 DEF kill
  <2>4. \A u \in Stop : stop'[u].at = "kill" => stop'[u].pid \in Start
    BY <1>7 DEF kill
  <2> QED
    BY <1>7, <2>1, <2>2, <2>3, <2>4 DEF kill
<1>8. ASSUME NEW t \in Stop, stop_delete(t)
      PROVE  Typed'
  BY <1>8 DEF stop_delete
<1>9. CASE UNCHANGED service_vars
  BY <1>9 DEF service_vars
<1> QED
  BY <1>1, <1>2, <1>3, <1>4, <1>5, <1>6, <1>7, <1>8, <1>9 DEF ServiceNext, Proceed

-----------------------------------------------------------------------------
(* The sample program up to its service. *)
LEMMA StartKeeps ==
  ASSUME ServiceInv, program = "sample", Supervised, NEW s \in Start,
         \/ open_pidfile(s) \/ daemonize(s) \/ setup_log(s)
         \/ set_sighandler(s) \/ close_pidfile(s)
  PROVE  Supervised'
<1> USE DEF ServiceInv, Typed, ServiceTypeOK, Supervised, Way, Holds, Attends, Guarded, Runs, goto
<1>1. CASE open_pidfile(s)
  BY <1>1, ServiceAssumption DEF open_pidfile, Created
<1>2. CASE daemonize(s)
  BY <1>2 DEF daemonize, step, next_label
<1>3. CASE setup_log(s)
  BY <1>3 DEF setup_log, step, next_label
<1>4. CASE set_sighandler(s)
  BY <1>4 DEF set_sighandler, step, next_label, Installed
<1>5. CASE close_pidfile(s)
  <2>1. /\ at[s] = "close_pidfile" /\ s \in handler
        /\ at' \in {[at EXCEPT ![s] = "fork"], [at EXCEPT ![s] = "delete"]}
        /\ written' \subseteq written \cup {s}
        /\ UNCHANGED <<program, relative, dir, handler, service, stop, leaked>>
    BY <1>5 DEF close_pidfile, step, next_label
  <2> QED
    BY <2>1
<1> QED
  BY <1>1, <1>2, <1>3, <1>4, <1>5

(* The supervision of the service, and its end. *)
LEMMA WaitKeeps ==
  ASSUME ServiceInv, program = "sample", Supervised, NEW s \in Start,
         \/ fork_service(s) \/ set_sighandler_pid(s) \/ wait_service(s)
         \/ delete_pidfile(s) \/ execvp(s) \/ execvp_child(s)
         \/ service_obeys(s) \/ service_ends(s)
  PROVE  Supervised'
<1> USE DEF ServiceInv, Typed, ServiceTypeOK, Supervised, Way, Holds, Attends, Guarded, Runs, goto
<1>1. CASE fork_service(s) \/ set_sighandler_pid(s)
  BY <1>1 DEF fork_service, set_sighandler_pid
<1>2. CASE wait_service(s)
  BY <1>2 DEF wait_service, wait_again
<1>3. CASE delete_pidfile(s)
  (* It has no service any more, and it is its own file that goes.         *)
  <2>1. /\ at[s] \in {"undo", "delete"} /\ at' = [at EXCEPT ![s] = "exit"]
        /\ dir' = dir \/ dir' = NONE
        /\ ~relative => dir' = NONE
        /\ UNCHANGED <<program, relative, written, handler, service, stop, leaked>>
    BY <1>3 DEF delete_pidfile, unlink
  <2>2. dir = s /\ \A t \in Start \ {s} : at[t] \notin Holds
    BY <2>1
  <2> QED
    BY <2>1, <2>2, ServiceAssumption
<1>4. CASE execvp(s)
  BY <1>4 DEF execvp
<1>5. CASE execvp_child(s)
  BY <1>5 DEF execvp_child
<1>6. CASE service_obeys(s) \/ service_ends(s)
  BY <1>6 DEF service_obeys, service_ends, Ends
<1> QED
  BY <1>1, <1>2, <1>3, <1>4, <1>5, <1>6

(* No signal kills a start of the sample program. *)
LEMMA StopKeeps ==
  ASSUME ServiceInv, program = "sample", Supervised, NEW t \in Stop,
         fscanf(t) \/ kill(t) \/ stop_delete(t)
  PROVE  Supervised'
<1> USE DEF ServiceInv, Typed, ServiceTypeOK, Supervised, Way, Holds, Attends, Guarded, Runs, goto
<1>1. CASE fscanf(t)
  BY <1>1 DEF fscanf
<1>2. CASE kill(t)
  <2>1. /\ stop' = [stop EXCEPT ![t].at = "done"]
        /\ UNCHANGED <<program, relative, dir, written, handler, leaked>>
    BY <1>2 DEF kill
  <2>2. stop[t].pid \in Start /\ stop[t].pid \in handler /\ at[stop[t].pid] # "service"
    BY <1>2 DEF kill
  <2>3. /\ at' = at
        /\ \A s \in Start : Runs(s)' => Runs(s)
    BY <1>2, <2>2 DEF kill, SIGTERM, Terminate
  <2> QED
    BY <2>1, <2>3
<1>3. CASE stop_delete(t)
  BY <1>3 DEF stop_delete
<1> QED
  BY <1>1, <1>2, <1>3

LEMMA ServiceStep == ServiceInv /\ [ServiceNext]_service_vars => ServiceInv'
<1> SUFFICES ASSUME ServiceInv, [ServiceNext]_service_vars
             PROVE  ServiceInv'
  OBVIOUS
<1>1. Typed'
  BY ServiceTypeStep DEF ServiceInv
<1>2. program' = program
  <2>1. ASSUME NEW s \in Start, open_pidfile(s) \/ Proceed(s) \/ service_ends(s)
        PROVE  program' = program
    BY <2>1 DEF open_pidfile, Proceed, daemonize, setup_log, set_sighandler, close_pidfile,
                fork_service, set_sighandler_pid, wait_service, delete_pidfile, execvp,
                execvp_child, service_obeys, service_ends, Ends
  <2>2. ASSUME NEW t \in Stop, fscanf(t) \/ kill(t) \/ stop_delete(t)
        PROVE  program' = program
    BY <2>2 DEF fscanf, kill, stop_delete
  <2> QED
    BY <2>1, <2>2 DEF ServiceNext, service_vars
<1>3. ASSUME program = "sample"
      PROVE  Supervised'
  <2>1. Supervised
    BY <1>3 DEF ServiceInv
  <2>2. CASE UNCHANGED service_vars
    BY <2>1, <2>2 DEF service_vars, Supervised, Runs
  <2> QED
    BY <1>3, <2>1, <2>2, StartKeeps, WaitKeeps, StopKeeps DEF ServiceNext, Proceed
<1> QED
  BY <1>1, <1>2, <1>3 DEF ServiceInv

-----------------------------------------------------------------------------
(* The variables of the services keep their types.                         *)
THEOREM ServiceTyped == ServiceSpec => []ServiceTypeOK
<1>1. ServiceInv => ServiceTypeOK
  BY DEF ServiceInv, Typed
<1> QED
  BY <1>1, ServiceInitHolds, ServiceStep, PTL DEF ServiceSpec

(* However often the sample program is started and stopped, at most one    *)
(* service runs.                                                           *)
THEOREM NeverTwoServices == ServiceSpec => []OneService
<1>1. ServiceInv => OneService
  BY DEF ServiceInv, Supervised, OneService, Attends, Holds
<1> QED
  BY <1>1, ServiceInitHolds, ServiceStep, PTL DEF ServiceSpec

(* Whenever the sample program is stopped, its pid file is gone when it    *)
(* ends, if the path of the file is absolute.                              *)
THEOREM NoPidfileStays == ServiceSpec => []PidfileRemoved
<1>1. ServiceInv => PidfileRemoved
  BY DEF ServiceInv, Supervised, PidfileRemoved
<1> QED
  BY <1>1, ServiceInitHolds, ServiceStep, PTL DEF ServiceSpec

-----------------------------------------------------------------------------
(* The logging of the streams of a program.                                *)
(* What the lines are, which are numbered in the order of their printing.  *)
Line == 1..Lines

(* The lines of a stream have numbers that grow, and no line has two       *)
(* streams.                                                                *)
Numbered ==
  /\ log \in [R -> Seq(Line)] /\ log_pipe \in [R -> Seq(Line)]
  /\ printed \in [R -> Seq(Line)]
  /\ LinesPrinted <= Lines
  /\ \A r \in R : \A ln \in Elements(printed[r]) : ln <= LinesPrinted
  /\ \A ln \in gone : ln <= LinesPrinted
  /\ \A q, r \in R : q # r => Elements(printed[q]) \cap Elements(printed[r]) = {}

Does(labels) == logged_program \in labels

(* Where the streams of the program go, what becomes of it while no        *)
(* process is killed, and that nothing lies in a pipe that nobody reads.   *)
Streaming ==
  /\ plugin \in {"logfile", "logfile2"}
  /\ writers \in [R -> SUBSET (Logger \cup {"program"})]
  /\ \A r \in R : ~reads(r) => log_pipe[r] = <<>>
  /\ Does({<<"handlers">>, <<"run">>}) => \A r \in R : log_fd[r] = "pipe" => r \in saved /\ r \in pid
  /\ Does({<<"start", "out">>, <<"start", "err">>}) =>
       saved = R /\ \A r \in R : printed[r] = <<>>
  /\ Does({<<"start", "err">>}) =>
       /\ plugin = "logfile" /\ log_fd["out"] = "pipe" /\ "out" \in pid
       /\ ~killed => reads("out") /\ "program" \in writers["out"]

(* As long as no process is killed, everything is in its pipe or logged.   *)
Undisturbed ==
  ~killed =>
    /\ \A r \in R : printed[r] = Kept(r)
    /\ Does({<<"handlers">>, <<"run">>, <<"exec">>}) =>
         \A r \in R : log_fd[r] = "pipe" /\ "program" \in writers[r] /\ reads(r)
    /\ Does({<<"handlers">>, <<"run">>, <<"restore", "out">>, <<"restore", "err">>, <<"wait", "out">>})
         => pid = R
    /\ Does({<<"wait", "err">>}) => "err" \in pid /\ logger[of("out")] \in Departed
    /\ Does({<<"stopped">>}) => \A r \in R : logger[of(r)] \in Departed

(* What LogRedirect keeps, with what it rests on.                          *)
RedInv == RedirectTypeOK /\ Numbered /\ Streaming /\ Undisturbed /\ LoggedOnce

-----------------------------------------------------------------------------
LEMMA SetOfAppended ==
  ASSUME NEW S, NEW s \in Seq(S), NEW x \in S
  PROVE  Elements(Append(s, x)) = Elements(s) \cup {x}
<1>1. /\ Len(Append(s, x)) = Len(s) + 1 /\ Len(s) \in Nat
      /\ Append(s, x)[Len(s) + 1] = x /\ \A k \in 1..Len(s) : Append(s, x)[k] = s[k]
  BY AppendProperties, LenProperties
<1>2. PICK u : u = Append(s, x)
  OBVIOUS
<1>3. \A k : k \in 1..Len(u) <=> k \in 1..Len(s) \/ k = Len(s) + 1
  BY <1>1, <1>2
<1>4. Elements(u) = Elements(s) \cup {x}
  BY <1>1, <1>2, <1>3 DEF Elements
<1> QED
  BY <1>2, <1>4

LEMMA SetOfJoined ==
  ASSUME NEW s \in Seq(Line), NEW t \in Seq(Line), NEW u, u = s \o t
  PROVE  Elements(u) = Elements(s) \cup Elements(t)
<1>1. /\ Len(u) = Len(s) + Len(t) /\ Len(s) \in Nat /\ Len(t) \in Nat
      /\ \A k \in 1..(Len(s) + Len(t)) : u[k] = IF k <= Len(s) THEN s[k] ELSE t[k - Len(s)]
  BY ConcatProperties, LenProperties
<1>2. ASSUME NEW x \in Elements(u)
      PROVE  x \in Elements(s) \cup Elements(t)
  <2>1. PICK k \in 1..Len(u) : x = u[k]
    BY DEF Elements
  <2>2. CASE k <= Len(s)
    BY <1>1, <2>1, <2>2 DEF Elements
  <2>3. CASE ~(k <= Len(s))
    <3>1. k - Len(s) \in 1..Len(t)
      BY <1>1, <2>3
    <3> QED
      BY <1>1, <2>1, <2>3, <3>1 DEF Elements
  <2> QED
    BY <2>2, <2>3
<1>3. ASSUME NEW k \in 1..Len(s)
      PROVE  s[k] \in Elements(u)
  BY <1>1 DEF Elements
<1>4. ASSUME NEW k \in 1..Len(t)
      PROVE  t[k] \in Elements(u)
  <2>1. k + Len(s) \in 1..Len(u) /\ u[k + Len(s)] = t[k]
    BY <1>1
  <2> QED
    BY <2>1 DEF Elements
<1>5. Elements(u) = Elements(s) \cup Elements(t)
  <2>1. \A x \in Elements(s) \cup Elements(t) : x \in Elements(u)
    BY <1>3, <1>4 DEF Elements
  <2> QED
    BY <1>2, <2>1
<1> QED
  BY <1>1, <1>5

Growing(s) == \A j, k \in 1..Len(s) : j < k => s[j] < s[k]

(* A line that comes after all others, and a sequence without its end.     *)
LEMMA GrowsOn ==
  ASSUME NEW s \in Seq(Line), NEW x \in Line, NEW u, u = Append(s, x), Growing(s),
         \A ln \in Elements(s) : ln < x
  PROVE  Growing(u)
<1>1. /\ Len(u) = Len(s) + 1 /\ Len(s) \in Nat
      /\ u[Len(s) + 1] = x /\ \A k \in 1..Len(s) : u[k] = s[k]
  BY AppendProperties, LenProperties
<1> SUFFICES ASSUME NEW j \in 1..Len(u), NEW k \in 1..Len(u), j < k
             PROVE  u[j] < u[k]
  BY DEF Growing
<1>2. CASE k = Len(s) + 1
  <2>1. j \in 1..Len(s)
    BY <1>1, <1>2
  <2> QED
    BY <1>1, <1>2, <2>1 DEF Elements
<1>3. CASE k # Len(s) + 1
  BY <1>1, <1>3 DEF Growing
<1> QED
  BY <1>2, <1>3

LEMMA GrowsTo ==
  ASSUME NEW s \in Seq(Line), NEW t \in Seq(Line), NEW u, u = s \o t, Growing(u)
  PROVE  Growing(s) /\ Elements(s) \cap Elements(t) = {}
<1>1. /\ Len(u) = Len(s) + Len(t) /\ Len(s) \in Nat /\ Len(t) \in Nat
      /\ \A k \in 1..(Len(s) + Len(t)) : u[k] = IF k <= Len(s) THEN s[k] ELSE t[k - Len(s)]
  BY ConcatProperties, LenProperties
<1>2. \A k \in 1..Len(s) : k \in 1..Len(u) /\ u[k] = s[k]
  BY <1>1
<1>3. Growing(s)
  BY <1>2 DEF Growing
<1>4. ASSUME NEW j \in 1..Len(s), NEW k \in 1..Len(t)
      PROVE  s[j] # t[k]
  <2>1. k + Len(s) \in 1..Len(u) /\ u[k + Len(s)] = t[k] /\ j < k + Len(s)
    BY <1>1
  <2>2. s[j] < t[k]
    BY <1>2, <2>1 DEF Growing
  <2>3. s[j] \in Line /\ t[k] \in Line
    BY ElementOfSeq
  <2> QED
    BY <2>2, <2>3 DEF Line
<1> QED
  BY <1>3, <1>4 DEF Elements

-----------------------------------------------------------------------------
(* The steps that leave the lines where they are.                          *)
Moves == Starts \/ start_fails \/ logger_stop \/ Stops \/ runner_execvp \/ logged_ends
           \/ \E l \in R : exit(l)

LEMMA AfterIs ==
  /\ After(<<"restore", "out">>) = <<"restore", "err">>
  /\ After(<<"restore", "err">>) = <<"wait", "out">>
  /\ After(<<"wait", "out">>) = <<"wait", "err">>
  /\ After(<<"wait", "err">>) = <<"stopped">>
<1>1. /\ Order[1] = <<"restore", "out">> /\ Order[2] = <<"restore", "err">>
      /\ Order[3] = <<"wait", "out">> /\ Order[4] = <<"wait", "err">>
  BY DEF Order
<1>2. \A ln : ln \in 1..4 <=> ln = 1 \/ ln = 2 \/ ln = 3 \/ ln = 4
  OBVIOUS
<1>3. ASSUME NEW ln \in 1..4, NEW call, call = Order[ln]
      PROVE  (CHOOSE m \in 1..4 : Order[m] = call) = ln
  <2>1. \A m \in 1..4 : Order[m] = call => m = ln
    BY <1>1, <1>2, <1>3
  <2> QED
    BY <1>3, <2>1
<1> QED
  BY <1>1, <1>2, <1>3 DEF After

ProgramLabel == {<<"handlers">>, <<"run">>, <<"exec">>, <<"ended">>, <<"stopped">>} \cup ({"start", "restore", "wait"} \X R)

LEMMA Labels == /\ \A r \in R : <<"start", r>> \in ProgramLabel /\ <<"restore", r>> \in ProgramLabel /\ <<"wait", r>> \in ProgramLabel
                /\ <<"handlers">> \in ProgramLabel /\ <<"run">> \in ProgramLabel /\ <<"exec">> \in ProgramLabel /\ <<"ended">> \in ProgramLabel /\ <<"stopped">> \in ProgramLabel
                /\ "out" \in R /\ "err" \in R /\ \A r \in R : r = "out" \/ r = "err"
BY DEF ProgramLabel, R

(* The state of the processes has its types.                               *)
Processes ==
  /\ logged_program \in ProgramLabel
  /\ log_fd \in [R -> {"saved", "pipe"}] /\ saved \subseteq R /\ pid \subseteq R
  /\ writers \in [R -> SUBSET (Logger \cup {"program"})]
  /\ logger \in [Logger -> {"none", "reading", "closing", "zombie", "dead"}]

LEMMA MovesTyped ==
  ASSUME Processes, Moves
  PROVE  Processes' /\ UNCHANGED <<plugin, log, log_pipe, printed, gone, killed>>
<1> USE Labels DEF Processes
<1>1. ASSUME NEW r \in R, fork_redir(r)
      PROVE  Processes' /\ UNCHANGED <<plugin, log, log_pipe, printed, gone, killed>>
  <2>1. logged_program' \in ProgramLabel
    BY <1>1 DEF fork_redir
  <2>2. writers' \in [R -> SUBSET (Logger \cup {"program"})]
    <3>1. writers' = [q \in R |-> IF q = r THEN {"program"}
                                      ELSE IF "program" \in writers[q] THEN writers[q] \cup {r} ELSE writers[q]]
      BY <1>1 DEF fork_redir
    <3>2. r \in Logger
      BY DEF R, Logger
    <3> QED
      BY <3>1, <3>2
  <2>3. logger' \in [Logger -> {"none", "reading", "closing", "zombie", "dead"}]
    BY <1>1 DEF fork_redir
  <2>4. log_fd' \in [R -> {"saved", "pipe"}] /\ saved' \subseteq R /\ pid' \subseteq R
    BY <1>1 DEF fork_redir
  <2> QED
    BY <1>1, <2>1, <2>2, <2>3, <2>4 DEF fork_redir
<1>2. CASE fork_redirs \/ set_sig_handlers
  BY <1>2 DEF fork_redirs, set_sig_handlers
<1>3. CASE start_fails
  BY <1>3 DEF start_fails
<1>4. CASE logger_stop
  BY <1>4 DEF logger_stop, Order
<1>5. ASSUME NEW r \in R, restore_redir(r)
      PROVE  Processes' /\ UNCHANGED <<plugin, log, log_pipe, printed, gone, killed>>
  <2>1. logged_program' \in ProgramLabel
    BY <1>5, AfterIs DEF restore_redir
  <2> QED
    BY <1>5, <2>1 DEF restore_redir, restore
<1>6. ASSUME NEW r \in R, waitpid_redir(r)
      PROVE  Processes' /\ UNCHANGED <<plugin, log, log_pipe, printed, gone, killed>>
  <2>1. logged_program' \in ProgramLabel
    BY <1>6, AfterIs DEF waitpid_redir
  <2> QED
    BY <1>6, <2>1 DEF waitpid_redir
<1>7. CASE runner_execvp \/ logged_ends
  BY <1>7 DEF runner_execvp, logged_ends
<1>8. CASE \E l \in R : exit(l)
  BY <1>8 DEF exit
<1> QED
  BY <1>1, <1>2, <1>3, <1>4, <1>5, <1>6, <1>7, <1>8 DEF Moves, Starts, Stops

LEMMA MovesKeepStream ==
  ASSUME RedInv, Processes, Moves
  PROVE  Streaming' /\ Undisturbed'
<1>1. Processes' /\ UNCHANGED <<plugin, log, log_pipe, printed, gone, killed>>
  BY MovesTyped
<1>2. /\ \A r \in R : of(r) \in Logger /\ of(r) \in R
      /\ \A r \in R : of(r)' = of(r)
      /\ \A r \in R : (Kept(r))' = Kept(r)
      /\ plugin = "logfile" => \A r \in R : of(r) = r
      /\ plugin = "logfile2" => \A r \in R : of(r) = "out"
      /\ plugin \in {"logfile", "logfile2"} /\ "out" \in R /\ "err" \in R
      /\ \A r \in R : r = "out" \/ r = "err"
  BY <1>1 DEF of, R, Logger, Kept, RedInv, Streaming
<1> USE DEF reads, Does
<1>3. ASSUME NEW r \in R, fork_redir(r)
      PROVE  Streaming' /\ Undisturbed'
  BY <1>1, <1>2, <1>3, Labels DEF RedInv, Streaming, Undisturbed, Processes, fork_redir
<1>4. CASE fork_redirs
  BY <1>1, <1>2, <1>4, Labels DEF RedInv, Streaming, Undisturbed, Processes, fork_redirs
<1>9. CASE set_sig_handlers
  BY <1>1, <1>2, <1>9, Labels DEF RedInv, Streaming, Undisturbed, Processes, set_sig_handlers
<1>5. CASE start_fails \/ logged_ends \/ runner_execvp \/ logger_stop
  BY <1>1, <1>2, <1>5, Labels DEF RedInv, Streaming, Undisturbed, Processes, start_fails, logged_ends,
       runner_execvp, logger_stop, Order
<1>6. ASSUME NEW r \in R, restore_redir(r)
      PROVE  Streaming' /\ Undisturbed'
  <2>1. /\ \/ r = "out" /\ logged_program = <<"restore", "out">> /\ logged_program' = <<"restore", "err">>
           \/ r = "err" /\ logged_program = <<"restore", "err">> /\ logged_program' = <<"wait", "out">>
        /\ UNCHANGED <<plugin, pid, log_pipe, logger, log, printed, gone, killed>>
    BY <1>2, <1>6, AfterIs DEF restore_redir
  <2>2. Streaming'
    BY <1>1, <1>2, <2>1 DEF RedInv, Streaming, Processes
  <2>3. Undisturbed'
    BY <1>1, <1>2, <2>1 DEF RedInv, Undisturbed, Processes
  <2> QED
    BY <2>2, <2>3
<1>7. ASSUME NEW r \in R, waitpid_redir(r)
      PROVE  Streaming' /\ Undisturbed'
  BY <1>1, <1>2, <1>7, AfterIs, Labels, SMTT(40) DEF RedInv, Streaming, Undisturbed, Processes, waitpid_redir, Waited, Departed
<1>8. ASSUME NEW l \in R, exit(l)
      PROVE  Streaming' /\ Undisturbed'
  BY <1>1, <1>2, <1>8 DEF RedInv, Streaming, Undisturbed, Processes, exit, Departed
<1> QED
  BY <1>3, <1>4, <1>5, <1>6, <1>7, <1>8, <1>9 DEF Moves, Starts, Stops

-----------------------------------------------------------------------------
LEMMA TypesAre ==
  /\ RedInv => Processes
  /\ Processes' /\ (\A r \in R : Len(log_pipe[r])' <= PipeLines) /\ gone' \subseteq 1..Lines /\ killed' \in BOOLEAN
       => RedirectTypeOK'
BY DEF RedInv, RedirectTypeOK, Streaming, Processes, ProgramLabel, R

LEMMA MovesKeep == ASSUME RedInv, Moves
                   PROVE  RedInv'
<1>1. /\ Processes /\ Processes' /\ Streaming' /\ Undisturbed'
      /\ UNCHANGED <<plugin, log, log_pipe, printed, gone, killed>>
  BY TypesAre, MovesTyped, MovesKeepStream
<1>2. RedirectTypeOK'
  BY <1>1, TypesAre DEF RedInv, RedirectTypeOK
<1>3. Numbered' /\ LoggedOnce'
  <2>1. Numbered'
    <3>1. /\ LinesPrinted' = LinesPrinted
          /\ \A r \in R : Elements(printed[r])' = Elements(printed[r])
      BY <1>1 DEF LinesPrinted, Elements
    <3> QED
      BY <1>1, <3>1 DEF RedInv, Numbered
  <2>2. LoggedOnce'
    <3>1. /\ \A r \in R : (Kept(r))' = Kept(r) /\ Elements(printed[r])' = Elements(printed[r])
          /\ \A r \in R : Elements(Kept(r))' = Elements(Kept(r))
      BY <1>1 DEF Kept, Elements
    <3> QED
      BY <1>1, <3>1 DEF RedInv, LoggedOnce
  <2> QED
    BY <2>1, <2>2
<1> QED
  BY <1>1, <1>2, <1>3 DEF RedInv

(* What the numbers of the lines say.                                      *)
LEMMA LinesAre ==
  ASSUME RedirectAssumption, RedInv
  PROVE  /\ LinesPrinted \in Nat /\ Lines \in Nat
         /\ \A r \in R :
              /\ log[r] \in Seq(Line) /\ log_pipe[r] \in Seq(Line) /\ printed[r] \in Seq(Line)
              /\ Kept(r) \in Seq(Line) /\ Growing(Kept(r))
              /\ Elements(Kept(r)) = Elements(log[r]) \cup Elements(log_pipe[r])
              /\ Elements(Kept(r)) = Elements(printed[r]) \ gone
              /\ Elements(log[r]) \cap Elements(log_pipe[r]) = {}
              /\ \A ln \in Elements(printed[r]) : ln \in Line /\ ln <= LinesPrinted
<1>1. \A r \in R : log[r] \in Seq(Line) /\ log_pipe[r] \in Seq(Line) /\ printed[r] \in Seq(Line)
  BY DEF RedInv, Numbered
<1>2. LinesPrinted \in Nat /\ Lines \in Nat
  <2>1. Len(printed["out"]) \in Nat /\ Len(printed["err"]) \in Nat
    BY <1>1, LenProperties, Labels
  <2>2. PICK j, k : j = Len(printed["out"]) /\ k = Len(printed["err"])
    OBVIOUS
  <2>3. LinesPrinted = j + k
    BY ONLY <2>2, Zenon DEF LinesPrinted
  <2>4. j \in Nat /\ k \in Nat
    BY <2>1, <2>2
  <2> QED
    BY ONLY <2>3, <2>4, RedirectAssumption DEF RedirectAssumption
<1>3. ASSUME NEW r \in R
      PROVE  /\ Kept(r) \in Seq(Line) /\ Growing(Kept(r))
             /\ Elements(Kept(r)) = Elements(log[r]) \cup Elements(log_pipe[r])
             /\ Elements(Kept(r)) = Elements(printed[r]) \ gone
             /\ Elements(log[r]) \cap Elements(log_pipe[r]) = {}
  <2>1. log[r] \in Seq(Line) /\ log_pipe[r] \in Seq(Line) /\ Kept(r) = log[r] \o log_pipe[r]
    BY <1>1 DEF Kept
  <2> log[r] \in Seq(Line) /\ log_pipe[r] \in Seq(Line)
    BY <2>1
  <2>6. Kept(r) = log[r] \o log_pipe[r]
    BY <2>1
  <2>2. Kept(r) \in Seq(Line)
    BY <2>1, ConcatProperties
  <2>3. Growing(Kept(r)) /\ Elements(Kept(r)) = Elements(printed[r]) \ gone
    BY DEF RedInv, LoggedOnce, Growing
  <2>4. Elements(Kept(r)) = Elements(log[r]) \cup Elements(log_pipe[r])
    <3>1. PICK s \in Seq(Line), t \in Seq(Line), u \in Seq(Line) :
            s = log[r] /\ t = log_pipe[r] /\ u = Kept(r) /\ u = s \o t
      BY <2>2, <2>6
    <3>2. Elements(u) = Elements(s) \cup Elements(t)
      BY ONLY <3>1, SetOfJoined, Zenon
    <3> QED
      BY <3>1, <3>2
  <2>5. Elements(log[r]) \cap Elements(log_pipe[r]) = {}
    BY ONLY <2>1, <2>3, GrowsTo, Zenon
  <2> QED
    BY <2>2, <2>3, <2>4, <2>5
<1>4. ASSUME NEW r \in R, NEW ln \in Elements(printed[r])
      PROVE  ln \in Line /\ ln <= LinesPrinted
  <2>1. PICK k \in 1..Len(printed[r]) : ln = printed[r][k]
    BY DEF Elements
  <2>2. ln \in Line
    BY <1>1, <2>1, ElementOfSeq
  <2> QED
    BY <2>2 DEF RedInv, Numbered
<1> QED
  BY <1>1, <1>2, <1>3, <1>4

(* A line is printed: its number comes after all others.                   *)
LEMMA PrintNumbers ==
  ASSUME RedirectAssumption, RedInv, NEW r \in R, print(r)
  PROVE  /\ LinesPrinted + 1 \in Line /\ log' = log /\ LinesPrinted' = LinesPrinted + 1
         /\ printed' = [printed EXCEPT ![r] = Append(printed[r], LinesPrinted + 1)]
         /\ printed' \in [R -> Seq(Line)]
         /\ Elements(printed'[r]) = Elements(printed[r]) \cup {LinesPrinted + 1}
         /\ \A q \in R \ {r} : printed'[q] = printed[q] /\ Elements(printed[q])' = Elements(printed[q])
<1>1. LinesPrinted \in Nat /\ Lines \in Nat /\ printed \in [R -> Seq(Line)]
  BY LinesAre DEF RedInv, Numbered
<1>2. PICK x : x = LinesPrinted + 1
  OBVIOUS
<1>3. x \in Line /\ log' = log /\ printed' = [printed EXCEPT ![r] = Append(printed[r], x)]
  BY <1>1, <1>2 DEF print, Line
<1>4. printed[r] \in Seq(Line) /\ printed'[r] = Append(printed[r], x)
  BY <1>1, <1>3
<1>5. Append(printed[r], x) \in Seq(Line) /\ Len(Append(printed[r], x)) = Len(printed[r]) + 1
  BY <1>3, <1>4, AppendProperties
<1>6. Elements(printed'[r]) = Elements(printed[r]) \cup {x}
  <2>1. Elements(Append(printed[r], x)) = Elements(printed[r]) \cup {x}
    BY ONLY <1>3, <1>4, SetOfAppended
  <2> QED
    BY <1>4, <2>1
<1>7. \A q \in R \ {r} : printed'[q] = printed[q] /\ Elements(printed[q])' = Elements(printed[q])
  BY <1>1, <1>3 DEF Elements
<1>8. LinesPrinted' = x
  <2>1. /\ "out" \in R /\ "err" \in R /\ \A q \in R : q = "out" \/ q = "err"
        /\ \A q \in R : Len(printed[q]) \in Nat
    BY <1>1, LenProperties, Labels
  <2>4. PICK j, k, m, ln : j = Len(printed["out"]) /\ k = Len(printed["err"])
                          /\ m = Len(printed'["out"]) /\ ln = Len(printed'["err"])
    OBVIOUS
  <2>5. LinesPrinted = j + k /\ LinesPrinted' = m + ln
    BY ONLY <2>4, Zenon DEF LinesPrinted
  <2>6. j \in Nat /\ k \in Nat
    BY <2>1, <2>4
  <2>7. Len(printed'[r]) = Len(printed[r]) + 1
    BY <1>4, <1>5
  <2>2. CASE r = "out"
    <3>1. m = j + 1 /\ ln = k
      BY <1>7, <2>1, <2>2, <2>4, <2>7
    <3> QED
      BY <1>2, <2>5, <2>6, <3>1
  <2>3. CASE r = "err"
    <3>1. m = j /\ ln = k + 1
      BY <1>7, <2>1, <2>3, <2>4, <2>7
    <3> QED
      BY <1>2, <2>5, <2>6, <3>1
  <2> QED
    BY <2>2, <2>3, Labels
<1> QED
  BY <1>1, <1>2, <1>3, <1>4, <1>5, <1>6, <1>7, <1>8

(* A line that is printed enters its pipe, or is gone; it is gone only     *)
(* when a process was killed.                                              *)
LEMMA PrintMoves ==
  ASSUME RedInv, NEW r \in R, print(r)
  PROVE  /\ Processes' /\ Streaming' /\ plugin' = plugin /\ logger' = logger
         /\ \/ /\ log_pipe' = [log_pipe EXCEPT ![r] = Append(log_pipe[r], LinesPrinted + 1)]
               /\ Len(log_pipe[r]) < PipeLines
               /\ UNCHANGED <<logged_program, log_fd, saved, pid, writers, gone, killed>>
            \/ log_pipe' = log_pipe /\ gone' = gone \cup {LinesPrinted + 1} /\ killed'
<1>1. /\ Processes /\ plugin' = plugin /\ logger' = logger
      /\ \A q \in R : of(q)' = of(q) /\ reads(q)' = reads(q)
      /\ logged_program \in {<<"run">>, <<"exec">>}
  BY TypesAre DEF print, of, reads
<1> USE DEF Does
<1>2. CASE reads(r) /\ log_fd[r] = "pipe"
  <2>1. /\ log_pipe' = [log_pipe EXCEPT ![r] = Append(log_pipe[r], LinesPrinted + 1)]
        /\ Len(log_pipe[r]) < PipeLines
        /\ UNCHANGED <<logged_program, log_fd, saved, pid, writers, gone, killed>>
    BY <1>2 DEF print
  <2>2. \A q \in R : ~reads(q) => log_pipe'[q] = <<>>
    BY <1>2, <2>1 DEF RedInv, Streaming, Numbered
  <2> QED
    BY <1>1, <2>1, <2>2 DEF RedInv, Streaming, Processes
<1>3. CASE ~(reads(r) /\ log_fd[r] = "pipe")
  <2>1. log_pipe' = log_pipe /\ gone' = gone \cup {LinesPrinted + 1}
    BY <1>3 DEF print
  <2>2. killed
    BY <1>1, <1>3 DEF RedInv, Undisturbed
  <2>3. CASE log_fd[r] = "saved"
    <3>1. UNCHANGED <<logged_program, log_fd, saved, pid, writers, killed>>
      BY <1>3, <2>3 DEF print
    <3> QED
      BY <1>1, <2>1, <2>2, <3>1 DEF RedInv, Streaming, Processes
  <2>4. CASE log_fd[r] # "saved" /\ plugin = "logfile" /\ logged_program = <<"run">>
    <3>1. sigpipe_handler /\ UNCHANGED <<logged_program, killed>>
      BY <1>3, <2>4 DEF print
    <3> QED
      BY <1>1, <2>1, <2>2, <3>1, Labels DEF RedInv, Streaming, Processes, sigpipe_handler, restore
  <2>5. CASE log_fd[r] # "saved" /\ ~(plugin = "logfile" /\ logged_program = <<"run">>)
    <3>1. Dies
      BY <1>3, <2>5 DEF print
    <3> QED
      BY <1>1, <2>1, <3>1, Labels DEF RedInv, Streaming, Processes, Dies
  <2> QED
    BY <2>3, <2>4, <2>5
<1> QED
  BY <1>2, <1>3

LEMMA PrintKeeps == ASSUME RedirectAssumption, RedInv, NEW r \in R, print(r)
                    PROVE  RedInv'
<1>1. /\ Processes' /\ Streaming' /\ Lines \in Nat /\ LinesPrinted \in Nat
      /\ gone \subseteq 1..Lines /\ killed \in BOOLEAN /\ \A q \in R : Len(log_pipe[q]) <= PipeLines
  BY PrintMoves, LinesAre DEF RedInv, RedirectTypeOK
<1>2. PICK x \in Line : /\ x = LinesPrinted + 1 /\ log' = log /\ LinesPrinted' = x
                         /\ printed' = [printed EXCEPT ![r] = Append(printed[r], x)]
                         /\ printed' \in [R -> Seq(Line)]
                         /\ Elements(printed'[r]) = Elements(printed[r]) \cup {x}
                         /\ \A q \in R \ {r} : printed'[q] = printed[q] /\ Elements(printed'[q]) = Elements(printed[q])
  BY PrintNumbers
<1>3. /\ \A q \in R : x \notin Elements(printed[q]) /\ x \notin Elements(Kept(q))
                             /\ \A ln \in Elements(printed[q]) \cup Elements(Kept(q)) : ln < x
      /\ x \notin gone
  BY <1>1, <1>2, LinesAre DEF RedInv, Numbered, Line
<1>4. /\ x <= Lines /\ \A q \in R : \A ln \in Elements(printed'[q]) : ln <= x
      /\ \A q1, q2 \in R : q1 # q2 => Elements(printed'[q1]) \cap Elements(printed'[q2]) = {}
      /\ \A ln \in gone : ln <= x
  <2>1. \A q \in R : \A ln \in Elements(printed'[q]) : ln = x \/ (ln \in Nat /\ ln < x)
    <3>1. ASSUME NEW q \in R, NEW ln \in Elements(printed[q])
          PROVE  ln \in Nat /\ ln < x
      <4>1. ln \in Line /\ ln <= LinesPrinted
        BY LinesAre
      <4> QED
        BY <1>1, <1>2, <4>1 DEF Line
    <3>2. ASSUME NEW q \in R, NEW ln \in Elements(printed'[q]), ln # x
          PROVE  ln \in Elements(printed[q])
      BY <1>2, <3>2
    <3> QED
      BY <3>1, <3>2
  <2>2. \A q1, q2 \in R : q1 # q2 => Elements(printed'[q1]) \cap Elements(printed'[q2]) = {}
    BY <1>2, <1>3 DEF RedInv, Numbered
  <2>3. \A ln \in gone : ln \in Nat /\ ln <= LinesPrinted
    BY <1>1 DEF RedInv, Numbered
  <2>4. x \in Nat /\ x <= Lines
    BY <1>1, <1>2 DEF Line
  <2>5. \A ln : ln \in Nat /\ (ln < x \/ ln <= LinesPrinted) => ln <= x
    BY <1>1, <1>2, <2>4
  <2>6. x <= x
    BY <2>4
  <2> QED
    BY <2>1, <2>2, <2>3, <2>4, <2>5, <2>6, Zenon
<1>5. CASE /\ log_pipe' = [log_pipe EXCEPT ![r] = Append(log_pipe[r], LinesPrinted + 1)]
           /\ Len(log_pipe[r]) < PipeLines
           /\ UNCHANGED <<logged_program, log_fd, saved, pid, writers, gone, killed>>
  <2>1. PICK l \in Seq(Line), t \in Seq(Line), k \in Seq(Line) :
          /\ l = log[r] /\ t = log_pipe[r] /\ k = Kept(r) /\ k = l \o t /\ Growing(k)
    BY LinesAre DEF Kept
  <2>2. log_pipe \in [R -> Seq(Line)] /\ log_pipe' = [log_pipe EXCEPT ![r] = Append(t, x)]
    BY <1>2, <1>5, <2>1 DEF RedInv, Numbered
  <2>3. Append(t, x) \in Seq(Line) /\ Len(Append(t, x)) = Len(t) + 1 /\ Len(t) \in Nat
    BY AppendProperties, LenProperties
  <2>4. log_pipe' \in [R -> Seq(Line)] /\ \A q \in R : Len(log_pipe'[q]) <= PipeLines
    BY <1>1, <1>5, <2>1, <2>2, <2>3, RedirectAssumption DEF RedirectAssumption
  <2>5. l \o Append(t, x) = Append(k, x)
    <3>1. <<x>> \in Seq(Line) /\ Append(t, x) = t \o <<x>> /\ Append(k, x) = k \o <<x>>
      BY AppendIsConcat
    <3>2. PICK e \in Seq(Line) : e = <<x>>
      BY <3>1
    <3>3. (l \o t) \o e = l \o (t \o e)
      BY ConcatAssociative
    <3> QED
      BY <2>1, <3>1, <3>2, <3>3
  <2>6. PICK k2 : k2 = Append(k, x)
    OBVIOUS
  <2>7. Kept(r)' = k2 /\ \A q \in R \ {r} : (Kept(q))' = Kept(q)
    BY <1>2, <2>1, <2>2, <2>5, <2>6 DEF Kept
  <2>8. Growing(k2) /\ Elements(k2) = Elements(k) \cup {x}
    <3>1. \A ln \in Elements(k) : ln < x
      BY <1>3, <2>1
    <3>2. Growing(k2)
      BY ONLY <1>2, <2>1, <2>6, <3>1, GrowsOn, Zenon
    <3>3. Elements(Append(k, x)) = Elements(k) \cup {x}
      BY SetOfAppended
    <3> QED
      BY <2>6, <3>2, <3>3
  <2>9. LoggedOnce'
    <3>1. ASSUME NEW q \in R
          PROVE  Elements((Kept(q))') = Elements(printed'[q]) \ gone' /\ Growing((Kept(q))')
      <4>1. Elements(Kept(q)) = Elements(printed[q]) \ gone /\ Growing(Kept(q)) /\ gone' = gone
        BY <1>5, LinesAre
      <4>2. CASE q = r
        BY <1>2, <1>3, <2>1, <2>7, <2>8, <4>1, <4>2
      <4>3. CASE q # r
        BY <1>2, <2>7, <4>1, <4>3
      <4> QED
        BY <4>2, <4>3
    <3> QED
      BY <3>1 DEF LoggedOnce, Growing
  <2>10. Undisturbed'
    <3>1. ~killed => \A q \in R : printed'[q] = (Kept(q))'
      BY <1>2, <2>1, <2>6, <2>7 DEF RedInv, Undisturbed
    <3>2. \A q \in R : of(q)' = of(q) /\ reads(q)' = reads(q)
      BY PrintMoves DEF of, reads
    <3>3. logged_program \in {<<"run">>, <<"exec">>}
      BY DEF print
    <3> QED
      BY <1>5, <3>1, <3>2, <3>3 DEF RedInv, Undisturbed, Does
  <2>11. Numbered'
    BY <1>2, <1>4, <1>5, <2>4 DEF RedInv, Numbered
  <2>12. RedirectTypeOK'
    BY <1>1, <1>5, <2>4, TypesAre
  <2> QED
    BY <1>1, <2>9, <2>10, <2>11, <2>12 DEF RedInv
<1>6. CASE log_pipe' = log_pipe /\ gone' = gone \cup {LinesPrinted + 1} /\ killed'
  <2>1. \A q \in R : (Kept(q))' = Kept(q)
    BY <1>2, <1>6 DEF Kept
  <2>2. LoggedOnce'
    <3>1. ASSUME NEW q \in R
          PROVE  Elements((Kept(q))') = Elements(printed'[q]) \ gone' /\ Growing((Kept(q))')
      <4>1. Elements(Kept(q)) = Elements(printed[q]) \ gone /\ Growing(Kept(q))
        BY LinesAre
      <4>2. Elements(printed'[q]) = Elements(printed[q]) \/ Elements(printed'[q]) = Elements(printed[q]) \cup {x}
        BY <1>2
      <4> QED
        BY <1>2, <1>3, <1>6, <2>1, <4>1, <4>2
    <3> QED
      BY <3>1 DEF LoggedOnce, Growing
  <2>3. Numbered'
    BY <1>1, <1>2, <1>4, <1>6 DEF RedInv, Numbered
  <2>4. RedirectTypeOK'
    BY <1>1, <1>2, <1>6, TypesAre DEF Line
  <2> QED
    BY <1>1, <1>6, <2>2, <2>3, <2>4 DEF RedInv, Undisturbed
<1> QED
  BY <1>5, <1>6, PrintMoves

(* process() moves the lines of its pipe, none is added or lost.           *)
LEMMA ProcessKeeps == ASSUME RedirectAssumption, RedInv, NEW r \in R, process(r)
                      PROVE  RedInv'
<1>1. /\ Processes /\ Processes'
      /\ UNCHANGED <<plugin, logged_program, log_fd, saved, pid, writers, logger, printed, gone, killed>>
  BY TypesAre DEF process, Processes
<1>2. /\ log \in [R -> Seq(Line)] /\ log_pipe \in [R -> Seq(Line)]
      /\ log' = [log EXCEPT ![r] = Kept(r)] /\ log_pipe' = [log_pipe EXCEPT ![r] = <<>>]
  BY DEF RedInv, Numbered, process, Kept
<1>3. /\ <<>> \in Seq(Line) /\ Len(<<>>) = 0
      /\ \A q \in R : Kept(q) \in Seq(Line)
      /\ log' \in [R -> Seq(Line)] /\ log_pipe' \in [R -> Seq(Line)]
  BY <1>2, EmptySeq, LinesAre
<1>4. \A q \in R : (Kept(q))' = Kept(q)
  <2>1. Kept(r) \o <<>> = Kept(r)
    BY <1>3, ConcatEmptySeq
  <2>2. log'[r] = Kept(r) /\ log_pipe'[r] = <<>>
    BY <1>2
  <2>3. \A q \in R \ {r} : log'[q] = log[q] /\ log_pipe'[q] = log_pipe[q]
    BY <1>2
  <2> QED
    BY <2>1, <2>2, <2>3 DEF Kept
<1>5. \A q \in R : of(q)' = of(q) /\ reads(q)' = reads(q)
  BY <1>1 DEF of, reads
<1>6. Numbered'
  <2>1. /\ LinesPrinted' = LinesPrinted
        /\ \A q \in R : Elements(printed[q])' = Elements(printed[q])
    BY <1>1 DEF LinesPrinted, Elements
  <2> QED
    BY <1>1, <1>3, <2>1 DEF RedInv, Numbered
<1>7. LoggedOnce'
  <2>1. /\ \A q \in R : Elements(printed[q])' = Elements(printed[q])
        /\ \A q \in R : Elements(Kept(q))' = Elements(Kept(q))
    BY <1>1, <1>4 DEF Elements
  <2> QED
    BY <1>1, <1>4, <2>1 DEF RedInv, LoggedOnce
<1>8. Streaming' /\ Undisturbed'
  <2>1. \A q \in R : ~reads(q)' => log_pipe'[q] = <<>>
    BY <1>2, <1>5 DEF RedInv, Streaming
  <2>2. Streaming'
    BY <1>1, <1>5, <2>1, Labels DEF RedInv, Streaming, Does
  <2>3. Undisturbed'
    BY <1>1, <1>4, <1>5, Labels DEF RedInv, Undisturbed, Does
  <2> QED
    BY <2>2, <2>3
<1>9. RedirectTypeOK'
  BY <1>1, <1>2, <1>3, TypesAre, RedirectAssumption DEF RedInv, RedirectTypeOK, RedirectAssumption
<1> QED
  BY <1>6, <1>7, <1>8, <1>9 DEF RedInv

(* A logger that ends loses what lies in its pipes, and nothing else.      *)
LEMMA ClosingKeeps == ASSUME RedirectAssumption, RedInv, NEW l \in R, Closes(l)
                      PROVE  Processes' /\ Numbered' /\ LoggedOnce' /\ gone' \subseteq 1..Lines
<1>1. /\ Processes /\ Processes' /\ l \in Logger
      /\ UNCHANGED <<plugin, logged_program, log_fd, saved, pid, log, printed>>
      /\ Streams(l) \subseteq R /\ printed \in [R -> Seq(Line)] /\ log \in [R -> Seq(Line)]
      /\ log_pipe \in [R -> Seq(Line)]
  BY TypesAre DEF Closes, Processes, R, Logger, RedInv, Numbered, Streams
<1>2. /\ log_pipe' = [r \in R |-> IF r \in Streams(l) THEN <<>> ELSE log_pipe[r]]
      /\ gone' = gone \cup UNION {Elements(log_pipe[r]) : r \in Streams(l)}
  BY DEF Closes
<1>3. \A ln : ln \in gone' <=> ln \in gone \/ \E r \in Streams(l) : ln \in Elements(log_pipe[r])
  BY ONLY <1>2
<1>4. \A r \in R : \A ln \in Elements(log_pipe[r]) : /\ ln \in Elements(printed[r]) /\ ln \notin Elements(log[r])
                                                    /\ ln \in Line /\ ln <= LinesPrinted
  BY LinesAre
<1>5. \A ln \in gone' : ln \in Line /\ ln <= LinesPrinted
  BY <1>1, <1>3, <1>4 DEF RedInv, RedirectTypeOK, Numbered, Line
<1>6. /\ <<>> \in Seq(Line) /\ log_pipe' \in [R -> Seq(Line)]
  BY <1>1, <1>2, EmptySeq
<1>7. /\ LinesPrinted' = LinesPrinted
      /\ \A r \in R : Elements(printed[r])' = Elements(printed[r])
  BY <1>1 DEF LinesPrinted, Elements
<1>8. Numbered'
  BY <1>1, <1>5, <1>6, <1>7 DEF RedInv, Numbered
<1>9. ASSUME NEW r \in R
      PROVE  Elements((Kept(r))') = Elements(printed[r]) \ gone' /\ Growing((Kept(r))')
  <2>1. /\ Elements(Kept(r)) = Elements(printed[r]) \ gone
        /\ Elements(Kept(r)) = Elements(log[r]) \cup Elements(log_pipe[r])
        /\ Elements(log[r]) \cap Elements(log_pipe[r]) = {}
        /\ Growing(Kept(r)) /\ Growing(log[r])
    <3>1. PICK s \in Seq(Line), t \in Seq(Line), u \in Seq(Line) :
            s = log[r] /\ t = log_pipe[r] /\ u = Kept(r) /\ u = s \o t /\ Growing(u)
      BY LinesAre DEF Kept
    <3>2. Growing(s)
      BY ONLY <3>1, GrowsTo, Zenon
    <3> QED
      BY <3>1, <3>2, LinesAre
  <2>2. \A q \in R \ {r} : \A ln \in Elements(log_pipe[q]) : ln \notin Elements(printed[r])
    BY <1>4 DEF RedInv, Numbered
  <2>3. CASE r \in Streams(l)
    <3>1. (Kept(r))' = log[r]
      BY <1>1, <1>2, <2>3, ConcatEmptySeq DEF Kept
    <3>2. \A ln \in Elements(printed[r]) : ln \in gone' <=> ln \in gone \/ ln \in Elements(log_pipe[r])
      BY <1>1, <1>3, <2>2, <2>3
    <3>3. Elements(log[r]) = Elements(printed[r]) \ gone'
      BY <2>1, <3>2
    <3> QED
      BY <2>1, <3>1, <3>3
  <2>4. CASE r \notin Streams(l)
    <3>1. (Kept(r))' = Kept(r)
      BY <1>1, <1>2, <2>4 DEF Kept
    <3>2. \A ln \in Elements(printed[r]) : ln \in gone' <=> ln \in gone
      BY <1>1, <1>3, <2>2, <2>4
    <3>3. Elements(Kept(r)) = Elements(printed[r]) \ gone'
      BY <2>1, <3>2
    <3> QED
      BY <2>1, <3>1, <3>3
  <2> QED
    BY <2>3, <2>4
<1>10. LoggedOnce'
  BY <1>1, <1>9 DEF LoggedOnce, Growing
<1> QED
  BY <1>1, <1>5, <1>8, <1>10 DEF Line

LEMMA ClosesKeeps ==
  ASSUME RedirectAssumption, RedInv, NEW l \in R, end_of_file(l) \/ SIGKILL(l)
  PROVE  RedInv'
<1>1. Closes(l) /\ logger[l] = "reading" /\ l \in Logger
  BY DEF end_of_file, SIGKILL, R, Logger
<1>2. Processes /\ Processes' /\ Numbered' /\ LoggedOnce' /\ gone' \subseteq 1..Lines
  BY <1>1, ClosingKeeps, TypesAre
<1>3. /\ UNCHANGED <<plugin, logged_program, log_fd, saved, pid, log, printed>>
      /\ logger' = [logger EXCEPT ![l] = "closing"]
      /\ writers' = [r \in R |-> writers[r] \ {l}]
      /\ log_pipe' = [r \in R |-> IF r \in Streams(l) THEN <<>> ELSE log_pipe[r]]
      /\ killed' \in BOOLEAN /\ (killed => killed')
  BY <1>1 DEF Closes, end_of_file, SIGKILL, RedInv, RedirectTypeOK
<1>4. /\ \A r \in R : of(r)' = of(r) /\ of(r) \in Logger
      /\ \A r \in R : r \in Streams(l) <=> of(r) = l
      /\ l # "program"
  BY <1>3 DEF of, Streams, R, Logger
<1>5. RedirectTypeOK'
  BY <1>2, <1>3, TypesAre, EmptySeq, RedirectAssumption DEF RedInv, RedirectTypeOK, RedirectAssumption
<1>6. end_of_file(l) => /\ \A r \in Streams(l) : log_pipe[r] = <<>> /\ writers[r] = {}
                        /\ log_pipe' = log_pipe /\ killed' = killed
  <2> SUFFICES ASSUME end_of_file(l)
               PROVE  /\ \A r \in Streams(l) : log_pipe[r] = <<>> /\ writers[r] = {}
                      /\ log_pipe' = log_pipe /\ killed' = killed
    OBVIOUS
  <2>1. \A r \in Streams(l) : log_pipe[r] = <<>> /\ writers[r] = {}
    BY DEF end_of_file
  <2>2. log_pipe \in [R -> Seq(Line)]
    BY DEF RedInv, Numbered
  <2> QED
    BY <1>3, <2>1, <2>2 DEF end_of_file
<1>7. Streaming'
  <2>1. \A r \in R : ~(reads(r))' => log_pipe'[r] = <<>>
    BY <1>2, <1>3, <1>4 DEF RedInv, Streaming, reads, Processes
  <2>2. Does({<<"start", "err">>}) /\ ~killed' => reads("out")' /\ "program" \in writers'["out"]
    <3> SUFFICES ASSUME Does({<<"start", "err">>}), ~killed'
                 PROVE  reads("out")' /\ "program" \in writers'["out"]
      OBVIOUS
    <3>1. end_of_file(l) /\ ~killed
      BY <1>3 DEF SIGKILL, end_of_file
    <3>2. "program" \in writers["out"] /\ reads("out") /\ "out" \in R
      BY <3>1, Labels DEF RedInv, Streaming
    <3>3. "out" \notin Streams(l)
      BY <1>6, <3>1, <3>2
    <3> QED
      BY <1>2, <1>3, <1>4, <3>2, <3>3 DEF reads, Processes
  <2> QED
    BY <1>2, <1>3, <2>1, <2>2, Labels DEF RedInv, Streaming, Does, Processes
<1>8. Undisturbed'
  <2> SUFFICES ASSUME ~killed'
               PROVE  Undisturbed'
    BY DEF Undisturbed
  <2>1. end_of_file(l) /\ ~killed /\ log_pipe' = log_pipe
    BY <1>3, <1>6 DEF SIGKILL, end_of_file
  <2>2. \A r \in R : "program" \in writers[r] => r \notin Streams(l)
    BY <1>6, <2>1
  <2>3. \A r \in R : (Kept(r))' = Kept(r)
    BY <1>3, <2>1 DEF Kept
  <2> QED
    BY <1>1, <1>2, <1>3, <1>4, <2>1, <2>2, <2>3, Labels
       DEF RedInv, Undisturbed, Does, reads, Processes, Departed
<1> QED
  BY <1>2, <1>5, <1>7, <1>8 DEF RedInv

LEMMA RedirectInitInv == RedirectAssumption /\ RedirectInit => RedInv
<1> SUFFICES ASSUME RedirectAssumption, RedirectInit
             PROVE  RedInv
  OBVIOUS
<1>1. /\ <<>> \in Seq(Line) /\ Len(<<>>) = 0 /\ Elements(<<>>) = {} /\ <<>> \o <<>> = <<>>
      /\ Lines \in Nat /\ PipeLines \in Nat
  BY EmptySeq, ConcatEmptySeq DEF RedirectAssumption, Elements
<1>2. /\ log = [r \in R |-> <<>>] /\ log_pipe = [r \in R |-> <<>>] /\ printed = [r \in R |-> <<>>]
      /\ gone = {} /\ killed = FALSE /\ "out" \in R /\ "err" \in R
  BY Labels DEF RedirectInit
<1>3. LinesPrinted = 0
  <2>1. PICK j, k : j = Len(printed["out"]) /\ k = Len(printed["err"])
    OBVIOUS
  <2>2. LinesPrinted = j + k
    BY ONLY <2>1, Zenon DEF LinesPrinted
  <2>3. printed["out"] = <<>> /\ printed["err"] = <<>>
    BY <1>2
  <2> QED
    BY <1>1, <2>1, <2>2, <2>3
<1>4. Numbered
  BY <1>1, <1>2, <1>3 DEF Numbered
<1>5. \A r \in R : Kept(r) = <<>> /\ printed[r] = <<>>
  BY <1>1, <1>2 DEF Kept
<1>6. LoggedOnce
  BY <1>1, <1>2, <1>5 DEF LoggedOnce
<1>7. /\ plugin \in {"logfile", "logfile2"} /\ logged_program = <<"start", "out">>
      /\ log_fd = [r \in R |-> "saved"] /\ saved = R /\ pid = {}
      /\ writers = [r \in R |-> {}] /\ logger = [l \in Logger |-> "none"]
  BY DEF RedirectInit
<1>8. Streaming /\ Undisturbed
  <2>1. /\ ~Does({<<"handlers">>, <<"run">>}) /\ ~Does({<<"start", "err">>})
        /\ ~Does({<<"handlers">>, <<"run">>, <<"exec">>})
    BY <1>7 DEF Does
  <2>2. ~Does({<<"handlers">>, <<"run">>, <<"restore", "out">>, <<"restore", "err">>, <<"wait", "out">>})
    BY <1>7 DEF Does
  <2>3. ~Does({<<"wait", "err">>}) /\ ~Does({<<"stopped">>})
    BY <1>7 DEF Does
  <2>4. Streaming
    BY <1>2, <1>5, <1>7, <2>1 DEF Streaming
  <2> QED
    BY <1>5, <2>1, <2>2, <2>3, <2>4 DEF Undisturbed
<1>9. RedirectTypeOK
  <2>1. logged_program \in {<<"handlers">>, <<"run">>, <<"exec">>, <<"ended">>, <<"stopped">>} \cup ({"start", "restore", "wait"} \X R)
    BY <1>7, Labels DEF ProgramLabel
  <2>2. \A r \in R : Len(log_pipe[r]) <= PipeLines /\ writers[r] \subseteq Logger \cup {"program"}
    BY <1>1, <1>2, <1>7
  <2> QED
    BY <1>2, <1>7, <2>1, <2>2 DEF RedirectTypeOK
<1> QED
  BY <1>4, <1>6, <1>8, <1>9 DEF RedInv

LEMMA RedirectStep == RedirectAssumption /\ RedInv /\ [RedirectNext]_redirect_vars => RedInv'
<1> SUFFICES ASSUME RedirectAssumption, RedInv, [RedirectNext]_redirect_vars
             PROVE  RedInv'
  OBVIOUS
<1>1. CASE Moves
  BY <1>1, MovesKeep
<1>2. ASSUME NEW r \in R, print(r)
      PROVE  RedInv'
  BY <1>2, PrintKeeps
<1>3. ASSUME NEW r \in R, process(r)
      PROVE  RedInv'
  BY <1>3, ProcessKeeps
<1>4. ASSUME NEW l \in R, end_of_file(l) \/ SIGKILL(l)
      PROVE  RedInv'
  BY <1>4, ClosesKeeps
<1>5. CASE UNCHANGED redirect_vars
  <2>1. UNCHANGED <<plugin, logged_program, log_fd, saved, pid, log_pipe, writers, logger, log, printed, gone, killed>>
    BY <1>5 DEF redirect_vars
  <2>2. /\ LinesPrinted' = LinesPrinted
        /\ \A r \in R : /\ (Kept(r))' = Kept(r) /\ (reads(r))' = reads(r)
                        /\ of(r)' = of(r) /\ Elements(printed[r])' = Elements(printed[r])
                        /\ Elements(Kept(r))' = Elements(Kept(r))
    BY <2>1 DEF LinesPrinted, Kept, reads, of, Elements
  <2>3. Numbered' /\ RedirectTypeOK'
    BY <2>1, <2>2 DEF RedInv, Numbered, RedirectTypeOK
  <2>4. Streaming' /\ Undisturbed'
    BY <2>1, <2>2, Labels DEF RedInv, Streaming, Undisturbed, Does
  <2>5. LoggedOnce'
    BY <2>1, <2>2 DEF RedInv, LoggedOnce
  <2> QED
    BY <2>3, <2>4, <2>5 DEF RedInv
<1> QED
  BY <1>1, <1>2, <1>3, <1>4, <1>5 DEF RedirectNext, Logs, Moves, R, Logger

(* When stop() has waited for the loggers, no pipe is left with lines.     *)
LEMMA StoppedIsLogged == RedInv => StopKeepsAll
<1> SUFFICES ASSUME RedInv, logged_program = <<"stopped">>, ~killed, NEW r \in R
             PROVE  log[r] = printed[r]
  BY DEF StopKeepsAll
<1>1. logger[of(r)] \in {"zombie", "dead"} /\ printed[r] = Kept(r)
  BY DEF Departed, RedInv, Undisturbed, Does
<1>2. log_pipe[r] = <<>>
  BY <1>1 DEF RedInv, Streaming, reads
<1>3. log[r] \in Seq(Line)
  BY DEF RedInv, Numbered
<1> QED
  BY <1>1, <1>2, <1>3, ConcatEmptySeq DEF Kept

(* Only print() adds to what was printed, and what is written to a pipe    *)
(* without a reader calls the handler.                                     *)
LEMMA DeadLoggerIsNoticed ==
  ASSUME RedInv, [RedirectNext]_redirect_vars, NEW r \in R,
         Len(printed'[r]) > Len(printed[r]), logged_program = <<"run">>,
         plugin = "logfile", logger[r] = "dead"
  PROVE  log_fd'[r] = "saved"
<1>1. Len(printed[r]) \in Nat
  BY LenProperties DEF RedInv, Numbered
<1>2. printed'[r] # printed[r]
  BY <1>1
<1>3. PICK q \in R : print(q)
  <2>1. CASE Moves
    BY <1>2, <2>1, MovesTyped, TypesAre
  <2>2. CASE Logs \/ (\E l \in Logger : SIGKILL(l)) \/ UNCHANGED redirect_vars
    BY <1>2, <2>2 DEF Logs, SIGKILL, process, end_of_file, exit, Closes, redirect_vars
  <2> QED
    BY <2>1, <2>2 DEF RedirectNext, Moves
<1>4. q = r
  BY <1>2, <1>3 DEF print, RedInv, Numbered
<1>5. ~reads(r) /\ of(r) = r
  BY DEF reads, of
<1>6. CASE log_fd[r] = "saved"
  BY <1>3, <1>4, <1>5, <1>6 DEF print
<1>7. CASE log_fd[r] # "saved"
  <2>1. log_fd[r] = "pipe" /\ r \in saved /\ r \in pid
    BY <1>7 DEF RedInv, RedirectTypeOK, Streaming, Does
  <2>2. Broken(r) /\ sigpipe_handler
    BY <1>3, <1>4, <1>5, <2>1 DEF print, Broken
  <2> QED
    BY <2>2 DEF sigpipe_handler, restore
<1> QED
  BY <1>6, <1>7

(* Each line that a program prints is in the log of its stream once, in    *)
(* the order of the printing, or in the pipe behind the logged ones, or is *)
(* gone; when stop() returns and no process was killed, all lines are in   *)
(* the logs; and a stream of logfile whose logger is gone, not before the  *)
(* handlers were set, comes back with the next line (restore_broken_redir).*)
THEOREM LinesAreKept ==
  ASSUME RedirectAssumption
  PROVE  RedirectSpec => LogKept
<1>1. RedInv => RedirectTypeOK /\ LoggedOnce /\ StopKeepsAll
  BY StoppedIsLogged DEF RedInv
<1>2. RedInv /\ [RedirectNext]_redirect_vars =>
        [\A r \in R : /\ Len(printed'[r]) > Len(printed[r]) /\ logged_program = <<"run">>
                      /\ plugin = "logfile" /\ logger[r] = "dead"
                      => log_fd'[r] = "saved"]_redirect_vars
  BY DeadLoggerIsNoticed
<1>3. RedirectAssumption
  OBVIOUS
<1> QED
  BY <1>1, <1>2, <1>3, RedirectInitInv, RedirectStep, PTL DEF RedirectSpec, LogKept, ComesBack

-----------------------------------------------------------------------------
(* The server with threads. *)
(* The list.                                                               *)

Members(s) == {s[k] : k \in 1..Len(s)}

NoRepeat(s) == \A i, j \in 1..Len(s) : s[i] = s[j] => i = j

(* LIST_REMOVE takes one entry out. *)
LEMMA Removed ==
  ASSUME NEW S, NEW s \in Seq(S), NoRepeat(s), NEW c \in Members(s)
  PROVE  /\ RemoveFirst(s, c) \in Seq(S) /\ Len(s) >= 1
         /\ Len(RemoveFirst(s, c)) = Len(s) - 1
         /\ NoRepeat(RemoveFirst(s, c))
         /\ Members(RemoveFirst(s, c)) = Members(s) \ {c}
<1> DEFINE n0 == Len(s)
           I == {i \in 1..n0 : s[i] = c}
<1>1. n0 \in Nat /\ \A i \in 1..n0 : s[i] \in S
  BY LenProperties, ElementOfSeq
<1>2. PICK p \in 1..n0 : s[p] = c
  BY DEF Members
<1>3. I = {p}
  BY <1>2 DEF NoRepeat
<1>4. Min(I) = p
  BY <1>3 DEF Min
<1>5. RemoveFirst(s, c) = SubSeq(s, 1, p - 1) \o SubSeq(s, p + 1, n0)
  <2>1. SelectInSeq(s, LAMBDA v : v = c) = p
    BY <1>3, <1>4 DEF SelectInSeq
  <2> QED
    BY <1>2, <2>1 DEF RemoveFirst, RemoveAt
<1> DEFINE a == SubSeq(s, 1, p - 1)
           b == SubSeq(s, p + 1, n0)
           t == a \o b
<1>6. a \in Seq(S) /\ Len(a) = p - 1 /\ \A i \in 1..(p - 1) : a[i] = s[i]
  <2>1. \A i \in 1..(p - 1) : s[i] \in S
    BY <1>1, <1>2
  <2>2. /\ a \in Seq(S)
        /\ Len(a) = IF 1 <= p - 1 THEN p - 1 - 1 + 1 ELSE 0
        /\ \A i \in 1..(p - 1 - 1 + 1) : a[i] = s[1 + i - 1]
    BY <1>2, <2>1, SubSeqProperties
  <2> HIDE DEF a
  <2> QED
    BY <1>2, <2>2
<1>7. b \in Seq(S) /\ Len(b) = n0 - p /\ \A i \in 1..(n0 - p) : b[i] = s[p + i]
  <2>1. \A i \in (p + 1)..n0 : s[i] \in S
    BY <1>1, <1>2
  <2>2. /\ b \in Seq(S)
        /\ Len(b) = IF p + 1 <= n0 THEN n0 - (p + 1) + 1 ELSE 0
        /\ \A i \in 1..(n0 - (p + 1) + 1) : b[i] = s[p + 1 + i - 1]
    BY <1>1, <1>2, <2>1, SubSeqProperties
  <2> HIDE DEF b
  <2> QED
    BY <1>1, <1>2, <2>2
<1> HIDE DEF a, b, n0, I
<1>8. /\ t \in Seq(S) /\ Len(t) = n0 - 1
      /\ \A i \in 1..(n0 - 1) : t[i] = IF i < p THEN s[i] ELSE s[i + 1]
  <2>1. /\ t \in Seq(S) /\ Len(t) = Len(a) + Len(b)
        /\ \A i \in 1..(Len(a) + Len(b)) : t[i] = IF i <= Len(a) THEN a[i] ELSE b[i - Len(a)]
    BY <1>6, <1>7, ConcatProperties
  <2> HIDE DEF t
  <2>2. Len(a) + Len(b) = n0 - 1
    BY <1>1, <1>2, <1>6, <1>7
  <2>3. ASSUME NEW i \in 1..(n0 - 1)
        PROVE  t[i] = IF i < p THEN s[i] ELSE s[i + 1]
    <3>1. t[i] = IF i <= Len(a) THEN a[i] ELSE b[i - Len(a)]
      BY <2>1, <2>2
    <3>2. CASE i < p
      BY <1>1, <1>2, <1>6, <3>1, <3>2
    <3>3. CASE ~(i < p)
      <4>1. i - (p - 1) \in 1..(n0 - p) /\ p + (i - (p - 1)) = i + 1 /\ ~(i <= p - 1)
        BY <1>1, <1>2, <3>3
      <4> QED
        BY <1>6, <1>7, <3>1, <3>3, <4>1
    <3> QED
      BY <3>2, <3>3
  <2> QED
    BY <2>1, <2>2, <2>3
<1> HIDE DEF t
<1> DEFINE before(i) == IF i < p THEN i ELSE i + 1
<1>9. \A i \in 1..(n0 - 1) : /\ before(i) \in 1..n0 /\ before(i) # p /\ t[i] = s[before(i)]
  BY <1>1, <1>2, <1>8
<1>10. \A i, j \in 1..(n0 - 1) : before(i) = before(j) => i = j
  BY <1>1, <1>2
<1>11. \A k \in 1..n0 : k # p => \E i \in 1..(n0 - 1) : before(i) = k
  <2> SUFFICES ASSUME NEW k \in 1..n0, k # p
               PROVE  \E i \in 1..(n0 - 1) : before(i) = k
    OBVIOUS
  <2>1. CASE k < p
    BY <1>1, <1>2, <2>1
  <2>2. CASE k > p
    <3>1. k - 1 \in 1..(n0 - 1) /\ before(k - 1) = k
      BY <1>1, <1>2, <2>2
    <3> QED
      BY <3>1
  <2> QED
    BY <1>2, <2>1, <2>2
<1> HIDE DEF before
<1>12. NoRepeat(t)
  BY <1>8, <1>9, <1>10 DEF NoRepeat, n0
<1>13. Members(t) = Members(s) \ {c}
  <2>1. \A x : x \in Members(t) <=> \E i \in 1..(n0 - 1) : x = s[before(i)]
    BY <1>8, <1>9 DEF Members
  <2>2. \A x : (\E i \in 1..(n0 - 1) : x = s[before(i)]) <=> \E k \in 1..n0 : k # p /\ x = s[k]
    BY <1>9, <1>11
  <2>3. \A k \in 1..n0 : k # p <=> s[k] # c
    BY <1>2 DEF NoRepeat, n0
  <2>4. \A x : x \in Members(s) <=> \E k \in 1..n0 : x = s[k]
    BY DEF Members, n0
  <2> QED
    BY <2>1, <2>2, <2>3, <2>4
<1>14. n0 >= 1 /\ n0 = Len(s) /\ RemoveFirst(s, c) = t
  BY <1>1, <1>2, <1>5 DEF n0, t, a, b
<1> QED
  BY <1>8, <1>12, <1>13, <1>14

(* LIST_INSERT_HEAD puts one in. *)
LEMMA Inserted ==
  ASSUME NEW S, NEW s \in Seq(S), NoRepeat(s), NEW c \in S, c \notin Members(s)
  PROVE  /\ <<c>> \o s \in Seq(S) /\ Len(<<c>> \o s) = Len(s) + 1
         /\ NoRepeat(<<c>> \o s)
         /\ Members(<<c>> \o s) = Members(s) \cup {c}
<1> DEFINE t == <<c>> \o s
           m == Len(s)
<1>1. m \in Nat /\ \A i \in 1..m : s[i] \in S
  BY LenProperties, ElementOfSeq
<1>2. /\ t \in Seq(S) /\ Len(t) = m + 1 /\ t[1] = c
      /\ \A i \in 2..(m + 1) : t[i] = s[i - 1]
  <2>1. <<c>> \in Seq(S) /\ Len(<<c>>) = 1 /\ <<c>>[1] = c
    OBVIOUS
  <2>2. /\ t \in Seq(S) /\ Len(t) = Len(<<c>>) + Len(s)
        /\ \A i \in 1..(Len(<<c>>) + Len(s)) :
             t[i] = IF i <= Len(<<c>>) THEN <<c>>[i] ELSE s[i - Len(<<c>>)]
    BY <2>1, ConcatProperties
  <2> HIDE DEF t
  <2>3. \A i \in 1..(1 + m) : t[i] = IF i <= 1 THEN c ELSE s[i - 1]
    BY <2>1, <2>2
  <2> QED
    BY <1>1, <2>1, <2>2, <2>3
<1> HIDE DEF t, m
<1>3. \A i \in 1..(m + 1) : i = 1 \/ (i \in 2..(m + 1) /\ i - 1 \in 1..m)
  BY <1>1
<1>4. \A i \in 1..m : i + 1 \in 2..(m + 1) /\ i + 1 \in 1..(m + 1) /\ (i + 1) - 1 = i
                        /\ 1 \in 1..(m + 1)
  BY <1>1
<1>5. \A i \in 1..m : s[i] # c
  BY DEF Members, m
<1>6. NoRepeat(t)
  <2> SUFFICES ASSUME NEW i \in 1..(m + 1), NEW j \in 1..(m + 1), t[i] = t[j]
               PROVE  i = j
    BY <1>2 DEF NoRepeat
  <2>1. i = 1 <=> j = 1
    BY <1>2, <1>3, <1>5
  <2>2. i # 1 => i - 1 = j - 1
    BY <1>2, <1>3, <2>1 DEF NoRepeat, m
  <2> QED
    BY <1>1, <2>1, <2>2
<1>7. Members(t) = Members(s) \cup {c}
  <2>1. \A x : x \in Members(t) <=> \E i \in 1..(m + 1) : x = t[i]
    BY <1>2 DEF Members
  <2>2. \A x : x \in Members(s) <=> \E i \in 1..m : x = s[i]
    BY DEF Members, m
  <2>3. \A x : (\E i \in 1..(m + 1) : x = t[i]) => x = c \/ \E i \in 1..m : x = s[i]
    BY <1>2, <1>3
  <2>4. \A x : (\E i \in 1..m : x = s[i]) => \E i \in 1..(m + 1) : x = t[i]
    BY <1>2, <1>4
  <2>5. 1 \in 1..(m + 1)
    BY <1>1
  <2> QED
    BY <1>2, <2>1, <2>2, <2>3, <2>4, <2>5
<1> QED
  BY <1>2, <1>6, <1>7 DEF t, m

(* Without repetitions there are as many places as members. *)
LEMMA Distinct ==
  ASSUME NEW S, IsFiniteSet(S), NEW s \in Seq(S), NoRepeat(s)
  PROVE  /\ Len(s) = Cardinality(Members(s))
         /\ Cardinality(S) \in Nat /\ Len(s) <= Cardinality(S)
<1>1. Len(s) \in Nat /\ s \in [1..Len(s) -> S]
  BY LenProperties
<1>2. s \in Surjection(1..Len(s), Members(s)) /\ s \in Injection(1..Len(s), Members(s))
  <2>1. s \in [1..Len(s) -> Members(s)]
    BY <1>1 DEF Members
  <2> QED
    BY <2>1 DEF Surjection, Injection, IsInjective, Members, NoRepeat
<1>3. IsFiniteSet(1..Len(s)) /\ Cardinality(1..Len(s)) = Len(s)
  <2>1. IsFiniteSet(1..Len(s))
    BY <1>1, FS_Interval
  <2>2. Cardinality(1..Len(s)) = IF 1 > Len(s) THEN 0 ELSE Len(s) - 1 + 1
    BY <1>1, FS_Interval
  <2> QED
    BY <1>1, <2>1, <2>2
<1>4. Cardinality(Members(s)) = Len(s)
  BY <1>2, <1>3, FS_Surjection
<1>5. Members(s) \in SUBSET S
  BY <1>1 DEF Members
<1>6. Cardinality(Members(s)) <= Cardinality(S)
  BY <1>5, FS_Subset
<1> QED
  BY <1>4, <1>6, FS_CardinalityType

-----------------------------------------------------------------------------
(* The inductive invariant.                                                *)

(* Between the two halves of new_thread() and of join_threads() the main   *)
(* thread holds threads->lock.                                             *)
LockHeld == main \in {"create", "unlock", "join", "next"} => lock = "main"

(* The threads that were started and have not freed their entry.           *)
Started(c) == thread[c] \notin {"none", "removed", "ended"}

(* A connection that is not accepted yet has no entry; the one that was    *)
(* just accepted has none until its thread is created, and is not freed.   *)
Unborn(c) == thread[c] = "none" /\ c \notin Members(list) /\ c \notin freed

FreshInv ==
  /\ \A c \in Client : socket[c] \in {"none", "backlog"} => Unborn(c)
  /\ main \in {"lock", "create"} =>
       /\ new_socket \in Client
       /\ Unborn(new_socket)
       /\ socket[new_socket] \notin {"none", "backlog"}
  /\ main = "close" => new_socket \in Client /\ socket[new_socket] \notin {"none", "backlog"}

(* threads->n counts the list, but for the entry that pthread_create()     *)
(* failed for; the lock is then never released.                            *)
Counted ==
  \/ n = Len(list)
  \/ /\ n = Len(list) + 1 /\ lock = "main"
     /\ main \notin {"create", "unlock", "join", "next"}

ThreadInv ==
  /\ ThreadTypeOK
  /\ LockHeld
  /\ NoRepeat(list) /\ \A c \in Members(list) : c \notin freed
  /\ \A c \in Client : Started(c) => c \in Members(list)
  /\ FreshInv
  /\ Counted
  /\ main = "join" => joined = (IF list = <<>> THEN NoThread ELSE Head(list))

LEMMA ThreadInitInv == ThreadAssumption /\ ThreadInit => ThreadInv
<1> SUFFICES ASSUME ThreadAssumption, ThreadInit
             PROVE  ThreadInv
  OBVIOUS
<1>1. Len(list) = 0 /\ Members(list) = {} /\ list \in Seq(Client)
  BY DEF ThreadInit, Members
<1>2. Cardinality(Client) \in Nat
  BY FS_CardinalityType DEF ThreadAssumption
<1>3. ThreadTypeOK
  BY <1>1, <1>2 DEF ThreadInit, ThreadTypeOK, MainPlace, ThreadPlace, Connection
<1>4. NoRepeat(list)
  BY <1>1 DEF NoRepeat
<1> QED
  BY <1>1, <1>3, <1>4 DEF ThreadInit, ThreadInv, LockHeld, Started, FreshInv, Unborn, Counted

(* What the steps that leave the list alone have to keep. *)
LEMMA ListKept ==
  ASSUME ThreadInv, UNCHANGED <<n, list, freed>>, ThreadTypeOK', LockHeld',
         lock' = "main" \/ lock' = lock \/ n = Len(list),
         lock = "main" /\ lock' # "main" => n = Len(list),
         n # Len(list) => main' \notin {"create", "unlock", "join", "next"},
         FreshInv',
         \A c \in Client : Started(c)' => Started(c),
         main' = "join" =>
           \/ main = "join" /\ joined' = joined
           \/ joined' = (IF list = <<>> THEN NoThread ELSE Head(list))
  PROVE  ThreadInv'
BY DEF ThreadInv, Counted

LEMMA ClientStep ==
  ASSUME ThreadInv, NEW c \in Client, peer(c)
  PROVE  ThreadInv'
<1>1. /\ UNCHANGED <<serving, main, new_socket, server_state, state_lock, lock, joined, n, list, freed,
                     thread>>
      /\ \E l \in {"backlog", "asked", "hung"} :
           /\ socket' = [socket EXCEPT ![c] = l]
           /\ l = "backlog" => socket[c] = "none"
           /\ socket[c] \in {"none", "backlog"} => l = "backlog"
  BY DEF peer, Connects, Asks, HangsUp, list_vars
<1>2. ThreadTypeOK' /\ LockHeld'
  BY <1>1 DEF ThreadInv, ThreadTypeOK, Connection, LockHeld
<1>3. FreshInv'
  BY <1>1 DEF ThreadInv, ThreadTypeOK, FreshInv, Unborn
<1> QED
  BY <1>1, <1>2, <1>3, ListKept DEF Started, ThreadInv, Counted

LEMMA TermStep ==
  ASSUME ThreadInv, thread_term_handler
  PROVE  ThreadInv'
<1>1. /\ UNCHANGED <<new_socket, server_state, state_lock, lock, joined, n, list, freed, socket>>
      /\ serving' \in BOOLEAN
      /\ main' \in {main, "loop"}
      /\ thread' \in [Client -> ThreadPlace]
      /\ \A c \in Client : /\ thread'[c] = "none" <=> thread[c] = "none"
                           /\ Started(c)' <=> Started(c)
  BY DEF thread_term_handler, list_vars, main_to, thread_to, ThreadInv, ThreadTypeOK, Started, ThreadPlace
<1>2. ThreadTypeOK' /\ LockHeld'
  BY <1>1 DEF ThreadInv, ThreadTypeOK, MainPlace, LockHeld
<1>3. FreshInv'
  BY <1>1 DEF ThreadInv, FreshInv, Unborn
<1> QED
  BY <1>1, <1>2, <1>3, ListKept DEF ThreadInv, Counted

(* The steps of the main thread that leave the list alone. *)
LEMMA MainStep ==
  ASSUME ThreadInv,
         \/ main_loop \/ accept_fails \/ new_thread_lock \/ no_memory \/ shutdown
         \/ join_lock \/ join_next \/ thread_destroy_server
  PROVE  ThreadInv'
<1>1. UNCHANGED <<serving, new_socket, n, list, freed, thread, socket>>
  BY DEF main_loop, accept_fails, new_thread_lock, no_memory, shutdown, join_lock, join_next,
         thread_destroy_server, list_vars, conn_vars
<1>2. /\ main' \in {"call", "state", "accept", "destroy", "exited", "create", "close",
                    "set_state", "join_lock", "join", "crashed", "ended", "aborted"}
      /\ lock' = lock \/ lock' = "main"
      /\ main' \in {"create", "join"} => lock' = "main" /\ (lock = NoThread \/ main = "next")
      /\ main' = "create" => main = "lock"
      /\ main' = "close" => main = "lock"
      /\ main' = "join" => joined' = (IF list = <<>> THEN NoThread ELSE Head(list))
      /\ joined' \in {joined, NoThread, Head(list)}
      /\ list = <<>> => joined' \in {joined, NoThread}
      /\ server_state' \in {server_state, "SERVER_SHUTDOWN"} /\ state_lock' \in {state_lock, {"main"}, {}}
  <2>1. CASE main_loop \/ accept_fails \/ no_memory \/ shutdown \/ thread_destroy_server
    BY <2>1 DEF main_loop, accept_fails, no_memory, shutdown, thread_destroy_server, main_to
  <2>2. CASE new_thread_lock \/ join_lock
    BY <2>2 DEF new_thread_lock, join_lock, wrlock, main_to
  <2>3. CASE join_next
    <3>1. lock = "main"
      BY <2>3 DEF join_next, ThreadInv, LockHeld
    <3> QED
      BY <2>3, <3>1 DEF join_next, main_to
  <2> QED
    BY <2>1, <2>2, <2>3
<1>3. list # <<>> => Head(list) \in Client
  BY DEF ThreadInv, ThreadTypeOK
<1>4. ThreadTypeOK' /\ LockHeld'
  <2>1. joined' \in Client \cup {NoThread}
    BY <1>2, <1>3 DEF ThreadInv, ThreadTypeOK
  <2>2. main' \in MainPlace /\ lock' \in {"main", NoThread} /\ LockHeld'
    <3>1. main' \in MainPlace
      BY <1>2 DEF MainPlace
    <3>2. lock' \in {"main", NoThread}
      BY <1>2 DEF ThreadInv, ThreadTypeOK
    <3>3. main' \notin {"unlock", "next"}
      BY <1>2
    <3>4. LockHeld'
      BY <1>2, <3>3 DEF LockHeld
    <3> QED
      BY <3>1, <3>2, <3>4
  <2>3. state_lock' \in (SUBSET Client) \cup {{"main"}}
    BY <1>2 DEF ThreadInv, ThreadTypeOK
  <2>4. server_state' \in {"SERVER_RUNNING", "SERVER_SHUTDOWN"}
    BY <1>2 DEF ThreadInv, ThreadTypeOK
  <2> QED
    BY <1>1, <2>1, <2>2, <2>3, <2>4 DEF ThreadInv, ThreadTypeOK
<1>5. FreshInv'
  BY <1>1, <1>2 DEF ThreadInv, FreshInv, Unborn
<1>6. n # Len(list) => main' \notin {"create", "unlock", "join", "next"}
  BY <1>2 DEF ThreadInv, Counted, NoThread
<1> QED
  BY <1>1, <1>2, <1>4, <1>5, <1>6, ListKept DEF Started

LEMMA AcceptStep ==
  ASSUME ThreadInv, accept
  PROVE  ThreadInv'
<1>1. /\ UNCHANGED <<serving, server_state, state_lock, lock, joined, n, list, freed, thread>>
      /\ main' = "lock"
      /\ new_socket' \in Client /\ socket[new_socket'] = "backlog"
      /\ socket' = [socket EXCEPT ![new_socket'] = "idle"]
  BY DEF accept, main_to, list_vars
<1>2. ThreadTypeOK' /\ LockHeld'
  BY <1>1 DEF ThreadInv, ThreadTypeOK, MainPlace, Connection, LockHeld
<1>3. FreshInv'
  BY <1>1 DEF ThreadInv, ThreadTypeOK, FreshInv, Unborn
<1> QED
  BY <1>1, <1>2, <1>3, ListKept DEF Started, ThreadInv, Counted

LEMMA CreateStep ==
  ASSUME ThreadAssumption, ThreadInv, new_thread
  PROVE  ThreadInv'
<1> DEFINE c == new_socket
<1>1. /\ UNCHANGED <<serving, new_socket, server_state, state_lock, lock, joined, freed, socket>>
      /\ main = "create" /\ main' = "unlock" /\ n' = n + 1 /\ list' = <<c>> \o list
      /\ thread' = [thread EXCEPT ![c] = "init"]
  BY DEF new_thread, main_to, thread_to
<1>2. /\ c \in Client /\ Unborn(c) /\ socket[c] \notin {"none", "backlog"} /\ lock = "main"
      /\ n = Len(list) /\ list \in Seq(Client)
  BY <1>1 DEF ThreadInv, FreshInv, LockHeld, Counted, ThreadTypeOK
<1>3. /\ list' \in Seq(Client) /\ Len(list') = Len(list) + 1 /\ NoRepeat(list')
      /\ Members(list') = Members(list) \cup {c}
  BY <1>1, <1>2, Inserted DEF ThreadInv, Unborn
<1>4. Len(list') <= Cardinality(Client) /\ Cardinality(Client) \in Nat
  BY <1>3, Distinct DEF ThreadAssumption
<1>5. Len(list) \in Nat
  BY <1>2, LenProperties
<1>6. ThreadTypeOK'
  <2>1. n' \in 0..(Cardinality(Client) + 1)
    BY <1>1, <1>2, <1>3, <1>4, <1>5
  <2> QED
    BY <1>1, <1>2, <1>3, <2>1 DEF ThreadInv, ThreadTypeOK, MainPlace, ThreadPlace
<1>7. \A d \in Client : thread'[d] = IF d = c THEN "init" ELSE thread[d]
  BY <1>1 DEF ThreadInv, ThreadTypeOK
<1>8. FreshInv'
  BY <1>1, <1>2, <1>3, <1>7 DEF ThreadInv, FreshInv, Unborn
<1>9. \A d \in Client : Started(d)' => d \in Members(list')
  BY <1>3, <1>7 DEF ThreadInv, Started
<1>10. \A d \in Members(list') : d \notin freed'
  BY <1>1, <1>2, <1>3 DEF ThreadInv, Unborn
<1> QED
  BY <1>1, <1>2, <1>3, <1>6, <1>8, <1>9, <1>10 DEF ThreadInv, LockHeld, Counted

LEMMA CreateFails ==
  ASSUME ThreadAssumption, ThreadInv, new_thread_fails
  PROVE  ThreadInv'
<1> DEFINE c == new_socket
<1>1. /\ UNCHANGED <<serving, new_socket, server_state, state_lock, lock, joined, list, thread, socket>>
      /\ main = "create" /\ main' = "close" /\ n' = n + 1 /\ freed' = freed \cup {c}
  BY DEF new_thread_fails, main_to, conn_vars
<1>2. /\ c \in Client /\ Unborn(c) /\ socket[c] \notin {"none", "backlog"} /\ lock = "main"
      /\ n = Len(list) /\ list \in Seq(Client)
  BY <1>1 DEF ThreadInv, FreshInv, LockHeld, Counted, ThreadTypeOK
<1>3. Len(list) \in Nat /\ Len(list) <= Cardinality(Client) /\ Cardinality(Client) \in Nat
  BY <1>2, Distinct, LenProperties DEF ThreadAssumption, ThreadInv
<1>4. ThreadTypeOK'
  BY <1>1, <1>2, <1>3 DEF ThreadInv, ThreadTypeOK, MainPlace
<1>5. FreshInv'
  BY <1>1, <1>2 DEF ThreadInv, FreshInv, Unborn
<1> QED
  BY <1>1, <1>2, <1>4, <1>5 DEF ThreadInv, LockHeld, Counted, Started, Unborn

LEMMA UnlockStep ==
  ASSUME ThreadInv, new_thread_unlock \/ close_new
  PROVE  ThreadInv'
<1>1. /\ UNCHANGED <<serving, new_socket, server_state, state_lock, joined, n, list, freed, thread>>
      /\ main' = "loop"
      /\ \/ main = "unlock" /\ lock' = NoThread /\ socket' = socket
         \/ main = "close" /\ lock' = lock /\ socket' = [socket EXCEPT ![new_socket] = "closed"]
  BY DEF new_thread_unlock, close_new, main_to, list_vars, conn_vars
<1>2. ThreadTypeOK' /\ LockHeld'
  BY <1>1 DEF ThreadInv, ThreadTypeOK, MainPlace, Connection, LockHeld
<1>3. FreshInv'
  BY <1>1 DEF ThreadInv, ThreadTypeOK, FreshInv, Unborn
<1> QED
  BY <1>1, <1>2, <1>3, ListKept DEF Started, ThreadInv, Counted

(* An entry is taken out of the list. *)
LEMMA EntryRemoved ==
  ASSUME ThreadAssumption, ThreadInv, NEW c \in Client, c \in Members(list), n = Len(list),
         remove_unsafe(c)
  PROVE  /\ n' = Len(list') /\ n' \in 0..(Cardinality(Client) + 1)
         /\ list' \in Seq(Client) /\ NoRepeat(list')
         /\ Members(list') = Members(list) \ {c} /\ freed' = freed \cup {c}
<1>1. list \in Seq(Client) /\ NoRepeat(list) /\ n \in 0..(Cardinality(Client) + 1)
  BY DEF ThreadInv, ThreadTypeOK
<1>2. n' = n - 1 /\ list' = RemoveFirst(list, c) /\ freed' = freed \cup {c}
  BY DEF remove_unsafe
<1>3. /\ list' \in Seq(Client) /\ Len(list) >= 1 /\ Len(list') = Len(list) - 1
      /\ NoRepeat(list') /\ Members(list') = Members(list) \ {c}
  BY <1>1, <1>2, Removed
<1>4. n' \in 0..(Cardinality(Client) + 1)
  <2>1. Cardinality(Client) \in Nat
    BY FS_CardinalityType DEF ThreadAssumption
  <2>2. n \in Nat /\ n >= 1 /\ n <= Cardinality(Client) + 1 /\ n' = n - 1
    BY ONLY <1>1, <1>2, <1>3, <2>1, n = Len(list)
  <2> QED
    BY ONLY <2>1, <2>2
<1> QED
  BY <1>2, <1>3, <1>4

LEMMA JoinStep ==
  ASSUME ThreadAssumption, ThreadInv, join_thread
  PROVE  ThreadInv'
<1>1. /\ main = "join" /\ main' = "next" /\ joined # NoThread /\ thread[joined] = "ended"
      /\ remove_unsafe(joined)
      /\ UNCHANGED <<serving, new_socket, server_state, state_lock, lock, joined, thread, socket>>
  BY DEF join_thread, main_to, conn_vars
<1>2. /\ list # <<>> /\ joined = Head(list) /\ lock = "main" /\ n = Len(list)
      /\ list \in Seq(Client)
  BY <1>1 DEF ThreadInv, ThreadTypeOK, LockHeld, Counted
<1>3. joined \in Client /\ joined \in Members(list)
  <2>1. Len(list) \in Nat /\ Len(list) >= 1 /\ Head(list) = list[1] /\ Head(list) \in Client
    BY <1>2
  <2> QED
    BY <1>2, <2>1 DEF Members
<1>4. /\ n' = Len(list') /\ n' \in 0..(Cardinality(Client) + 1)
      /\ list' \in Seq(Client) /\ NoRepeat(list')
      /\ Members(list') = Members(list) \ {joined} /\ freed' = freed \cup {joined}
  BY <1>1, <1>2, <1>3, EntryRemoved
<1>5. ThreadTypeOK'
  BY <1>1, <1>3, <1>4 DEF ThreadInv, ThreadTypeOK, MainPlace
<1>6. ~Started(joined) /\ thread[joined] # "none"
  BY <1>1 DEF Started
<1>7. FreshInv'
  BY <1>1, <1>4, <1>6 DEF ThreadInv, FreshInv, Unborn
<1>8. \A d \in Client : Started(d)' => d \in Members(list')
  BY <1>1, <1>4, <1>6 DEF ThreadInv, Started
<1>9. \A d \in Members(list') : d \notin freed'
  BY <1>4 DEF ThreadInv
<1> QED
  BY <1>1, <1>2, <1>4, <1>5, <1>7, <1>8, <1>9 DEF ThreadInv, LockHeld, Counted

LEMMA JoinEnds ==
  ASSUME ThreadAssumption, ThreadInv, join_end
  PROVE  ThreadInv' /\ main' = "destroy"
<1>1. /\ UNCHANGED <<serving, new_socket, server_state, state_lock, joined, n, list, freed, thread, socket>>
      /\ main = "join" /\ joined = NoThread
      /\ IF n = 0 THEN lock' = NoThread /\ main' = "destroy" ELSE main' = "aborted" /\ lock' = lock
  BY DEF join_end, main_to, list_vars, conn_vars
<1>2. list = <<>> /\ n = 0 /\ n = Len(list)
  <2>1. n = Len(list) /\ list \in Seq(Client) /\ joined = (IF list = <<>> THEN NoThread ELSE Head(list))
    BY <1>1 DEF ThreadInv, Counted, ThreadTypeOK
  <2>2. list # <<>> => Head(list) \in Client
    BY <2>1
  <2>3. list = <<>>
    BY <1>1, <2>1, <2>2 DEF ThreadAssumption
  <2> QED
    BY <2>1, <2>3
<1>3. ThreadTypeOK' /\ LockHeld'
  BY <1>1, <1>2 DEF ThreadInv, ThreadTypeOK, MainPlace, LockHeld
<1>4. FreshInv'
  BY <1>1, <1>2 DEF ThreadInv, FreshInv, Unborn
<1> QED
  BY <1>1, <1>2, <1>3, <1>4, ListKept DEF Started

LEMMA ThreadFuncStep ==
  ASSUME ThreadAssumption, ThreadInv, NEW c \in Client, thread_func(c)
  PROVE  ThreadInv'
<1>0. thread \in [Client -> ThreadPlace] /\ state_lock \in (SUBSET Client) \cup {{"main"}}
  BY DEF ThreadInv, ThreadTypeOK
<1>1. CASE init_cnct(c) \/ thread_loop(c) \/ process_cnct(c) \/ thread_close(c)
  <2>1. /\ UNCHANGED <<serving, main, new_socket, server_state, state_lock, lock, joined, n, list, freed>>
        /\ \E p \in {"loop", "recv", "close", "rdlock", "ended"} :
             thread' = [thread EXCEPT ![c] = p]
        /\ Started(c)
        /\ \/ socket' = socket
           \/ \E l \in {"idle", "closed"} : socket' = [socket EXCEPT ![c] = l]
    BY <1>1 DEF init_cnct, thread_loop, process_cnct, thread_close, thread_to, list_vars, Started
  <2>2. ThreadTypeOK' /\ LockHeld'
    BY <2>1 DEF ThreadInv, ThreadTypeOK, ThreadPlace, Connection, LockHeld
  <2>3. \A d \in Client : Started(d)' => Started(d)
    BY <1>0, <2>1 DEF Started
  <2>4. \A d \in Client : /\ thread'[d] = "none" <=> thread[d] = "none"
                          /\ socket'[d] \in {"none", "backlog"} <=> socket[d] \in {"none", "backlog"}
    <3>1. thread[c] # "none" /\ socket[c] \notin {"none", "backlog"}
      BY <2>1 DEF Started, ThreadInv, FreshInv, Unborn
    <3> QED
      BY <1>0, <2>1, <3>1 DEF ThreadInv, ThreadTypeOK
  <2>5. FreshInv'
    BY <2>1, <2>4 DEF ThreadInv, FreshInv, Unborn
  <2> QED
    BY <2>1, <2>2, <2>3, <2>5, ListKept DEF ThreadInv, Counted
<1>2. CASE thread_rdlock(c) \/ thread_unlock(c)
  <2>1. /\ UNCHANGED <<serving, new_socket, server_state, lock, joined, n, list, freed, socket>>
        /\ main' \in {main, "crashed"}
        /\ state_lock' \in {state_lock, state_lock \cup {c}, state_lock \ {c}}
        /\ state_lock' = state_lock \cup {c} => state_lock # {"main"} \/ state_lock' = state_lock
        /\ thread[c] \in {"rdlock", "removed", "unlock"}
        /\ \/ thread' = thread
           \/ thread' = [thread EXCEPT ![c] = "remove"] /\ thread[c] = "rdlock"
           \/ thread' = [thread EXCEPT ![c] = "unlock"] /\ thread[c] = "rdlock"
           \/ thread' = [thread EXCEPT ![c] = "ended"]
    BY <1>2 DEF thread_rdlock, thread_unlock, thread_to, main_to, list_vars
  <2>2. state_lock' \in (SUBSET Client) \cup {{"main"}}
    BY <1>0, <2>1
  <2>3. ThreadTypeOK' /\ LockHeld'
    BY <2>1, <2>2 DEF ThreadInv, ThreadTypeOK, MainPlace, ThreadPlace, LockHeld
  <2>4. \A d \in Client : /\ thread'[d] = "none" <=> thread[d] = "none"
                          /\ Started(d)' => Started(d)
    BY <1>0, <2>1 DEF Started
  <2>5. FreshInv'
    BY <2>1, <2>4 DEF ThreadInv, FreshInv, Unborn
  <2> QED
    BY <2>1, <2>3, <2>4, <2>5, ListKept DEF ThreadInv, Counted
<1>3. CASE remove_thread(c)
  <2>1. /\ thread[c] = "remove" /\ lock = NoThread
        /\ remove_unsafe(c)
        /\ thread' = [thread EXCEPT ![c] = "removed"]
        /\ UNCHANGED <<serving, main, new_socket, server_state, state_lock, lock, joined, socket>>
    BY <1>3 DEF remove_thread, thread_to
  <2>2. c \in Members(list) /\ n = Len(list) /\ main \notin {"create", "unlock", "join", "next"}
    BY <2>1 DEF ThreadInv, Started, Counted, LockHeld, NoThread
  <2>3. /\ n' = Len(list') /\ n' \in 0..(Cardinality(Client) + 1)
        /\ list' \in Seq(Client) /\ NoRepeat(list')
        /\ Members(list') = Members(list) \ {c} /\ freed' = freed \cup {c}
    BY <2>1, <2>2, EntryRemoved
  <2>4. ThreadTypeOK'
    BY <2>1, <2>3 DEF ThreadInv, ThreadTypeOK, ThreadPlace
  <2>5. \A d \in Client : /\ thread'[d] = "none" <=> thread[d] = "none"
                          /\ Started(d)' => Started(d) /\ d # c
    BY <1>0, <2>1 DEF Started
  <2>6. FreshInv'
    <3>1. \A d \in Client : Unborn(d) => d # c
      BY <2>1 DEF Unborn
    <3> QED
      BY <2>1, <2>3, <2>5, <3>1 DEF ThreadInv, FreshInv, Unborn
  <2>7. \A d \in Client : Started(d)' => d \in Members(list')
    BY <2>3, <2>5 DEF ThreadInv
  <2>8. \A d \in Members(list') : d \notin freed'
    BY <2>3 DEF ThreadInv
  <2> QED
    BY <2>1, <2>2, <2>3, <2>4, <2>6, <2>7, <2>8 DEF ThreadInv, LockHeld, Counted
<1> QED
  BY <1>1, <1>2, <1>3 DEF thread_func

LEMMA ThreadStep == ThreadAssumption /\ ThreadInv /\ [ThreadNext]_thread_vars => ThreadInv'
<1> SUFFICES ASSUME ThreadAssumption, ThreadInv, [ThreadNext]_thread_vars
             PROVE  ThreadInv'
  OBVIOUS
<1>1. CASE UNCHANGED thread_vars
  BY <1>1 DEF thread_vars, list_vars, conn_vars, ThreadInv, ThreadTypeOK, LockHeld, Started, FreshInv,
              Unborn, Counted
<1>2. CASE main_thread
  BY <1>2, MainStep, AcceptStep, CreateStep, CreateFails, UnlockStep, JoinStep, JoinEnds
     DEF main_thread, run_server, join_threads
<1>3. CASE thread_term_handler
  BY <1>3, TermStep
<1>4. CASE \E c \in Client : peer(c) \/ thread_func(c)
  BY <1>4, ClientStep, ThreadFuncStep
<1> QED
  BY <1>1, <1>2, <1>3, <1>4 DEF ThreadNext

(* The variables of server_thread keep their types, for any number of      *)
(* connections; threads->n, too, does not run away.                        *)
THEOREM ThreadsTyped ==
  ASSUME ThreadAssumption
  PROVE  ThreadSpec => []ThreadTypeOK
<1>1. ThreadInv => ThreadTypeOK
  BY DEF ThreadInv
<1>2. ThreadInit => ThreadInv
  BY ThreadInitInv
<1>3. ThreadInv /\ [ThreadNext]_thread_vars => ThreadInv'
  BY ThreadStep
<1> QED
  BY <1>1, <1>2, <1>3, PTL DEF ThreadSpec

(* In whatever order threads are created, end by themselves and are        *)
(* joined: no entry is freed twice, and none is used after it was freed,   *)
(* except where the code does: thread->server is read by the thread that   *)
(* has removed itself, and the link of the entry just joined.              *)
THEOREM NoThirdUseAfterFree ==
  ASSUME ThreadAssumption
  PROVE  ThreadSpec => []FreedReadAtTwoPlaces
<1>1. ThreadInv => FreedReadAtTwoPlaces
  <2> SUFFICES ASSUME ThreadInv
               PROVE  NoneFreedInUse
    BY DEF FreedReadAtTwoPlaces, ThreadInv
  <2>1. Listed = Members(list)
    BY DEF Listed, Members
  <2>2. Len(list) = Cardinality(Listed)
    BY <2>1, Distinct DEF ThreadInv, ThreadTypeOK, ThreadAssumption
  <2>3. main = "join" => joined \notin freed
    <3> SUFFICES ASSUME main = "join"
                 PROVE  joined \notin freed
      OBVIOUS
    <3>1. list \in Seq(Client) /\ freed \subseteq Client
          /\ joined = (IF list = <<>> THEN NoThread ELSE Head(list))
      BY DEF ThreadInv, ThreadTypeOK
    <3>2. CASE list = <<>>
      BY <3>1, <3>2 DEF ThreadAssumption
    <3>3. CASE list # <<>>
      <4>1. Head(list) = list[1] /\ 1 \in 1..Len(list)
        BY <3>1, <3>3
      <4>2. joined \in Members(list)
        BY <3>1, <3>3, <4>1 DEF Members
      <4> QED
        BY <4>2 DEF ThreadInv
    <3> QED
      BY <3>2, <3>3
  <2> QED
    <3>1. \A c \in freed : thread[c] \in {"none", "removed", "ended"}
      BY DEF ThreadInv, ThreadTypeOK, Started
    <3>2. main = "create" => new_socket \notin freed
      BY DEF ThreadInv, FreshInv, Unborn
    <3> QED
      BY <2>1, <2>2, <2>3, <3>1, <3>2 DEF NoneFreedInUse, ThreadInv
<1>2. ThreadInit => ThreadInv
  BY ThreadInitInv
<1>3. ThreadInv /\ [ThreadNext]_thread_vars => ThreadInv'
  BY ThreadStep
<1> QED
  BY <1>1, <1>2, <1>3, PTL DEF ThreadSpec

(* assert(threads->n == 0) of join_threads() never fails: whoever came out *)
(* of the list was counted out of it.                                      *)
THEOREM JoinNeverAborts ==
  ASSUME ThreadAssumption
  PROVE  ThreadSpec => [][main = "join" => main' # "aborted"]_thread_vars
<1>1. ThreadInv /\ [ThreadNext]_thread_vars => [main = "join" => main' # "aborted"]_thread_vars
  <2> SUFFICES ASSUME ThreadInv, ThreadNext, main = "join"
               PROVE  main' # "aborted"
    BY DEF thread_vars
  <2>1. CASE main_thread
    <3>1. CASE join_end
      BY <3>1, JoinEnds
    <3>2. CASE join_thread
      BY <3>2 DEF join_thread, main_to
    <3> QED
      BY <2>1, <3>1, <3>2 DEF main_thread, run_server, main_loop, accept, accept_fails,
           new_thread_lock, new_thread, new_thread_fails, no_memory, new_thread_unlock, close_new,
           shutdown, join_threads, join_lock, join_next, thread_destroy_server, wrlock
  <2>2. CASE thread_term_handler
    BY <2>2 DEF thread_term_handler, main_to
  <2>3. ASSUME NEW c \in Client, peer(c) \/ thread_func(c)
        PROVE  main' # "aborted"
    BY <2>3 DEF peer, thread_func, init_cnct, thread_loop, process_cnct, thread_close,
           thread_rdlock, remove_thread, thread_unlock, main_to
  <2> QED
    BY <2>1, <2>2, <2>3 DEF ThreadNext
<1>2. ThreadInit => ThreadInv
  BY ThreadInitInv
<1>3. ThreadInv /\ [ThreadNext]_thread_vars => ThreadInv'
  BY ThreadStep
<1> QED
  BY <1>1, <1>2, <1>3, PTL DEF ThreadSpec
=============================================================================
