---------------------------- MODULE ProcessesMC -----------------------------
(***************************************************************************)
(* Instances for TLC of the processes of the server and of the clients at  *)
(* its maildir, one kind at a time: the others rest in an initial state.   *)
(***************************************************************************)
EXTENDS AcceptPool, ServerLifecycle, MaildirHandoff, Sequences

VARIABLES
  part,  (* the part that this behaviour is about                           *)
  (* WorkerLoop *)
  loop_pc, exc, loop_clients, rfds, wfds, session, store, mail_files,
  backlog, link, script, sent, got, outbox, seen,
  (* ProcessLogger *)
  logged, buffer, place, pipe, record, log_active, file

loop_vars ==
  <<loop_pc, exc, loop_clients, rfds, wfds, session, store, mail_files,
    backlog, link, script, sent, got, outbox, seen>>
log_vars == <<logged, buffer, place, pipe, record, log_active, file>>
vars == <<part, pool_vars, loop_vars, lifecycle_vars, log_vars, handoff_vars>>

-----------------------------------------------------------------------------
(* The bounds that the configuration does not give. *)

(* A process with two clients, who have little to say.  A piece of what a  *)
(* client sends is given by its kind.                                      *)
Say(kinds) == [n \in DOMAIN kinds |-> [kind |-> kinds[n]]]

Saying == <<Say(<<"HELO", "QUIT">>), Say(<<"TEXT", "RSET">>), Say(<<"QUIT">>)>>

Client == {"c1", "c2"}

Loop == INSTANCE WorkerLoop
  WITH Conn <- Client, BacklogMax <- 1, BufferSize <- 2, SndBuf <- 20,
       Script <- {Saying[n] : n \in 1..3},
       Address <- {"anna", "olaf"}, Local <- {"anna"}, NullPath <- "nobody",
       Maildir <- "maildir", MaxRecipients <- 2, DiskMayFail <- TRUE,
       pc <- loop_pc, clients <- loop_clients, files <- mail_files

Proc == {"p1", "p2"}

Logger == INSTANCE ProcessLogger WITH RecordMax <- 3, PipeMax <- 2, active <- log_active

ASSUME Logger!LoggerAssumption

Part == {"pool", "loop", "lifecycle", "logger", "maildir"}

(* Where a part has several initial states, the others rest in one of      *)
(* them; and the two clients of the working process say different things.  *)
Init ==
  /\ part \in Part
  /\ PoolInit /\ Loop!Init /\ LifecycleInit /\ Logger!Init /\ HandoffInit
  /\ \E m \in 1..2 : script = [c \in Client |-> Saying[IF c = "c1" THEN m ELSE 3]]
  /\ part = "loop" \/ script["c1"] = Saying[2]
  /\ part = "lifecycle" \/ blocking

Next ==
  /\ UNCHANGED part
  /\ IF part = "pool" THEN PoolNext ELSE UNCHANGED pool_vars
  /\ IF part = "loop" THEN Loop!Next ELSE UNCHANGED loop_vars
  /\ IF part = "lifecycle" THEN LifecycleNext ELSE UNCHANGED lifecycle_vars
  /\ IF part = "logger" THEN Logger!Next ELSE UNCHANGED log_vars
  /\ IF part = "maildir" THEN HandoffNext ELSE UNCHANGED handoff_vars

(* That of each part; why it is justified stands in its module. *)
Fairness ==
  /\ \A w \in Worker : WF_pool_vars(part = "pool" /\ Iterate(w))
  /\ WF_loop_vars(part = "loop" /\ Loop!run)
  /\ WF_lifecycle_vars(part = "lifecycle" /\ MainStep)
  /\ WF_lifecycle_vars(part = "lifecycle" /\ MainTakes)
  /\ \A w \in Process : /\ WF_lifecycle_vars(part = "lifecycle" /\ WorkerJoined(w))
                         /\ WF_lifecycle_vars(part = "lifecycle" /\ WorkerTakes(w))
                         /\ WF_lifecycle_vars(part = "lifecycle" /\ SessionLoggerTakes(w))
  /\ WF_log_vars(part = "logger" /\ Logger!run)
  /\ \A p \in Proc : /\ WF_log_vars(part = "logger" /\ Logger!Feed(p))
                     /\ WF_log_vars(part = "logger" /\ Logger!Leave(p))
  /\ \A c \in Caller : WF_handoff_vars(part = "maildir" /\ maildir_handler(c))

Spec == Init /\ [][Next]_vars /\ Fairness

-----------------------------------------------------------------------------
(* The variables of each part keep their types.                            *)
TypeOK ==
  PoolTypeOK /\ Loop!TypeOK /\ LifecycleTypeOK /\ Logger!TypeOK /\ HandoffTypeOK

(* However the handlers of two clients alternate, what select() reported   *)
(* for one stays good while those of the other run, and either is read in  *)
(* the end, whatever the other one does.                                   *)
EveryoneIsRead == []Loop!DispatchSound /\ Loop!EveryoneIsRead

(* What a process has logged is written, once each and in its order, and   *)
(* the process is gone once it is over, although its records wait for the  *)
(* pipe, unless the logging process is interrupted.                        *)
EverythingWritten ==
  []Logger!InOrder /\ Logger!EverythingWritten /\ Logger!EndsCleanly
=============================================================================
