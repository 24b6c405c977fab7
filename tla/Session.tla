------------------------------- MODULE Session -------------------------------
(***************************************************************************)
(* The session of refs/libs/autogen: a file of commands drives the state   *)
(* machine that AutoFSM has made from server.def.                          *)
(***************************************************************************)
EXTENDS Integers, Sequences, SequencesExt

CONSTANT Lines   (* bound: lines of the file                               *)

(* Parameters of USER: and PASSWORD:, right or wrong; NULL when malloc()   *)
(* fails.                                                                  *)
Word == {"right", "wrong"}
NULL == "NULL"

Command ==
  [name : {"cmd_user", "cmd_passw"}, param : Word] \cup [name : {"cmd_quit", "invalid"}, param : {NULL}]

VARIABLES
  at,       (* what run() is about to do                                   *)
  state,    (* struct server_state_t                                       *)
  result,   (* what run() returned, if it did                              *)
  read,     (* the commands read so far                                    *)
  events    (* the events that the machine was stepped with                *)

session_vars == <<at, state, result, read, events>>

-----------------------------------------------------------------------------
(* server_fsm_trans_table: what is not in it is invalid. *)
Table ==
  [init          |-> [timeout |-> "done", cmd_quit |-> "done", cmd_user |-> "user_known"],
   user_known    |-> [timeout |-> "done", cmd_quit |-> "done", cmd_passw |-> "authorization"],
   authorization |-> [timeout |-> "done", cmd_quit |-> "done", password_accepted |-> "session",
                      password_invalid |-> "init", too_many_attempts |-> "done"],
   session       |-> [timeout |-> "done", cmd_quit |-> "done", cmd_proceed |-> "session"]]

(* Mutant of server_fsm_step: an invalid event starts the machine again.   *)
server_fsm_step_again(st, event) ==
  IF st \in DOMAIN Table /\ event \in DOMAIN Table[st] THEN Table[st][event] ELSE "init"

server_fsm_step(st, event) ==
  IF st \notin DOMAIN Table THEN "init"
  ELSE IF event \in DOMAIN Table[st] THEN Table[st][event] ELSE "invalid"

(* Mutant of get_param: without memory, the parameter stays what it was.   *)
get_param_old(old, word) == {word, old}

(* get_param() of a line that the pattern has matched *)
get_param(old, word) == {word, NULL}

(* server_cmd_user(), server_cmd_password(): what the step does to the     *)
(* parameters.                                                             *)
Taken(c) ==
  CASE state.state = "init" /\ c.name = "cmd_user" ->
         {[state EXCEPT !.user = w] : w \in get_param(state.user, c.param)}
    [] state.state = "user_known" /\ c.name = "cmd_passw" ->
         {[state EXCEPT !.password = w] : w \in get_param(state.password, c.param)}
    [] OTHER -> {state}

(* server_authorize() never asks for too_many_attempts. *)
Right(s) == s.user = "right" /\ s.password = "right"

-----------------------------------------------------------------------------
(* read_cmd() and a step of the machine; an invalid one changes nothing.   *)
command ==
  /\ at = "loop" /\ Len(read) < Lines
  /\ \E c \in Command : \E taken \in Taken(c) :
       LET next == server_fsm_step(state.state, c.name)
       IN  /\ read' = Append(read, c) /\ events' = Append(events, c.name)
           /\ state' = [taken EXCEPT !.state = IF next = "invalid" THEN @ ELSE next]
           /\ at' = IF next = "authorization" THEN "authorize"
                    ELSE IF next = "done" THEN "end" ELSE "loop"
  /\ UNCHANGED result

server_authorize ==
  /\ at = "authorize" /\ at' = "loop"
  /\ LET event == IF Right(state) THEN "password_accepted" ELSE "password_invalid"
     IN  /\ events' = Append(events, event)
         /\ state' = [state EXCEPT !.state = server_fsm_step(@, event),
                                   !.attempts = IF Right(state) THEN @ ELSE @ + 1]
  /\ UNCHANGED <<result, read>>

(* A line that is too long, or the last one without its end. *)
cut_line ==
  /\ at = "loop"
  /\ at' = "ended" /\ result' = 1
  /\ state' = [state |-> "init", user |-> NULL, password |-> NULL, attempts |-> 0]
  /\ UNCHANGED <<read, events>>

(* strchr() of the NULL of fgets(), at the end of the file *)
end_of_file ==
  /\ at = "loop"
  /\ at' = "crashed"
  /\ UNCHANGED <<state, result, read, events>>

(* The loop is left, the state is freed. *)
free_state ==
  /\ at = "end" /\ at' = "ended" /\ result' = 0
  /\ state' = [state |-> "init", user |-> NULL, password |-> NULL, attempts |-> 0]
  /\ UNCHANGED <<read, events>>

SessionInit ==
  /\ at = "loop" /\ result = -1 /\ read = <<>> /\ events = <<>>
  /\ state = [state |-> "init", user |-> NULL, password |-> NULL, attempts |-> 0]

SessionNext == command \/ server_authorize \/ cut_line \/ end_of_file \/ free_state

SessionSpec == SessionInit /\ [][SessionNext]_session_vars

-----------------------------------------------------------------------------
State == {"init", "user_known", "authorization", "session", "done"}

Event ==
  {"timeout", "cmd_quit", "cmd_user", "cmd_passw", "cmd_proceed", "invalid",
   "password_accepted", "password_invalid", "too_many_attempts"}

SessionTypeOK ==
  /\ at \in {"loop", "authorize", "end", "ended", "crashed"}
  /\ state \in [state : State, user : Word \cup {NULL}, password : Word \cup {NULL}, attempts : Nat]
  /\ result \in {-1, 0, 1}
  /\ read \in Seq(Command) /\ events \in Seq(Event)

-----------------------------------------------------------------------------
(* The transitions of server.def, where * is any state. *)
Def ==
  {<<"init", "cmd_user", "user_known">>, <<"user_known", "cmd_passw", "authorization">>,
   <<"authorization", "password_accepted", "session">>, <<"authorization", "password_invalid", "init">>,
   <<"authorization", "too_many_attempts", "done">>, <<"session", "cmd_proceed", "session">>,
   <<"*", "timeout", "done">>, <<"*", "cmd_quit", "done">>}

DefStep(st, event) ==
  IF \E t \in Def : t[1] \in {st, "*"} /\ t[2] = event
  THEN (CHOOSE t \in Def : t[1] \in {st, "*"} /\ t[2] = event)[3] ELSE st

(* The machine is where server.def says after the same events, and an      *)
(* event that has no transition leaves it where it is.                     *)
FollowsDef ==
  at \notin {"ended"} => state.state = FoldLeft(DefStep, "init", events)

(* USER: is taken when no user before it still waits for a password.       *)
UserTaken(j) ==
  \A l \in 1..(j - 1) :
    read[l].name = "cmd_user" => \E m \in (l + 1)..(j - 1) : read[m].name = "cmd_passw"

(* A session is opened only by a right user that was taken, followed, with *)
(* nothing that counts between them, by a right password: never by words   *)
(* that are left over from an earlier attempt.                             *)
SessionIsAuthorized ==
  state.state = "session" =>
    \E j, k \in 1..Len(read) :
      /\ j < k /\ UserTaken(j)
      /\ read[j] = [name |-> "cmd_user", param |-> "right"]
      /\ read[k] = [name |-> "cmd_passw", param |-> "right"]
      /\ \A l \in (j + 1)..(k - 1) : read[l].name \in {"cmd_user", "invalid"}

(* run() returns 0 only when QUIT was the last command.                    *)
ResultTells ==
  at = "ended" /\ result = 0 => read # <<>> /\ Last(read).name = "cmd_quit"

(* The generated machine goes where the transitions of server.def go, and  *)
(* the result of run() tells how the dialog ended.                         *)
ServerFollowsDef == SessionTypeOK /\ FollowsDef /\ ResultTells
=============================================================================
