------------------------------ MODULE SmtpFsm ------------------------------
(***************************************************************************)
(* The machine of one SMTP session: the states of server/state.py and the  *)
(* transition table of SMTP_FSM.__init__, as the "transitions" library     *)
(* reads them.  A trigger is fired in the current state; the library runs  *)
(* the "before" handler, then enters the destination, and raises           *)
(* MachineError when no row fits.                                          *)
(***************************************************************************)

(* A state is named as in server/state.py. *)
State ==
  { "greeting_write", "helo", "helo_write", "mail_from", "mail_from_write",
    "rcpt_to", "rcpt_to_write", "data", "data_write", "data_end_write",
    "quit", "quit_write", "finish" }

Row(trigger, source, dest) ==
  [trigger |-> trigger, source |-> source, dest |-> dest]

(* The rows with a single source state. *)
OneSource ==
  { Row("HELO",              "helo",            "helo_write"),
    Row("MAIL_FROM",         "mail_from",       "mail_from_write"),
    Row("RCPT_TO",           "rcpt_to",         "rcpt_to_write"),
    Row("ANOTHER_RECEPIENT", "data",            "rcpt_to_write"),
    Row("DATA_start",        "data",            "data_write"),
    Row("DATA_additional",   "data",            "data"),
    Row("DATA_end",          "data",            "data_end_write"),
    Row("GREETING_write",    "greeting_write",  "helo"),
    Row("HELO_write",        "helo_write",      "mail_from"),
    Row("MAIL_FROM_write",   "mail_from_write", "rcpt_to"),
    Row("RCPT_TO_write",     "rcpt_to_write",   "data"),
    Row("DATA_start_write",  "data_write",      "data"),
    Row("DATA_end_write",    "data_end_write",  "quit"),
    Row("QUIT_write",        "quit_write",      "finish") }

(* The rows with source '*'. *)
AnySource ==
  UNION { { Row("QUIT",       s, "quit_write"),
            Row("RSET",       s, "helo_write"),
            Row("RSET_write", s, "helo") } : s \in State }

(* Mutants of Table: HELO_write stays where it is; a further recipient gets *)
(* no reply; every chunk of the message is answered by a 354.              *)
Replaced(old, new) == (OneSource \ {old}) \cup {new} \cup AnySource

TableHeloStuck ==
  Replaced(Row("HELO_write", "helo_write", "mail_from"),
           Row("HELO_write", "helo_write", "helo_write"))

TableSilentRecipient ==
  Replaced(Row("ANOTHER_RECEPIENT", "data", "rcpt_to_write"),
           Row("ANOTHER_RECEPIENT", "data", "data"))

TableChatty ==
  Replaced(Row("DATA_additional", "data", "data"),
           Row("DATA_additional", "data", "data_write"))

Table == OneSource \cup AnySource

CanFire(trigger, state) ==
  \E r \in Table : r.trigger = trigger /\ r.source = state

(* No trigger has two rows for one state, so the destination is unique. *)
Dest(trigger, state) ==
  (CHOOSE r \in Table : r.trigger = trigger /\ r.source = state).dest

(* The states from which handle_client_write sends something, and the      *)
(* trigger it fires there.                                                 *)
WriteTrigger ==
  [ s \in State |->
      CASE s = "greeting_write"  -> "GREETING_write"
        [] s = "helo_write"      -> "HELO_write"
        [] s = "mail_from_write" -> "MAIL_FROM_write"
        [] s = "rcpt_to_write"   -> "RCPT_TO_write"
        [] s = "data_write"      -> "DATA_start_write"
        [] s = "data_end_write"  -> "DATA_end_write"
        [] s = "quit_write"      -> "QUIT_write"
        [] OTHER                 -> "none" ]

Owes(state) == WriteTrigger[state] # "none"

=============================================================================
