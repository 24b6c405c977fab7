----------------------------- MODULE WorkerLoop -----------------------------
(***************************************************************************)
(* One working process: the select() loop of WorkingProcess.run with the   *)
(* handlers handle_client_read and handle_client_write of MailServer, the  *)
(* session each client has (Client, SMTP_FSM, Mail), and the connections   *)
(* as the kernel shows them to the process.                                *)
(*                                                                         *)
(* A handler runs to its end before the next one, so it is one step; what  *)
(* interleaves with it are the clients, the other processes that accept    *)
(* from the same socket, and the interrupt.  The clients are any that send *)
(* the pieces of their script in order, whenever they like, with or        *)
(* without waiting for replies, and close whenever they like.              *)
(***************************************************************************)
EXTENDS SmtpFsm, Mail

CONSTANTS
  Conn,       (* connections clients open                                  *)
  Script,     (* what a client may want to send: sequences of pieces       *)
  BacklogMax, (* completed connections the kernel keeps for listen(0)      *)
  BufferSize, (* pieces one recv(4096) returns at most                     *)
  SndBuf      (* unread replies after which a socket is not writable       *)

ASSUME WorkerAssumption ==
  /\ Script \subseteq Seq(Piece)
  /\ {BacklogMax, BufferSize, SndBuf} \subseteq Nat \ {0}

VARIABLES
  pc,       (* where run() is                                              *)
  exc,      (* the exception that ended run(), or "none"                   *)
  clients,  (* the keys of server.clients                                  *)
  rfds,     (* those select() found readable and that are not yet handled  *)
  wfds,     (* those select() found writable and that are not yet handled  *)
  session,  (* the Client of each connection                               *)
  store,    (* the mail files written                                      *)
  files,    (* how many file names uuid4() made                            *)
  backlog,  (* connections not yet accepted by any process                 *)
  link,     (* the state of each connection                                *)
  script,   (* what each client wants to send; never changes               *)
  sent,     (* how many pieces of it were sent                             *)
  got,      (* how many of those recv() has returned                       *)
  outbox,   (* the replies sent on each connection                         *)
  seen      (* how many of them the client has read                        *)

local  == <<pc, exc, clients, rfds, wfds, session, store, files>>
net    == <<backlog, link, script, sent, got, outbox, seen>>
vars   == <<local, net>>

Exception == { "none", "timeout", "ConnectionError", "ValueError",
               "AttributeError", "OSError", "MachineError", "KeyError",
               "KeyboardInterrupt" }

(* none      -- not opened                                                 *)
(* open      -- both ends open (accepted here or still in the backlog)     *)
(* elsewhere -- accepted by another process                                *)
(* eof       -- closed by the client, who had read every reply             *)
(* reset     -- the kernel has seen a RST                                  *)
(* closed    -- closed by QUIT_write                                       *)
Link == { "none", "open", "elsewhere", "eof", "reset", "closed" }

(* Client.__init__ and SMTP_FSM.init_machine.                              *)
NewSession ==
  [ state |-> "greeting_write", data_start_already_matched |-> FALSE,
    from_ |-> NullPath, to |-> <<>>, body |-> <<>>, file_path |-> 0 ]

(* What recv() would return: all that has arrived, up to its buffer.  The  *)
(* pieces of a script end wherever TCP may cut it, inside a line, too.     *)
Arrived(c)  == SubSeq(script[c], got[c] + 1, sent[c])
Received(c) ==
  SubSeq(Arrived(c), 1, IF Len(Arrived(c)) < BufferSize THEN Len(Arrived(c))
                                                        ELSE BufferSize)

-----------------------------------------------------------------------------
(* The other side of the sockets.                                          *)

Connect(c) ==
  /\ link[c] = "none"
  /\ Len(backlog) < BacklogMax
  /\ backlog' = Append(backlog, c)
  /\ link' = [link EXCEPT ![c] = "open"]
  /\ UNCHANGED <<local, script, sent, got, outbox, seen>>

(* A process of the pool that is not this one accepts the connection.      *)
TakenElsewhere ==
  /\ backlog # <<>>
  /\ backlog' = Tail(backlog)
  /\ link' = [link EXCEPT ![Head(backlog)] = "elsewhere"]
  /\ UNCHANGED <<local, script, sent, got, outbox, seen>>

ClientSend(c) ==
  /\ link[c] = "open"
  /\ sent[c] < Len(script[c])
  /\ sent' = [sent EXCEPT ![c] = @ + 1]
  /\ UNCHANGED <<local, backlog, link, script, got, outbox, seen>>

ClientRecv(c) ==
  /\ link[c] \in {"open", "closed"}
  /\ seen[c] < Len(outbox[c])
  /\ seen' = [seen EXCEPT ![c] = Len(outbox[c])]
  /\ UNCHANGED <<local, backlog, link, script, sent, got, outbox>>

(* Closing a socket that holds unread replies sends a RST.                 *)
ClientClose(c) ==
  /\ link[c] = "open"
  /\ link' = [link EXCEPT ![c] = IF seen[c] = Len(outbox[c]) THEN "eof" ELSE "reset"]
  /\ UNCHANGED <<local, backlog, script, sent, got, outbox, seen>>

-----------------------------------------------------------------------------
(* run(): an exception ends the loop, whether run() catches it or not.     *)

Raise(e) ==
  /\ exc' = e
  /\ pc' = "ended"

readable(c) == got[c] < sent[c] \/ link[c] \in {"eof", "reset"}
writable(c) == Len(outbox[c]) - seen[c] < SndBuf \/ link[c] = "reset"

(* Mutant of Select: only the first client is looked at.                   *)
SelectFirst ==
  /\ pc = "select"
  /\ rfds' = {c \in clients : readable(c) /\ c = CHOOSE d \in clients : TRUE}
  /\ wfds' = {c \in clients : writable(c)}
  /\ backlog # <<>> \/ rfds' # {} \/ wfds' # {}
  /\ pc' = IF backlog # <<>> THEN "accept" ELSE "reads"
  /\ UNCHANGED <<exc, clients, session, store, files, net>>

(* select() returns.  When nothing is ready for READ_TIMEOUT seconds, its  *)
(* lists are empty and the loop comes back to it: a stuttering step.       *)
Select ==
  /\ pc = "select"
  /\ rfds' = {c \in clients : readable(c)}
  /\ wfds' = {c \in clients : writable(c)}
  /\ backlog # <<>> \/ rfds' # {} \/ wfds' # {}
  /\ pc' = IF backlog # <<>> THEN "accept" ELSE "reads"
  /\ UNCHANGED <<exc, clients, session, store, files, net>>

(* The listening socket is the first of rfds.                              *)
Accept ==
  /\ pc = "accept"
  /\ backlog # <<>>
  /\ backlog' = Tail(backlog)
  /\ clients' = clients \cup {Head(backlog)}
  /\ session' = [session EXCEPT ![Head(backlog)] = NewSession]
  /\ pc' = "reads"
  /\ UNCHANGED <<exc, rfds, wfds, store, files, link, script, sent, got, outbox, seen>>

AcceptTimeout ==
  /\ pc = "accept"
  /\ backlog = <<>>
  /\ Raise("timeout")
  /\ UNCHANGED <<clients, rfds, wfds, session, store, files, net>>

ReadsDone ==
  /\ pc = "reads"
  /\ rfds = {}
  /\ pc' = "writes"
  /\ UNCHANGED <<exc, clients, rfds, wfds, session, store, files, net>>

WritesDone ==
  /\ pc = "writes"
  /\ wfds = {}
  /\ pc' = "select"
  /\ UNCHANGED <<exc, clients, rfds, wfds, session, store, files, net>>

Interrupt ==
  /\ pc # "ended"
  /\ Raise("KeyboardInterrupt")
  /\ UNCHANGED <<clients, rfds, wfds, session, store, files, net>>

-----------------------------------------------------------------------------
(* handle_client_read.                                                     *)

(* The branches of the DATA_STATE, in their order.  Whatever they leave    *)
(* unmatched is dropped: QUIT and RSET are not looked at in this state.    *)
DataTrigger(s, line) ==
  CASE FirstFourRcpt(line) ->
         IF Path_matched(line, "RCPT") THEN "ANOTHER_RECEPIENT" ELSE "none"
    [] ~FirstFourRcpt(line) /\ s.data_start_already_matched /\ DotNear(line) ->
         IF DATA_end_matched(line) THEN "DATA_end" ELSE "none"
    [] OTHER ->
         IF FirstFourData(line)
         THEN IF DATA_start_matched(line) THEN "DATA_start" ELSE "none"
         ELSE IF s.data_start_already_matched THEN "DATA_additional" ELSE "none"

(* Mutant of ReadTrigger: the text alone decides on MAIL FROM.             *)
ReadTriggerByText(s, line) ==
  CASE s.state = "helo" /\ HELO_matched(line)            -> "HELO"
    [] Path_matched(line, "MAIL")                        -> "MAIL_FROM"
    [] s.state = "rcpt_to" /\ Path_matched(line, "RCPT") -> "RCPT_TO"
    [] s.state = "data"                                  -> DataTrigger(s, line)
    [] OTHER                                             -> "none"

(* The trigger a line fires in a session, "none" when the line is dropped. *)
ReadTrigger(s, line) ==
  CASE s.state = "helo"      /\ HELO_matched(line)         -> "HELO"
    [] s.state = "mail_from" /\ Path_matched(line, "MAIL") -> "MAIL_FROM"
    [] s.state = "rcpt_to"   /\ Path_matched(line, "RCPT") -> "RCPT_TO"
    [] s.state = "data"                                    -> DataTrigger(s, line)
    [] s.state # "data" /\ IsQuit(line)                    -> "QUIT"
    [] s.state # "data" /\ IsRset(line)                    -> "RSET"
    [] OTHER                                               -> "none"

(* The handler has made the session s and fires the trigger; e is the      *)
(* exception that what it calls afterwards raises.                         *)
Fire(c, trigger, s, e) ==
  LET fits == CanFire(trigger, s.state)
      raised == IF fits THEN e ELSE "MachineError"
  IN  /\ session' = [session EXCEPT ![c] =
                       IF fits THEN [s EXCEPT !.state = Dest(trigger, s.state)] ELSE s]
      /\ IF raised = "none" THEN UNCHANGED <<pc, exc>> ELSE Raise(raised)

Reading(c) ==
  /\ pc = "reads"
  /\ c \in rfds
  /\ rfds' = rfds \ {c}
  /\ UNCHANGED <<clients, wfds, backlog, link, script, sent, outbox, seen>>

(* Mutant of ReadingLine: recv() is taken to fill its buffer.              *)
ReadingLineFull(c, trigger) ==
  /\ Reading(c)
  /\ got[c] < sent[c]
  /\ ~Undecodable(Received(c))
  /\ ReadTrigger(session[c], Received(c)) = trigger
  /\ got' = [got EXCEPT ![c] = @ + BufferSize]

(* A line was received and fires the trigger ("none" when it is dropped).  *)
ReadingLine(c, trigger) ==
  /\ Reading(c)
  /\ got[c] < sent[c]
  /\ ~Undecodable(Received(c))
  /\ ReadTrigger(session[c], Received(c)) = trigger
  /\ got' = [got EXCEPT ![c] = @ + Len(Received(c))]

ReadCommand(c, trigger) ==
  /\ trigger \in {"HELO", "QUIT", "RSET"}
  /\ ReadingLine(c, trigger)
  /\ Fire(c, trigger, session[c], "none")
  /\ UNCHANGED <<store, files>>

ReadMailFrom(c) ==
  /\ ReadingLine(c, "MAIL_FROM")
  /\ Fire(c, "MAIL_FROM",
          [session[c] EXCEPT !.from_ = Path_group(Received(c), "MAIL")], "none")
  /\ UNCHANGED <<store, files>>

(* Mutant of ReadRecipient: every RCPT of the text is taken.               *)
ReadRecipientAll(c, trigger) ==
  LET line == Received(c)
      rcpt == SelectSeq(line, LAMBDA piece : piece.kind = "RCPT")
  IN  /\ trigger \in {"RCPT_TO", "ANOTHER_RECEPIENT"}
      /\ ReadingLine(c, trigger)
      /\ Fire(c, trigger,
              [session[c] EXCEPT !.to = @ \o [i \in DOMAIN rcpt |-> rcpt[i].addr]], "none")
      /\ UNCHANGED <<store, files>>

ReadRecipient(c, trigger) ==
  /\ trigger \in {"RCPT_TO", "ANOTHER_RECEPIENT"}
  /\ ReadingLine(c, trigger)
  /\ Fire(c, trigger,
          [session[c] EXCEPT !.to = Append(@, Path_group(Received(c), "RCPT"))], "none")
  /\ UNCHANGED <<store, files>>

ReadDataStart(c) ==
  /\ ReadingLine(c, "DATA_start")
  /\ Fire(c, "DATA_start",
          [session[c] EXCEPT !.body = @ \o DATA_start_group(Received(c)),
                             !.data_start_already_matched = TRUE], "none")
  /\ UNCHANGED <<store, files>>

(* Mutant of ReadDataAdditional: the chunk replaces what came before it.   *)
ReadDataReplaced(c) ==
  /\ ReadingLine(c, "DATA_additional")
  /\ Fire(c, "DATA_additional", [session[c] EXCEPT !.body = Received(c)], "none")
  /\ UNCHANGED <<store, files>>

ReadDataAdditional(c) ==
  /\ ReadingLine(c, "DATA_additional")
  /\ Fire(c, "DATA_additional",
          [session[c] EXCEPT !.body = @ \o Received(c)], "none")
  /\ UNCHANGED <<store, files>>

(* The file of a mail in a box, and one that write() broke off.            *)
FileOf(mail, box) ==
  [ box |-> box, file |-> mail.file_path, from_ |-> mail.from_, to |-> mail.to,
    body |-> mail.body ]

TornFile(mail, box) == [FileOf(mail, box) EXCEPT !.body = <<Plain("CLIPPED")>>]

(* Mutants of ReadDataEnd: the flag stays set; the mail is written before  *)
(* its last data are added.                                                *)
ReadDataEndNoReset(c) ==
  LET file == files + 1
      mail == [session[c] EXCEPT !.body = @ \o DATA_end_group(Received(c)),
                                 !.file_path = file]
  IN  /\ ReadingLine(c, "DATA_end")
      /\ Fire(c, "DATA_end", mail, "none")
      /\ files' = file
      /\ UNCHANGED store

ReadDataEndEarly(c) ==
  LET file == files + 1
      mail == [session[c] EXCEPT !.body = @ \o DATA_end_group(Received(c)),
                                 !.file_path = file,
                                 !.data_start_already_matched = FALSE]
  IN  /\ ReadingLine(c, "DATA_end")
      /\ Fire(c, "DATA_end", mail, "none")
      /\ \E out \in to_file(mail.to) :
           store' = store \cup { [FileOf(mail, b) EXCEPT !.body = session[c].body] :
                                   b \in out.boxes }
      /\ files' = file

(* The mail is written before the reply is sent; what to_file returns is   *)
(* ignored, and an exception of it leaves the flag as it was.              *)
ReadDataEnd(c) ==
  LET file == files + 1
      mail == [session[c] EXCEPT !.body = @ \o DATA_end_group(Received(c)),
                                 !.file_path = file]
  IN  /\ ReadingLine(c, "DATA_end")
      /\ \E out \in to_file(mail.to) :
           /\ Fire(c, "DATA_end",
                   [mail EXCEPT !.data_start_already_matched = out.exc # "none"], out.exc)
           /\ store' = store \cup {FileOf(mail, b) : b \in out.boxes}
                             \cup {TornFile(mail, b) : b \in out.torn}
      /\ files' = file

ReadDropped(c) ==
  /\ ReadingLine(c, "none")
  /\ UNCHANGED <<pc, exc, session, store, files>>

(* recv() returned '': no branch does anything, and nobody is told.        *)
ReadEof(c) ==
  /\ Reading(c)
  /\ got[c] = sent[c]
  /\ link[c] # "reset"
  /\ UNCHANGED <<pc, exc, session, store, files, got>>

ReadFails(c) ==
  /\ Reading(c)
  /\ \/ /\ got[c] = sent[c] /\ link[c] = "reset"
        /\ Raise("ConnectionError")
        /\ UNCHANGED got
     \/ /\ got[c] < sent[c] /\ Undecodable(Received(c))
        /\ Raise("ValueError")
        /\ got' = [got EXCEPT ![c] = @ + Len(Received(c))]
  /\ UNCHANGED <<session, store, files>>

handle_client_read(c) ==
  \/ \E t \in {"HELO", "QUIT", "RSET"} : ReadCommand(c, t)
  \/ ReadMailFrom(c)
  \/ \E t \in {"RCPT_TO", "ANOTHER_RECEPIENT"} : ReadRecipient(c, t)
  \/ ReadDataStart(c)
  \/ ReadDataAdditional(c)
  \/ ReadDataEnd(c)
  \/ ReadDropped(c)
  \/ ReadEof(c)
  \/ ReadFails(c)

-----------------------------------------------------------------------------
(* handle_client_write.                                                    *)

Writing(c) ==
  /\ pc = "writes"
  /\ c \in wfds
  /\ wfds' = wfds \ {c}
  /\ UNCHANGED <<rfds, store, files, backlog, script, sent, got, seen>>

WriteNothing(c) ==
  /\ Writing(c)
  /\ ~Owes(session[c].state)
  /\ UNCHANGED <<pc, exc, clients, session, link, outbox>>

(* The "before" handler raises, so the machine stays in its state.         *)
WriteFails(c) ==
  /\ Writing(c)
  /\ Owes(session[c].state)
  /\ link[c] = "reset"
  /\ Raise("ConnectionError")
  /\ UNCHANGED <<clients, session, link, outbox>>

(* A reply to a client that has closed is answered by a RST.               *)
WriteReply(c) ==
  LET s == session[c]
      trigger == WriteTrigger[s.state]
      quits == trigger = "QUIT_write"
  IN  /\ Writing(c)
      /\ Owes(s.state)
      /\ link[c] # "reset"
      /\ Fire(c, trigger, s, "none")
      /\ outbox' = [outbox EXCEPT ![c] =
                      Append(@, [trigger |-> trigger, file_path |-> s.file_path])]
      /\ link' = [link EXCEPT ![c] =
                    IF quits THEN "closed" ELSE IF @ = "eof" THEN "reset" ELSE @]
      /\ clients' = IF quits THEN clients \ {c} ELSE clients

handle_client_write(c) == WriteNothing(c) \/ WriteFails(c) \/ WriteReply(c)

(* self.server.clients[fds] is looked up for every entry of the two lists, *)
(* which are taken in any order.                                           *)
Lookup(c, handler) ==
  IF c \in clients THEN handler
  ELSE /\ Raise("KeyError")
       /\ UNCHANGED <<clients, rfds, wfds, session, store, files, net>>

Handle ==
  \/ /\ pc = "reads"
     /\ \E c \in rfds : Lookup(c, handle_client_read(c))
  \/ /\ pc = "writes"
     /\ \E c \in wfds : Lookup(c, handle_client_write(c))

-----------------------------------------------------------------------------
Init ==
  /\ pc = "select" /\ exc = "none"
  /\ clients = {} /\ rfds = {} /\ wfds = {}
  /\ session = [c \in Conn |-> NewSession]
  /\ store = {} /\ files = 0
  /\ backlog = <<>>
  /\ link = [c \in Conn |-> "none"]
  /\ script \in [Conn -> Script]
  /\ sent = [c \in Conn |-> 0]
  /\ got = [c \in Conn |-> 0]
  /\ outbox = [c \in Conn |-> <<>>]
  /\ seen = [c \in Conn |-> 0]

run ==
  \/ Select
  \/ Accept
  \/ AcceptTimeout
  \/ ReadsDone
  \/ WritesDone
  \/ Handle

Outside ==
  \/ \E c \in Conn : Connect(c) \/ ClientSend(c) \/ ClientRecv(c) \/ ClientClose(c)
  \/ TakenElsewhere

Next == run \/ Outside \/ Interrupt

(* The process is scheduled; nothing is assumed of the clients.            *)
Spec == Init /\ [][Next]_vars /\ WF_vars(run)

-----------------------------------------------------------------------------
(* Types of the parts of the state. *)
SessionType ==
  [ state : State, data_start_already_matched : BOOLEAN, from_ : Path,
    to : Seq(Path), body : Seq(Piece), file_path : Nat ]

FileType ==
  [ box : Local \cup {Maildir}, file : Nat, from_ : Path, to : Seq(Path),
    body : Seq(Piece) ]

ReplyType == [ trigger : {WriteTrigger[s] : s \in State}, file_path : Nat ]

(* The variables keep their types.                                         *)
TypeOK ==
  /\ pc \in {"select", "accept", "reads", "writes", "ended"}
  /\ exc \in Exception
  /\ clients \subseteq Conn /\ rfds \subseteq Conn /\ wfds \subseteq Conn
  /\ session \in [Conn -> SessionType]
  /\ store \subseteq FileType /\ files \in Nat
  /\ backlog \in Seq(Conn)
  /\ link \in [Conn -> Link]
  /\ script \in [Conn -> Script]
  /\ sent \in [Conn -> Nat] /\ got \in [Conn -> Nat] /\ seen \in [Conn -> Nat]
  /\ outbox \in [Conn -> Seq(ReplyType)]
  /\ \A c \in Conn : got[c] <= sent[c] /\ sent[c] <= Len(script[c])

(* The two lists of one select() stay good until the loops over them are   *)
(* over, although the handlers in between fire triggers and drop clients:  *)
(* no lookup misses, and no trigger is fired in a state without a row.     *)
DispatchSound == exc \notin {"KeyError", "MachineError"}

Told(c, trigger) ==
  Cardinality({i \in DOMAIN outbox[c] : outbox[c][i].trigger = trigger})

(* Though the writable sockets are visited on every turn of the loop, the  *)
(* server never speaks more often than it is spoken to: the greeting, and  *)
(* at most one reply for every piece received.                             *)
SpokenTo ==
  \A c \in Conn :
    Len(outbox[c]) + (IF Owes(session[c].state) THEN 1 ELSE 0) <= 1 + got[c]

(* A recipient of the mail was answered "250 2.1.5 Ok", or will be next:   *)
(* joined, repeated or late RCPT lines never add one in silence, as long   *)
(* as SndBuf has room for every reply.                                     *)
RecipientsAnswered ==
  \A c \in Conn :
    Len(session[c].to) <= Told(c, "RCPT_TO_write")
                          + (IF session[c].state = "rcpt_to_write" THEN 1 ELSE 0)

(* A mail that lies in some of its boxes and is missing from others was    *)
(* broken off by an exception that also ended the process.                 *)
WholeOrEnded ==
  \A f \in store :
    \/ \A b \in AllBoxes(f.to) : \E g \in store : g.box = b /\ g.file = f.file
    \/ exc \in {"AttributeError", "OSError"}

(* From the moment the reply "250 Ok: queued" is due, the mail lies in all *)
(* of its boxes exactly as the session holds it, unless to_file refused it *)
(* (the server answers "queued" then, too).                                *)
QueuedIsStored ==
  \A c \in Conn :
    LET s == session[c]
    IN  s.state \in {"data_end_write", "quit"} /\ exc \notin {"AttributeError", "OSError"} =>
          \/ Refused(s.to)
          \/ AllBoxes(s.to) = { f.box : f \in { g \in store :
               g = [ box |-> g.box, file |-> s.file_path, from_ |-> s.from_,
                     to |-> s.to, body |-> s.body ] } }

(* "queued" answers a message the server asked for: since the last reply   *)
(* to HELO or RSET, and since the last "queued", it has sent a 354, as     *)
(* long as SndBuf has room for every reply.                                *)
QueuedAfter354 ==
  \A c \in Conn : \A i \in DOMAIN outbox[c] :
    outbox[c][i].trigger = "DATA_end_write" =>
      \E j \in 1..(i - 1) :
        /\ outbox[c][j].trigger = "DATA_start_write"
        /\ \A k \in (j + 1)..(i - 1) :
             outbox[c][k].trigger \notin {"DATA_end_write", "HELO_write"}

(* A client that has sent something is read, however many others there are *)
(* and whatever they do, unless the process ends.                          *)
EveryoneIsRead ==
  \A c \in Conn :
    (c \in clients /\ got[c] < sent[c])
      ~> (got[c] = sent[c] \/ c \notin clients \/ pc = "ended")

=============================================================================
