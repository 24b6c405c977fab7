----------------------------- MODULE SmtpDialog -----------------------------
(***************************************************************************)
(* One working process and clients that behave as smtplib does in the      *)
(* tests of the server: each sends one mail, and no command before it has  *)
(* read the reply to the last one.  The message itself is sent at once, so *)
(* TCP may hand it to the server joined and cut in any way.                *)
(*                                                                         *)
(* Where TCP cuts it matters to the server, which looks at the beginning   *)
(* and the end of what recv() returned.  The connections in Calm are those *)
(* on which every cut happens to fall where the server takes it (IsDialog):*)
(* the message may be cut inside its lines, too, but no chunk begins like  *)
(* RCPT or DATA or ends near a dot, and a command and the final dot come   *)
(* in one piece with their line ends.  The other connections are cut       *)
(* anyhow; what is promised is promised to those in Calm, in spite of what *)
(* happens on the others.                                                  *)
(*                                                                         *)
(* The process is the only one of its server (processes=1), nobody         *)
(* interrupts it, and clients do not give up.                              *)
(***************************************************************************)
EXTENDS WorkerLoop

CONSTANT Calm  (* the connections on which no cut does harm                *)

ASSUME CalmAssumption == Calm \subseteq Conn

Dialog(from_, to, body) ==
  <<Plain("HELO"), MailFrom(from_)>> \o [i \in DOMAIN to |-> RcptTo(to[i])]
    \o <<Plain("DATA")>> \o body \o <<Plain("DOT"), Plain("QUIT")>>

(* The parts of such a script.                                             *)
DataAt(s) == SelectInSeq(s, LAMBDA piece : piece = Plain("DATA"))

LetterOf(s) ==
  [ from_ |-> s[2].addr,
    to    |-> [i \in 1..(DataAt(s) - 3) |-> s[i + 2].addr],
    body  |-> SubSeq(s, DataAt(s) + 1, Len(s) - 2) ]

IsBody(s, i) == DataAt(s) < i /\ i < Len(s) - 1

(* A script of this kind, with a recipient and a message that the server   *)
(* takes as it is: none of the stretches it is cut into begins like RCPT   *)
(* or DATA, has a dot near its end, or stops inside a character.           *)
IsDialog(s) ==
  /\ Len(s) > 5
  /\ s[1] = Plain("HELO") /\ s[2].kind = "MAIL"
  /\ s[Len(s) - 1] = Plain("DOT") /\ s[Len(s)] = Plain("QUIT")
  /\ \E d \in 4..(Len(s) - 2) :
       /\ s[d] = Plain("DATA")
       /\ \A i \in 3..(d - 1) : s[i].kind = "RCPT"
       /\ \A i \in (d + 1)..(Len(s) - 2) :
            s[i].kind \in {"HELO", "MAIL", "QUIT", "RSET", "TEXT", "SHORT"}

(* Recipients that the server does not refuse, all with an address.        *)
Storable(to) ==
  /\ ~Refused(to)
  /\ \A i \in 1..Len(to) : to[i] # NullPath

(* A letter that the server takes at all, in such a script.                *)
IsCalm(s) == IsDialog(s) /\ Storable(LetterOf(s).to)

(* The replies a client has read when it may send piece i: the greeting,   *)
(* and one for each earlier command, whose last piece is not continued;    *)
(* the dot belongs to the message.                                         *)
Awaited(s, i) ==
  1 + Cardinality({j \in 1..(i - 1) : ~IsBody(s, j) /\ ~Continued(s, j)})

DialogSend(c) ==
  /\ seen[c] >= Awaited(script[c], sent[c] + 1)
  /\ ClientSend(c)

ClientStep(c) == Connect(c) \/ DialogSend(c) \/ ClientRecv(c)

DialogNext == run \/ \E c \in Conn : ClientStep(c)

DialogInit == Init /\ \A c \in Calm : IsCalm(script[c])

DialogSpec ==
  /\ DialogInit
  /\ [][DialogNext]_vars
  /\ WF_vars(run)
  /\ \A c \in Conn : WF_vars(ClientStep(c))

-----------------------------------------------------------------------------
(* The replies of the whole dialog, in order.                              *)
ExpectedReplies(s) ==
  <<"GREETING_write", "HELO_write", "MAIL_FROM_write">>
    \o [i \in DOMAIN LetterOf(s).to |-> "RCPT_TO_write"]
    \o <<"DATA_start_write", "DATA_end_write", "QUIT_write">>

(* A client whose message is not cut at a wrong place gets the replies to  *)
(* its own commands, in their order, and none besides, however its message *)
(* is joined and cut elsewhere, and whatever happens on other connections. *)
RepliesInOrder ==
  \A c \in Calm :
    IsPrefix([i \in DOMAIN outbox[c] |-> outbox[c][i].trigger],
             ExpectedReplies(script[c]))

Letter(mail) == [from_ |-> mail.from_, to |-> mail.to, body |-> mail.body]

(* What a failing write() leaves of it.                                    *)
FragmentOf(letter) == [letter EXCEPT !.body = <<Plain("CLIPPED")>>]

(* What lies in a box under the name of the mail of such a client is its   *)
(* letter, whole and unmixed; but a write() that failed, and ended the     *)
(* process with that, may have left one file that is broken off.           *)
StoredIntact ==
  \A c \in Calm :
    LET mine == {f \in store : f.file = session[c].file_path}
        torn == {f \in mine : Letter(f) # LetterOf(script[c])}
    IN  \/ torn = {}
        \/ /\ exc = "OSError" /\ Cardinality(torn) = 1
           /\ \A f \in torn : Letter(f) = FragmentOf(LetterOf(script[c]))

(* Every such client connects in the end, gets all of its replies and sees *)
(* the connection closed by the server; unless the process was ended by    *)
(* the disk, or by a character that was cut on another connection.         *)
DialogCompletes ==
  \A c \in Calm :
    <>( \/ link[c] = "closed" /\ seen[c] = Len(ExpectedReplies(script[c]))
       \/ exc \in {"OSError", "ValueError"} )

(* The refinement of MailTransfer: the sender of a file is the session     *)
(* that holds its name.                                                    *)
Transfer == INSTANCE MailTransfer WITH
  Client    <- Calm,
  Letters   <- {LetterOf(s) : s \in {x \in Script : IsCalm(x)}},
  BoxesOf   <- LAMBDA l : AllBoxes(l.to),
  FragmentOf <- FragmentOf,
  letter    <- [c \in Calm |-> LetterOf(script[c])],
  delivered <- UNION {
    { [ client |-> c, box |-> f.box, letter |-> Letter(f) ] :
      f \in {g \in store : g.file = session[c].file_path} } : c \in Calm },
  told      <- {c \in Calm : Told(c, "DATA_end_write") > 0},
  broken    <- pc = "ended"

TransferSpec == Transfer!Spec

-----------------------------------------------------------------------------
(* The 354 reply: "Send message content; end with <CRLF>.<CRLF>".          *)
(* Nothing but the line of a single dot ends the message.                  *)
EndsAtLoneDot ==
  \A c \in Conn :
    session[c].state \in {"data_end_write", "quit"} => got[c] >= Len(script[c]) - 1

(* The same reply: what is sent before that line is the message, all of it *)
NothingLost ==
  \A c \in Conn :
    Told(c, "DATA_end_write") > 0 =>
      session[c].body = LetterOf(script[c]).body

(* The reply "250 Ok: queued as <file>": there is such a file.             *)
QueuedFileExists ==
  \A c \in Conn : \A i \in DOMAIN outbox[c] :
    outbox[c][i].trigger = "DATA_end_write" =>
      \E f \in store : f.file = outbox[c][i].file_path

=============================================================================
