---------------------------- MODULE WorkerLoopMC ----------------------------
(***************************************************************************)
(* Instances of WorkerLoop and SmtpDialog for TLC: one client with many    *)
(* things to say, and clients that say what smtplib says.                  *)
(***************************************************************************)
EXTENDS SmtpDialog

CONSTANTS anna, bert, olaf, nobody

MCAddress == {anna, olaf}
MCLocal   == {anna}

-----------------------------------------------------------------------------
(* One client: an envelope, and then up to three pieces of any kind that   *)
(* means something in the DATA_STATE or after it.                          *)
Envelope == <<Plain("HELO"), MailFrom(olaf), RcptTo(olaf)>>

Late == { Plain("DATA"), Plain("TEXT"), Plain("SENTENCE"), Plain("DOT"),
          Plain("RSET"), RcptTo(anna), RcptTo(nobody) }

LateScript == {Envelope \o <<Plain("DATA")>> \o s : s \in BoundedSeq(Late, 3)}

(* The same for the states before it. *)
Early == { Plain("HELO"), MailFrom(anna), MailFrom(nobody), RcptTo(anna),
           Plain("DATA"), Plain("QUIT"), Plain("RSET"), Plain("TORN") }

EarlyScript == {<<Plain("HELO")>> \o s : s \in BoundedSeq(Early, 2)}

(* A second mail in the same session, and body lines that look like what   *)
(* they are not.                                                           *)
LongScript ==
  { Envelope \o <<Plain("DATA"), Plain("DOT"), Plain("RSET"), MailFrom(anna),
                  RcptTo(anna), Plain("DATA"), Plain("TEXT"), Plain("DOT"), Plain("QUIT")>>,
    Envelope \o <<Plain("DATA"), Plain("DOT"), Plain("RSET"), MailFrom(anna),
                  RcptTo(anna), Plain("DOT"), Plain("RSET"), Plain("QUIT")>>,
    Envelope \o <<RcptTo(anna), Plain("RCPTWORD"), Plain("DATA"), Plain("DATAWORD"),
                  Plain("DOTTED"), Plain("TEXT"), Plain("DOT"), Plain("QUIT")>> }

(* Lines cut inside: by TCP, or because one recv() does not hold them.     *)
CutLineScript ==
  { Envelope \o <<Plain("DATATEXT"), Plain("TEXT"), Part(Plain("DOT")), Plain("REST"),
                  Plain("DOT"), Plain("LF"), Plain("QUIT")>>,
    Envelope \o <<Part(RcptTo(anna)), Plain("REST"), Plain("DATA"), Plain("LF"),
                  Plain("SENTENCE"), Plain("SHORT"), Plain("DOT")>>,
    Envelope \o <<Part(Plain("DATA")), Plain("REST"), Stub(RcptTo(anna)), Plain("REST"),
                  Plain("DOT"), Part(Plain("QUIT")), Plain("REST")>> }

OneClientScript == LateScript \cup EarlyScript \cup LongScript \cup CutLineScript

-----------------------------------------------------------------------------
(* Two mails in one session, with RSET between them; their messages differ *)
(* from the first piece on.                                                *)
TwoMailScript ==
  { Envelope \o <<Plain("DATA"), Plain("TEXT"), Plain("DOT"), Plain("RSET"),
                  MailFrom(olaf), RcptTo(anna), Plain("DATA"), Plain("HELO"), Plain("DOT")>> }

(* The report of the server, of the letter: "it contains a single body".   *)
(* The message of one mail is then no part of the next mail.               *)
SingleBody ==
  \A f, g \in store :
    f.file < g.file /\ f.body # <<>> => ~IsPrefix(f.body, g.body)

-----------------------------------------------------------------------------
(* Clients of SmtpDialog, two of them: a box and the maildir, or one box;  *)
(* a message that needs two calls of recv(), with a line that reads like a *)
(* command and an empty one, or a message of no line.                      *)
DialogAddress == {anna, bert, olaf}
DialogLocal   == {anna, bert}

CalmScript ==
  { Dialog(olaf, <<olaf, anna>>, <<Plain("QUIT"), Plain("SHORT")>>),
    Dialog(anna, <<bert>>, << >>) }

ASSUME \A s \in CalmScript : IsCalm(s)

(* Connections that are cut at a wrong place: before "data" or "rcpt to:"  *)
(* in a line or inside a character; in the line of the dot, before its     *)
(* line end or before the line feed; in a command.                         *)
InMessage(piece) == Dialog(olaf, <<bert>>, <<piece>>)

InDot(cut) == LET s == Dialog(olaf, <<bert>>, <<>>) IN SubSeq(s, 1, 4) \o cut \o <<Last(s)>>

CutScript ==
  {InMessage(p) : p \in {Plain("DATA"), RcptTo(anna), Plain("TORN")}}
    \cup { InDot(<<Part(Plain("DOT")), Plain("REST")>>),
           InDot(<<Plain("DOT"), Plain("LF")>>),
           <<Plain("HELO"), Part(MailFrom(olaf)), Plain("REST"), RcptTo(bert)>> }

DialogScript == CalmScript \cup CutScript

(* A line with a dot near its end; a line that ends with a dot; a          *)
(* recipient named twice.                                                  *)
DottedScript    == { Dialog(olaf, <<anna>>, <<Plain("DOTTED"), Plain("TEXT")>>) }
SentenceScript  == { Dialog(olaf, <<anna>>, <<Plain("SENTENCE"), Plain("TEXT")>>) }
DuplicateScript == { Dialog(olaf, <<anna, anna>>, <<Plain("TEXT")>>) }

=============================================================================
