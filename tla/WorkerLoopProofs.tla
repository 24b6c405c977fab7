-------------------------- MODULE WorkerLoopProofs --------------------------
(***************************************************************************)
(* Proofs about WorkerLoop for any clients, any scripts, and any sizes of  *)
(* the backlog and the buffers.                                            *)
(***************************************************************************)
EXTENDS WorkerLoop, SequenceTheorems, FiniteSetTheorems, TLAPS

-----------------------------------------------------------------------------
(* The machine.                                                            *)

(* Every row leads to a state. *)
LEMMA RowsTyped == \A r \in Table : r.dest \in State
BY DEF Table, OneSource, AnySource, Row, State

(* So does every trigger that can be fired. *)
LEMMA DestTyped ==
  ASSUME NEW trigger, NEW state, CanFire(trigger, state)
  PROVE  Dest(trigger, state) \in State
<1>1. (CHOOSE r \in Table : r.trigger = trigger /\ r.source = state) \in Table
  BY DEF CanFire
<1> QED
  BY <1>1, RowsTyped DEF Dest

(* The machine has every row of the table. *)
LEMMA RowFires ==
  ASSUME NEW trigger, NEW source, NEW dest, Row(trigger, source, dest) \in OneSource
  PROVE  CanFire(trigger, source)
BY DEF CanFire, Table, Row

(* The write handler fires only triggers the machine has in that state.    *)
LEMMA WriteFits ==
  ASSUME NEW s \in State, Owes(s)
  PROVE  CanFire(WriteTrigger[s], s)
<1>1. \/ s = "greeting_write"  /\ WriteTrigger[s] = "GREETING_write"
      \/ s = "helo_write"      /\ WriteTrigger[s] = "HELO_write"
      \/ s = "mail_from_write" /\ WriteTrigger[s] = "MAIL_FROM_write"
      \/ s = "rcpt_to_write"   /\ WriteTrigger[s] = "RCPT_TO_write"
      \/ s = "data_write"      /\ WriteTrigger[s] = "DATA_start_write"
      \/ s = "data_end_write"  /\ WriteTrigger[s] = "DATA_end_write"
      \/ s = "quit_write"      /\ WriteTrigger[s] = "QUIT_write"
  BY DEF Owes, WriteTrigger
<1>2. { Row("GREETING_write",   "greeting_write",  "helo"),
        Row("HELO_write",       "helo_write",      "mail_from"),
        Row("MAIL_FROM_write",  "mail_from_write", "rcpt_to"),
        Row("RCPT_TO_write",    "rcpt_to_write",   "data"),
        Row("DATA_start_write", "data_write",      "data"),
        Row("DATA_end_write",   "data_end_write",  "quit"),
        Row("QUIT_write",       "quit_write",      "finish") } \subseteq OneSource
  BY DEF OneSource
<1> QED
  BY <1>1, <1>2, RowFires

(* So does the read handler, whatever line was received.                   *)
LEMMA ReadFits ==
  ASSUME NEW s, NEW line, s.state \in State, ReadTrigger(s, line) # "none"
  PROVE  CanFire(ReadTrigger(s, line), s.state)
<1> DEFINE t == ReadTrigger(s, line)
<1>1. DataTrigger(s, line) \in
        {"none", "ANOTHER_RECEPIENT", "DATA_start", "DATA_additional", "DATA_end"}
  BY DEF DataTrigger
<1>2. \/ t = "HELO" /\ s.state = "helo"
      \/ t = "MAIL_FROM" /\ s.state = "mail_from"
      \/ t = "RCPT_TO" /\ s.state = "rcpt_to"
      \/ t = DataTrigger(s, line) /\ s.state = "data"
      \/ t \in {"QUIT", "RSET"}
  BY DEF ReadTrigger
<1>3. { Row("HELO",              "helo",      "helo_write"),
        Row("MAIL_FROM",         "mail_from", "mail_from_write"),
        Row("RCPT_TO",           "rcpt_to",   "rcpt_to_write"),
        Row("ANOTHER_RECEPIENT", "data",      "rcpt_to_write"),
        Row("DATA_start",        "data",      "data_write"),
        Row("DATA_additional",   "data",      "data"),
        Row("DATA_end",          "data",      "data_end_write") } \subseteq OneSource
  BY DEF OneSource
<1>4. CASE t \in {"QUIT", "RSET"}
  <2>1. Row(t, s.state, IF t = "QUIT" THEN "quit_write" ELSE "helo_write") \in Table
    BY <1>4 DEF Table, AnySource
  <2> QED
    BY <2>1 DEF CanFire, Row
<1>5. CASE t \notin {"QUIT", "RSET"}
  <2>1. t # "none"
    OBVIOUS
  <2>2. CanFire(t, s.state)
    <3> HIDE DEF t
    <3> QED
      BY <1>1, <1>2, <1>3, <1>5, <2>1, RowFires
  <2> QED
    BY <2>2
<1> QED
  BY <1>4, <1>5

-----------------------------------------------------------------------------
(* What is received.                                                       *)

LEMMA SessionTypes ==
  /\ NullPath \in Path
  /\ \A piece \in Piece : LineOf(piece) \in Piece
  /\ \A piece \in Piece : piece.kind \in {"MAIL", "RCPT"} => piece.addr \in Path
  /\ \A k \in PlainKind : Plain(k) \in Piece
<1>1. \A piece \in Line : piece.kind \notin {"PART", "STUB"}
  BY DEF Line, PlainKind, Plain, MailFrom, RcptTo
<1>2. \A piece \in Line : piece.kind \in {"MAIL", "RCPT"} => piece.addr \in Path
  BY DEF Line, PlainKind, Plain, MailFrom, RcptTo
<1>3. /\ NullPath \in Path
      /\ \A k \in PlainKind : Plain(k) \in Piece
  BY DEF Path, Piece, Line
<1>4. ASSUME NEW piece \in Piece
      PROVE  /\ LineOf(piece) \in Piece
             /\ piece.kind \in {"MAIL", "RCPT"} => piece.addr \in Path
  <2>1. CASE piece \in Line
    BY <1>1, <1>2, <2>1 DEF LineOf, Piece
  <2>2. ASSUME NEW p \in Line, piece = Part(p) \/ piece = Stub(p)
        PROVE  LineOf(piece) \in Piece /\ piece.kind \notin {"MAIL", "RCPT"}
    BY <2>2 DEF LineOf, Piece, Part, Stub
  <2> QED
    BY <2>1, <2>2 DEF Piece
<1> QED
  BY <1>3, <1>4

(* When something has arrived, recv() returns a part of it, not nothing.   *)
LEMMA ReceivedTyped ==
  ASSUME TypeOK, NEW c \in Conn, got[c] < sent[c]
  PROVE  /\ Received(c) \in Seq(Piece)
         /\ Len(Received(c)) \in 1..(sent[c] - got[c])
<1>1. /\ script[c] \in Seq(Piece)
      /\ got[c] \in Nat /\ sent[c] \in Nat
      /\ sent[c] <= Len(script[c])
  BY WorkerAssumption DEF TypeOK
<1>2. /\ Arrived(c) \in Seq(Piece)
      /\ Len(Arrived(c)) = sent[c] - got[c]
  <2>1. \A i \in got[c] + 1 .. sent[c] : script[c][i] \in Piece
    BY <1>1, ElementOfSeq
  <2> QED
    BY <1>1, <2>1, SubSeqProperties DEF Arrived
<1> DEFINE n == IF Len(Arrived(c)) < BufferSize THEN Len(Arrived(c)) ELSE BufferSize
<1>3. n \in 1..(sent[c] - got[c])
  BY <1>1, <1>2, WorkerAssumption
<1>4. \A i \in 1..n : Arrived(c)[i] \in Piece
  BY <1>2, <1>3, ElementOfSeq
<1>5. Received(c) = SubSeq(Arrived(c), 1, n)
  BY DEF Received
<1> HIDE DEF n
<1> QED
  BY <1>1, <1>3, <1>4, <1>5, SubSeqProperties

(* The first line of a text is made of its first piece. *)
LEMMA FirstLineTyped ==
  ASSUME NEW line \in Seq(Piece), line # <<>>
  PROVE  FirstLine(line) \in Piece
<1>1. Head(line) \in Piece
  BY HeadTailProperties
<1> QED
  BY <1>1, SessionTypes DEF FirstLine

(* The group of an address pattern is a path. *)
LEMMA GroupTyped ==
  ASSUME NEW line \in Seq(Piece), line # <<>>, NEW kind \in {"MAIL", "RCPT"}
  PROVE  Path_group(line, kind) \in Path
BY FirstLineTyped, SessionTypes DEF Path_group

(* What the patterns of the message keep of a line is made of pieces. *)
LEMMA EndGroupTyped ==
  ASSUME NEW line \in Seq(Piece), line # <<>>
  PROVE  /\ DATA_end_group(line) \in Seq(Piece)
         /\ DATA_start_group(line) \in Seq(Piece)
<1> DEFINE n == Len(line)
           m == IF n > 1 /\ Continued(line, n - 1) THEN n - 2 ELSE n - 1
<1>1. n \in Nat \ {0}
  BY EmptySeq
<1>2. m \in 0..n
  BY <1>1
<1>3. \A i \in 1..m : line[i] \in Piece
  BY <1>1, <1>2, ElementOfSeq
<1>4. BeforeLast(line) = SubSeq(line, 1, m)
  BY DEF BeforeLast
<1>5. BeforeLast(line) \in Seq(Piece)
  <2> HIDE DEF m
  <2> QED
    BY <1>1, <1>2, <1>3, <1>4, SubSeqProperties
<1>6. Plain("CLIPPED") \in Piece
  BY SessionTypes DEF PlainKind
<1>7. DATA_end_group(line) \in Seq(Piece)
  BY <1>5, <1>6, AppendProperties DEF DATA_end_group
<1>8. <<Plain("CLIPPED")>> \in Seq(Piece) /\ <<>> \in Seq(Piece)
  BY <1>6
<1> QED
  BY <1>7, <1>8 DEF DATA_start_group

(* However to_file ends, it has written mail boxes, and the exceptions it  *)
(* raises are none that the loop has a name for.                           *)
LEMMA ToFileTyped ==
  ASSUME NEW to, NEW out \in to_file(to)
  PROVE  /\ out.boxes \subseteq Local \cup {Maildir}
         /\ out.torn \subseteq Local \cup {Maildir}
         /\ out.exc \in {"none", "AttributeError", "OSError"}
<1>1. \A n : Boxes(to, n) \subseteq Local \cup {Maildir}
  BY DEF Boxes, Box
<1>2. \A k : Box(to[k]) \in Local \cup {Maildir}
  BY DEF Box
<1> QED
  BY <1>1, <1>2 DEF to_file, End

-----------------------------------------------------------------------------
(* Types.                                                                  *)

Place == {"select", "accept", "reads", "writes", "ended"}

(* A trigger of one session leaves every session in its type. *)
LEMMA FireTyped ==
  ASSUME TypeOK, NEW c \in Conn, NEW trigger, NEW s \in SessionType,
         NEW e \in Exception, Fire(c, trigger, s, e)
  PROVE  /\ session' \in [Conn -> SessionType]
         /\ pc' \in Place
         /\ exc' \in Exception
<1> DEFINE t == IF CanFire(trigger, s.state)
                THEN [s EXCEPT !.state = Dest(trigger, s.state)] ELSE s
           r == IF CanFire(trigger, s.state) THEN e ELSE "MachineError"
<1>1. t \in SessionType
  BY DestTyped DEF SessionType
<1>2. r \in Exception
  BY DEF Exception
<1>3. /\ session' = [session EXCEPT ![c] = t]
      /\ IF r = "none" THEN UNCHANGED <<pc, exc>> ELSE Raise(r)
  BY DEF Fire
<1> HIDE DEF t, r
<1> QED
  BY <1>1, <1>2, <1>3 DEF Raise, TypeOK, Place

(* What the actions of the clients and of the kernel leave as it is.       *)
LEMMA OutsideTyped == TypeOK /\ Outside => TypeOK'
<1> SUFFICES ASSUME TypeOK, Outside
             PROVE  TypeOK'
  OBVIOUS
<1> USE DEF TypeOK, local
<1>1. ASSUME NEW c \in Conn, Connect(c)
      PROVE  TypeOK'
  <2>1. backlog' \in Seq(Conn)
    BY <1>1, AppendProperties DEF Connect
  <2> QED
    BY <1>1, <2>1 DEF Connect, Link
<1>2. CASE TakenElsewhere
  <2>1. backlog' \in Seq(Conn) /\ Head(backlog) \in Conn
    BY <1>2, HeadTailProperties DEF TakenElsewhere
  <2> QED
    BY <1>2, <2>1 DEF TakenElsewhere, Link
<1>3. ASSUME NEW c \in Conn, ClientSend(c)
      PROVE  TypeOK'
  <2>1. \A d \in Conn : Len(script[d]) \in Nat
    BY WorkerAssumption, LenProperties
  <2> QED
    BY <1>3, <2>1 DEF ClientSend
<1>4. ASSUME NEW c \in Conn, ClientRecv(c)
      PROVE  TypeOK'
  <2>1. Len(outbox[c]) \in Nat
    BY LenProperties
  <2> QED
    BY <1>4, <2>1 DEF ClientRecv
<1>5. ASSUME NEW c \in Conn, ClientClose(c)
      PROVE  TypeOK'
  BY <1>5 DEF ClientClose, Link
<1> QED
  BY <1>1, <1>2, <1>3, <1>4, <1>5 DEF Outside

(* The steps of the loop itself. *)
LEMMA LoopTyped ==
  ASSUME TypeOK,
         Select \/ Accept \/ AcceptTimeout \/ ReadsDone \/ WritesDone \/ Interrupt
  PROVE  TypeOK'
<1> USE DEF TypeOK, net
<1>1. CASE Select
  BY <1>1 DEF Select
<1>2. CASE Accept
  <2>1. backlog' \in Seq(Conn) /\ Head(backlog) \in Conn
    BY <1>2, HeadTailProperties DEF Accept
  <2>2. NewSession \in SessionType
    <3>1. <<>> \in Seq(Path) /\ <<>> \in Seq(Piece)
      BY EmptySeq
    <3> QED
      BY <3>1, SessionTypes DEF NewSession, SessionType, State
  <2>3. session' \in [Conn -> SessionType]
    BY <1>2, <2>1, <2>2 DEF Accept
  <2> QED
    BY <1>2, <2>1, <2>3 DEF Accept
<1>3. CASE AcceptTimeout \/ Interrupt
  BY <1>3 DEF AcceptTimeout, Interrupt, Raise, Exception
<1>4. CASE ReadsDone \/ WritesDone
  BY <1>4 DEF ReadsDone, WritesDone
<1> QED
  BY <1>1, <1>2, <1>3, <1>4

(* What every reading handler does with a line. *)
LEMMA LineTyped ==
  ASSUME TypeOK, NEW c \in Conn, NEW trigger, ReadingLine(c, trigger)
  PROVE  /\ Received(c) \in Seq(Piece)
         /\ Received(c) # <<>>
         /\ got' \in [Conn -> Nat]
         /\ got'[c] \in got[c] + 1 .. sent[c]
         /\ \A d \in Conn : got'[d] <= sent[d]
<1>1. got[c] < sent[c] /\ got' = [got EXCEPT ![c] = @ + Len(Received(c))]
  BY DEF ReadingLine
<1>2. /\ Received(c) \in Seq(Piece)
      /\ Len(Received(c)) \in 1..(sent[c] - got[c])
  BY <1>1, ReceivedTyped
<1>3. Received(c) # <<>>
  BY <1>2
<1> QED
  BY <1>1, <1>2, <1>3 DEF TypeOK

(* A line that fires a trigger in a session of the right type and leaves   *)
(* the mail files alone.                                                   *)
LEMMA LineFiredTyped ==
  ASSUME TypeOK, NEW c \in Conn, NEW trigger, NEW s \in SessionType,
         ReadingLine(c, trigger), Fire(c, trigger, s, "none"),
         UNCHANGED <<store, files>>
  PROVE  TypeOK'
<1>1. /\ session' \in [Conn -> SessionType]
      /\ pc' \in Place /\ exc' \in Exception
  BY FireTyped DEF Exception
<1>2. /\ got' \in [Conn -> Nat]
      /\ \A d \in Conn : got'[d] <= sent[d]
  BY LineTyped
<1> QED
  BY <1>1, <1>2 DEF TypeOK, ReadingLine, Reading, Place

(* The handlers that change the session of a line.                         *)
LEMMA ReadLineTyped ==
  ASSUME TypeOK, NEW c \in Conn,
         \/ \E t \in {"HELO", "QUIT", "RSET"} : ReadCommand(c, t)
         \/ ReadMailFrom(c)
         \/ \E t \in {"RCPT_TO", "ANOTHER_RECEPIENT"} : ReadRecipient(c, t)
         \/ ReadDataStart(c)
         \/ ReadDataAdditional(c)
  PROVE  TypeOK'
<1> DEFINE line == Received(c)
<1>0. session[c] \in SessionType
  BY DEF TypeOK
<1>1. ASSUME NEW t \in {"HELO", "QUIT", "RSET"}, ReadCommand(c, t)
      PROVE  TypeOK'
  BY <1>0, <1>1, LineFiredTyped DEF ReadCommand
<1>2. CASE ReadMailFrom(c)
  <2>1. ReadingLine(c, "MAIL_FROM")
    BY <1>2 DEF ReadMailFrom
  <2>2. Path_group(line, "MAIL") \in Path
    BY <2>1, LineTyped, GroupTyped
  <2>3. [session[c] EXCEPT !.from_ = Path_group(line, "MAIL")] \in SessionType
    BY <1>0, <2>2 DEF SessionType
  <2> QED
    BY <1>2, <2>1, <2>3, LineFiredTyped DEF ReadMailFrom
<1>3. ASSUME NEW t \in {"RCPT_TO", "ANOTHER_RECEPIENT"}, ReadRecipient(c, t)
      PROVE  TypeOK'
  <2>1. ReadingLine(c, t)
    BY <1>3 DEF ReadRecipient
  <2>2. Path_group(line, "RCPT") \in Path
    BY <2>1, LineTyped, GroupTyped
  <2>3. Append(session[c].to, Path_group(line, "RCPT")) \in Seq(Path)
    BY <1>0, <2>2, AppendProperties DEF SessionType
  <2>4. [session[c] EXCEPT !.to = Append(@, Path_group(line, "RCPT"))] \in SessionType
    BY <1>0, <2>3 DEF SessionType
  <2> QED
    BY <1>3, <2>1, <2>4, LineFiredTyped DEF ReadRecipient
<1>4. CASE ReadDataStart(c)
  <2>1. ReadingLine(c, "DATA_start")
    BY <1>4 DEF ReadDataStart
  <2>2. session[c].body \o DATA_start_group(line) \in Seq(Piece)
    BY <1>0, <2>1, LineTyped, EndGroupTyped, ConcatProperties DEF SessionType
  <2>3. [session[c] EXCEPT !.body = @ \o DATA_start_group(line),
                           !.data_start_already_matched = TRUE] \in SessionType
    BY <1>0, <2>2 DEF SessionType
  <2> QED
    BY <1>4, <2>1, <2>3, LineFiredTyped DEF ReadDataStart
<1>5. CASE ReadDataAdditional(c)
  <2>1. ReadingLine(c, "DATA_additional")
    BY <1>5 DEF ReadDataAdditional
  <2>2. session[c].body \o line \in Seq(Piece)
    BY <1>0, <2>1, LineTyped, ConcatProperties DEF SessionType
  <2>3. [session[c] EXCEPT !.body = @ \o line] \in SessionType
    BY <1>0, <2>2 DEF SessionType
  <2> QED
    BY <1>5, <2>1, <2>3, LineFiredTyped DEF ReadDataAdditional
<1> QED
  BY <1>1, <1>2, <1>3, <1>4, <1>5

(* The files of a session are mail files. *)
LEMMA FileTyped ==
  ASSUME NEW s \in SessionType, NEW b \in Local \cup {Maildir}
  PROVE  FileOf(s, b) \in FileType /\ TornFile(s, b) \in FileType
<1>1. FileOf(s, b) \in FileType
  BY DEF FileOf, FileType, SessionType
<1>2. <<Plain("CLIPPED")>> \in Seq(Piece)
  BY SessionTypes DEF PlainKind
<1>3. TornFile(s, b) =
        [ box |-> b, file |-> s.file_path, from_ |-> s.from_, to |-> s.to,
          body |-> <<Plain("CLIPPED")>> ]
  BY DEF TornFile, FileOf
<1>4. TornFile(s, b) \in FileType
  BY <1>2, <1>3 DEF FileType, SessionType
<1> QED
  BY <1>1, <1>4

(* The end of a message: the mail files are written. *)
LEMMA DataEndTyped ==
  ASSUME TypeOK, NEW c \in Conn, ReadDataEnd(c)
  PROVE  TypeOK'
<1> DEFINE line == Received(c)
           file == files + 1
           mail == [session[c] EXCEPT !.body = @ \o DATA_end_group(line),
                                      !.file_path = file]
<1>0. session[c] \in SessionType /\ file \in Nat
  BY DEF TypeOK
<1>1. ReadingLine(c, "DATA_end")
  BY DEF ReadDataEnd
<1>2. DATA_end_group(line) \in Seq(Piece)
  BY <1>1, LineTyped, EndGroupTyped
<1>3. session[c].body \o DATA_end_group(line) \in Seq(Piece)
  BY <1>0, <1>2, ConcatProperties DEF SessionType
<1>4. mail \in SessionType
  BY <1>0, <1>3 DEF SessionType
<1>5. PICK out \in to_file(mail.to) :
        /\ Fire(c, "DATA_end",
                [mail EXCEPT !.data_start_already_matched = out.exc # "none"], out.exc)
        /\ store' = store \cup {FileOf(mail, b) : b \in out.boxes}
                          \cup {TornFile(mail, b) : b \in out.torn}
  BY DEF ReadDataEnd
<1>6. /\ out.boxes \subseteq Local \cup {Maildir}
      /\ out.torn \subseteq Local \cup {Maildir}
      /\ out.exc \in Exception
  BY ToFileTyped DEF Exception
<1>7. [mail EXCEPT !.data_start_already_matched = out.exc # "none"] \in SessionType
  BY <1>4 DEF SessionType
<1>8. /\ session' \in [Conn -> SessionType]
      /\ pc' \in Place /\ exc' \in Exception
  BY <1>5, <1>6, <1>7, FireTyped
<1>9. files' = file /\ store' \subseteq FileType
  <2> HIDE DEF mail
  <2>1. \A b \in Local \cup {Maildir} :
          FileOf(mail, b) \in FileType /\ TornFile(mail, b) \in FileType
    BY <1>4, FileTyped
  <2> QED
    BY <1>5, <1>6, <2>1 DEF TypeOK, ReadDataEnd
<1>10. got' \in [Conn -> Nat] /\ \A d \in Conn : got'[d] <= sent[d]
  BY <1>1, LineTyped
<1> QED
  BY <1>0, <1>1, <1>8, <1>9, <1>10 DEF TypeOK, ReadingLine, Reading, Place

(* Whatever handle_client_read does, it leaves the types as they are.      *)
LEMMA ReadTyped ==
  ASSUME TypeOK, NEW c \in Conn, handle_client_read(c)
  PROVE  TypeOK'
<1>1. CASE ReadDropped(c)
  <2>1. got' \in [Conn -> Nat] /\ \A d \in Conn : got'[d] <= sent[d]
    BY <1>1, LineTyped DEF ReadDropped
  <2> QED
    BY <1>1, <2>1 DEF TypeOK, ReadDropped, ReadingLine, Reading
<1>2. CASE ReadEof(c)
  BY <1>2 DEF TypeOK, ReadEof, Reading
<1>3. CASE ReadFails(c)
  <2>1. got' \in [Conn -> Nat] /\ \A d \in Conn : got'[d] <= sent[d]
    <3>1. CASE UNCHANGED got
      BY <3>1 DEF TypeOK
    <3>2. CASE got[c] < sent[c] /\ got' = [got EXCEPT ![c] = @ + Len(Received(c))]
      <4>1. Len(Received(c)) \in 1..(sent[c] - got[c])
        BY <3>2, ReceivedTyped
      <4> QED
        BY <3>2, <4>1 DEF TypeOK
    <3> QED
      BY <1>3, <3>1, <3>2 DEF ReadFails
  <2> QED
    BY <1>3, <2>1 DEF TypeOK, ReadFails, Reading, Raise, Exception
<1> QED
  BY <1>1, <1>2, <1>3, ReadLineTyped, DataEndTyped DEF handle_client_read

(* So does handle_client_write. *)
LEMMA WriteTyped ==
  ASSUME TypeOK, NEW c \in Conn, handle_client_write(c)
  PROVE  TypeOK'
<1>1. CASE WriteNothing(c)
  BY <1>1 DEF TypeOK, WriteNothing, Writing
<1>2. CASE WriteFails(c)
  BY <1>2 DEF TypeOK, WriteFails, Writing, Raise, Exception
<1>3. CASE WriteReply(c)
  <2> DEFINE s == session[c]
             reply == [trigger |-> WriteTrigger[s.state], file_path |-> s.file_path]
  <2>1. s \in SessionType
    BY DEF TypeOK
  <2>2. reply \in ReplyType
    BY <2>1 DEF SessionType, ReplyType
  <2>3. /\ session' \in [Conn -> SessionType]
        /\ pc' \in Place /\ exc' \in Exception
    BY <1>3, <2>1, FireTyped DEF WriteReply, Exception
  <2>4. outbox' = [outbox EXCEPT ![c] = Append(@, reply)]
    BY <1>3 DEF WriteReply
  <2>5. outbox' \in [Conn -> Seq(ReplyType)]
    <3> HIDE DEF reply
    <3> QED
      BY <2>2, <2>4, AppendProperties DEF TypeOK
  <2>6. /\ link' \in [Conn -> Link]
        /\ clients' \subseteq Conn
    BY <1>3 DEF WriteReply, TypeOK, Link
  <2> QED
    BY <1>3, <2>3, <2>5, <2>6 DEF TypeOK, WriteReply, Writing, Place
<1> QED
  BY <1>1, <1>2, <1>3 DEF handle_client_write

LEMMA HandleTyped == TypeOK /\ Handle => TypeOK'
<1> SUFFICES ASSUME TypeOK, Handle
             PROVE  TypeOK'
  OBVIOUS
<1>1. PICK c \in Conn : \/ Lookup(c, handle_client_read(c))
                        \/ Lookup(c, handle_client_write(c))
  BY DEF Handle, TypeOK
<1>2. CASE c \in clients
  BY <1>1, <1>2, ReadTyped, WriteTyped DEF Lookup
<1>3. CASE c \notin clients
  BY <1>1, <1>3 DEF Lookup, TypeOK, Raise, Exception, net
<1> QED
  BY <1>2, <1>3

LEMMA TypeInit == Init => TypeOK
<1> SUFFICES ASSUME Init
             PROVE  TypeOK
  OBVIOUS
<1>1. <<>> \in Seq(Path) /\ <<>> \in Seq(Piece) /\ <<>> \in Seq(Conn) /\ <<>> \in Seq(ReplyType)
  BY EmptySeq
<1>2. NewSession \in SessionType
  BY <1>1, SessionTypes DEF NewSession, SessionType, State
<1>3. \A c \in Conn : Len(script[c]) \in Nat
  BY WorkerAssumption, LenProperties DEF Init
<1> QED
  BY <1>1, <1>2, <1>3 DEF Init, TypeOK, Exception, Link

LEMMA TypeStep == TypeOK /\ [Next]_vars => TypeOK'
<1> SUFFICES ASSUME TypeOK, [Next]_vars
             PROVE  TypeOK'
  OBVIOUS
<1>1. CASE UNCHANGED vars
  BY <1>1 DEF TypeOK, vars, local, net
<1> QED
  BY <1>1, OutsideTyped, LoopTyped, HandleTyped DEF Next, run

(* The variables keep their types, whatever any number of clients sends.   *)
THEOREM WorkerTyped == Spec => []TypeOK
BY TypeInit, TypeStep, PTL DEF Spec

-----------------------------------------------------------------------------
(* The lists of select().                                                  *)

(* DispatchSound needs to know why no lookup misses: whoever is on a list  *)
(* is a client.  The write handler removes a client, but only one that it  *)
(* has taken from its list, when the other list is used up.                *)
ListInv ==
  /\ TypeOK
  /\ rfds \subseteq clients /\ wfds \subseteq clients
  /\ pc = "writes" => rfds = {}
  /\ DispatchSound

LEMMA ListInit == Init => ListInv
BY TypeInit DEF Init, ListInv, DispatchSound

(* A trigger that the machine has in this state raises no MachineError.    *)
LEMMA FireSound ==
  ASSUME DispatchSound, NEW c, NEW trigger, NEW s, NEW e,
         Fire(c, trigger, s, e), CanFire(trigger, s.state),
         e \notin {"KeyError", "MachineError"}
  PROVE  DispatchSound' /\ pc' \in {pc, "ended"}
BY DEF Fire, Raise, DispatchSound

(* The read handler fires what ReadTrigger says, in the state it looked at. *)
LEMMA ReadSound ==
  ASSUME ListInv, NEW c \in Conn, handle_client_read(c)
  PROVE  DispatchSound' /\ pc' \in {"reads", "ended"}
<1> DEFINE line == Received(c)
<1>0. session[c] \in SessionType /\ DispatchSound
  BY DEF ListInv, TypeOK
<1>1. ASSUME NEW t, t # "none", ReadingLine(c, t), NEW s, s.state = session[c].state,
             NEW e, e \notin {"KeyError", "MachineError"}, Fire(c, t, s, e)
      PROVE  DispatchSound' /\ pc' \in {"reads", "ended"}
  <2>1. pc = "reads" /\ ReadTrigger(session[c], line) = t
    BY <1>1 DEF ReadingLine, Reading
  <2>2. CanFire(t, s.state)
    BY <1>0, <1>1, <2>1, ReadFits DEF SessionType
  <2> QED
    BY <1>0, <1>1, <2>1, <2>2, FireSound
<1>2. ASSUME NEW t \in {"HELO", "QUIT", "RSET"}, ReadCommand(c, t)
      PROVE  DispatchSound' /\ pc' \in {"reads", "ended"}
  BY <1>1, <1>2 DEF ReadCommand
<1>3. CASE ReadMailFrom(c)
  <2> DEFINE s == [session[c] EXCEPT !.from_ = Path_group(line, "MAIL")]
  <2>1. s.state = session[c].state
    BY <1>0 DEF SessionType
  <2>2. ReadingLine(c, "MAIL_FROM") /\ Fire(c, "MAIL_FROM", s, "none")
    BY <1>3 DEF ReadMailFrom
  <2> HIDE DEF s
  <2> QED
    BY <1>1, <2>1, <2>2
<1>4. ASSUME NEW t \in {"RCPT_TO", "ANOTHER_RECEPIENT"}, ReadRecipient(c, t)
      PROVE  DispatchSound' /\ pc' \in {"reads", "ended"}
  <2> DEFINE s == [session[c] EXCEPT !.to = Append(@, Path_group(line, "RCPT"))]
  <2>1. s.state = session[c].state
    BY <1>0 DEF SessionType
  <2>2. t # "none" /\ ReadingLine(c, t) /\ Fire(c, t, s, "none")
    BY <1>4 DEF ReadRecipient
  <2> HIDE DEF s
  <2> QED
    BY <1>1, <2>1, <2>2
<1>5. CASE ReadDataStart(c)
  <2> DEFINE s == [session[c] EXCEPT !.body = @ \o DATA_start_group(line),
                                     !.data_start_already_matched = TRUE]
  <2>1. s.state = session[c].state
    BY <1>0 DEF SessionType
  <2>2. ReadingLine(c, "DATA_start") /\ Fire(c, "DATA_start", s, "none")
    BY <1>5 DEF ReadDataStart
  <2> HIDE DEF s
  <2> QED
    BY <1>1, <2>1, <2>2
<1>6. CASE ReadDataAdditional(c)
  BY SMTT(40), <1>0, <1>1, <1>6 DEF ReadDataAdditional, SessionType
<1>7. CASE ReadDataEnd(c)
  <2> DEFINE mail == [session[c] EXCEPT !.body = @ \o DATA_end_group(line),
                                        !.file_path = files + 1]
  <2>1. PICK out \in to_file(mail.to) :
          Fire(c, "DATA_end",
               [mail EXCEPT !.data_start_already_matched = out.exc # "none"], out.exc)
    BY <1>7 DEF ReadDataEnd
  <2>2. out.exc \notin {"KeyError", "MachineError"}
    BY ToFileTyped
  <2>3. [mail EXCEPT !.data_start_already_matched = out.exc # "none"].state
          = session[c].state
    BY <1>0 DEF SessionType
  <2>4. ReadingLine(c, "DATA_end")
    BY <1>7 DEF ReadDataEnd
  <2> QED
    BY <1>1, <2>1, <2>2, <2>3, <2>4
<1>8. CASE ReadDropped(c) \/ ReadEof(c) \/ ReadFails(c)
  BY <1>0, <1>8 DEF ReadDropped, ReadEof, ReadFails, ReadingLine, Reading, Raise, DispatchSound
<1> QED
  BY <1>2, <1>3, <1>4, <1>5, <1>6, <1>7, <1>8 DEF handle_client_read

(* What the read handler does to the lists. *)
LEMMA ReadLists ==
  ASSUME NEW c, handle_client_read(c)
  PROVE  rfds' = rfds \ {c} /\ UNCHANGED <<clients, wfds>>
BY DEF handle_client_read, ReadCommand, ReadMailFrom, ReadRecipient, ReadDataStart,
       ReadDataAdditional, ReadDataEnd, ReadDropped, ReadEof, ReadFails, ReadingLine, Reading

(* The write handler fires what WriteTrigger says. *)
LEMMA WriteSound ==
  ASSUME ListInv, NEW c \in Conn, handle_client_write(c)
  PROVE  DispatchSound' /\ pc' \in {"writes", "ended"}
<1>0. session[c].state \in State /\ DispatchSound
  BY DEF ListInv, TypeOK, SessionType
<1>1. CASE WriteNothing(c) \/ WriteFails(c)
  BY <1>0, <1>1 DEF WriteNothing, WriteFails, Writing, Raise, DispatchSound
<1>2. CASE WriteReply(c)
  <2>1. CanFire(WriteTrigger[session[c].state], session[c].state)
    BY <1>0, <1>2, WriteFits DEF WriteReply
  <2> QED
    BY <1>0, <1>2, <2>1, FireSound DEF WriteReply, Writing
<1> QED
  BY <1>1, <1>2 DEF handle_client_write

LEMMA WriteLists ==
  ASSUME NEW c, handle_client_write(c)
  PROVE  /\ pc = "writes" /\ wfds' = wfds \ {c} /\ UNCHANGED rfds
         /\ clients \ {c} \subseteq clients'
BY DEF handle_client_write, WriteNothing, WriteFails, WriteReply, Writing

LEMMA ListStep == ListInv /\ [Next]_vars => ListInv'
<1> SUFFICES ASSUME ListInv, [Next]_vars
             PROVE  ListInv'
  OBVIOUS
<1>0. TypeOK /\ TypeOK'
  BY TypeStep DEF ListInv
<1> USE DEF ListInv
<1>1. CASE Outside
  BY <1>0, <1>1 DEF Outside, Connect, TakenElsewhere, ClientSend, ClientRecv, ClientClose,
                    local, DispatchSound
<1>2. CASE Select \/ Accept \/ AcceptTimeout \/ Interrupt
  BY <1>0, <1>2 DEF Select, Accept, AcceptTimeout, Interrupt, Raise, DispatchSound
<1>3. CASE ReadsDone \/ WritesDone
  BY <1>0, <1>3 DEF ReadsDone, WritesDone, DispatchSound
<1>4. ASSUME pc = "reads", NEW c \in rfds, Lookup(c, handle_client_read(c))
      PROVE  ListInv'
  <2>1. c \in Conn /\ handle_client_read(c)
    BY <1>0, <1>4 DEF TypeOK, Lookup
  <2> QED
    BY <1>0, <2>1, ReadSound, ReadLists
<1>5. ASSUME pc = "writes", NEW c \in wfds, Lookup(c, handle_client_write(c))
      PROVE  ListInv'
  <2>1. c \in Conn /\ handle_client_write(c)
    BY <1>0, <1>5 DEF TypeOK, Lookup
  <2> QED
    BY <1>0, <2>1, WriteSound, WriteLists
<1>6. CASE UNCHANGED vars
  BY <1>0, <1>6 DEF vars, local, DispatchSound
<1> QED
  BY <1>1, <1>2, <1>3, <1>4, <1>5, <1>6 DEF Next, run, Handle

(* No lookup of a connection misses, and no trigger is fired in a state    *)
(* where the machine has none, whatever any number of clients sends and    *)
(* whenever they close.                                                    *)
THEOREM DispatchNeverFails == Spec => []DispatchSound
<1>1. ListInv => DispatchSound
  BY DEF ListInv
<1> QED
  BY <1>1, ListInit, ListStep, PTL DEF Spec

-----------------------------------------------------------------------------
(* The replies.                                                            *)

(* A connection that this process has not accepted. *)
Fresh(c) == c \notin clients /\ outbox[c] = <<>>

(* SpokenTo is not inductive: accept() makes a session that owes a         *)
(* greeting, so what it accepts must not have been spoken to.  That needs  *)
(* the backlog to hold each connection once, and none that is a client.    *)
SpokenInv ==
  /\ ListInv
  /\ \A c \in Conn : link[c] = "none" => Fresh(c)
  /\ \A i \in 1..Len(backlog) : Fresh(backlog[i]) /\ link[backlog[i]] # "none"
  /\ \A i, j \in 1..Len(backlog) : i # j => backlog[i] # backlog[j]
  /\ SpokenTo

(* The replies a session owes. *)
Due(c) == IF Owes(session[c].state) THEN 1 ELSE 0

LEMMA SpokenDue ==
  /\ SpokenTo <=> \A c \in Conn : Len(outbox[c]) + Due(c) <= 1 + got[c]
  /\ \A c : Due(c) \in {0, 1}
BY DEF SpokenTo, Due

LEMMA SpokenDueNext ==
  /\ SpokenTo' <=> \A c \in Conn : Len(outbox'[c]) + Due(c)' <= 1 + got'[c]
  /\ \A c : Due(c)' \in {0, 1}
BY DEF SpokenTo, Due

LEMMA SpokenInit == Init => SpokenInv
<1> SUFFICES ASSUME Init
             PROVE  SpokenInv
  OBVIOUS
<1>1. ListInv
  BY ListInit
<1>2. Len(backlog) = 0 /\ \A c \in Conn : Len(outbox[c]) = 0
  BY DEF Init
<1> QED
  BY <1>1, <1>2 DEF Init, SpokenInv, Fresh, SpokenTo

(* After a reply the machine is in a state that owes none. *)
LEMMA ReplyPays ==
  ASSUME NEW s \in State, Owes(s)
  PROVE  ~Owes(Dest(WriteTrigger[s], s))
<1> DEFINE replies == { "GREETING_write", "HELO_write", "MAIL_FROM_write", "RCPT_TO_write",
                        "DATA_start_write", "DATA_end_write", "QUIT_write" }
           reads == {"helo", "mail_from", "rcpt_to", "data", "quit", "finish"}
<1>1. \A r \in Table : r.trigger \in replies => r.dest \in reads
  BY DEF Table, OneSource, AnySource, Row
<1>2. WriteTrigger[s] \in replies
  BY DEF Owes, WriteTrigger
<1>3. CanFire(WriteTrigger[s], s)
  BY WriteFits
<1> DEFINE row == CHOOSE r \in Table : r.trigger = WriteTrigger[s] /\ r.source = s
<1>4. row \in Table /\ row.trigger = WriteTrigger[s]
  BY <1>3 DEF CanFire
<1>5. Dest(WriteTrigger[s], s) \in reads
  BY <1>1, <1>2, <1>4 DEF Dest
<1>6. \A t \in reads : t \in State /\ WriteTrigger[t] = "none"
  BY DEF State, WriteTrigger
<1> QED
  BY <1>5, <1>6 DEF Owes

(* The session of a client changes in the read handler only when           *)
(* something was received.                                                 *)
LEMMA ReadPays ==
  ASSUME TypeOK, NEW c \in Conn, handle_client_read(c)
  PROVE  /\ UNCHANGED <<backlog, link, outbox>>
         /\ \A d \in Conn \ {c} : session'[d] = session[d] /\ got'[d] = got[d]
         /\ got'[c] \in Nat
         /\ \/ session'[c] = session[c] /\ got[c] <= got'[c]
            \/ got[c] < got'[c]
<1>1. UNCHANGED <<backlog, link, outbox>>
  BY DEF handle_client_read, ReadCommand, ReadMailFrom, ReadRecipient, ReadDataStart,
         ReadDataAdditional, ReadDataEnd, ReadDropped, ReadEof, ReadFails, ReadingLine, Reading
<1>2. ASSUME NEW t, ReadingLine(c, t), NEW s, NEW e, Fire(c, t, s, e)
      PROVE  /\ \A d \in Conn \ {c} : session'[d] = session[d] /\ got'[d] = got[d]
             /\ got'[c] \in Nat /\ got[c] < got'[c]
  <2>1. got'[c] \in got[c] + 1 .. sent[c]
    BY <1>2, LineTyped
  <2> QED
    BY <1>2, <2>1 DEF TypeOK, Fire, ReadingLine
<1>3. CASE ReadDropped(c)
  <2>1. got'[c] \in got[c] + 1 .. sent[c]
    BY <1>3, LineTyped DEF ReadDropped
  <2> QED
    BY <1>1, <1>3, <2>1 DEF TypeOK, ReadDropped, ReadingLine
<1>4. CASE ReadEof(c)
  BY <1>1, <1>4 DEF TypeOK, ReadEof
<1>5. CASE ReadFails(c)
  <2>1. CASE UNCHANGED got
    BY <1>1, <1>5, <2>1 DEF TypeOK, ReadFails
  <2>2. CASE got[c] < sent[c] /\ got' = [got EXCEPT ![c] = @ + Len(Received(c))]
    <3>1. Len(Received(c)) \in 1..(sent[c] - got[c])
      BY <2>2, ReceivedTyped
    <3> QED
      BY <1>1, <1>5, <2>2, <3>1 DEF TypeOK, ReadFails
  <2> QED
    BY <1>5, <2>1, <2>2 DEF ReadFails
<1>6. CASE \E t \in {"HELO", "QUIT", "RSET"} : ReadCommand(c, t)
  BY <1>1, <1>2, <1>6 DEF ReadCommand
<1>7. CASE ReadMailFrom(c)
  BY <1>1, <1>2, <1>7 DEF ReadMailFrom
<1>8. CASE \E t \in {"RCPT_TO", "ANOTHER_RECEPIENT"} : ReadRecipient(c, t)
  BY <1>1, <1>2, <1>8 DEF ReadRecipient
<1>9. CASE ReadDataStart(c) \/ ReadDataAdditional(c)
  BY <1>1, <1>2, <1>9 DEF ReadDataStart, ReadDataAdditional
<1>10. CASE ReadDataEnd(c)
  BY <1>1, <1>2, <1>10 DEF ReadDataEnd
<1> QED
  BY <1>3, <1>4, <1>5, <1>6, <1>7, <1>8, <1>9, <1>10 DEF handle_client_read

(* What leaves the backlog, the replies and the sessions as they are       *)
(* disturbs nothing, as long as clients only leave.                        *)
LEMMA SpokenKept ==
  ASSUME SpokenInv, ListInv',
         UNCHANGED <<backlog, session, outbox>>, clients' \subseteq clients,
         \A c \in Conn : got'[c] \in Nat /\ got[c] <= got'[c],
         \A c \in Conn : link'[c] = "none" <=> link[c] = "none"
  PROVE  SpokenInv'
<1>1. \A i \in 1..Len(backlog) : backlog[i] \in Conn
  BY ElementOfSeq DEF SpokenInv, ListInv, TypeOK
<1>2. SpokenTo'
  <2>1. \A c \in Conn : Len(outbox[c]) \in Nat /\ got[c] \in Nat
    BY LenProperties DEF SpokenInv, ListInv, TypeOK
  <2>2. \A c : Due(c)' = Due(c)
    BY DEF Due
  <2> QED
    BY <2>1, <2>2, SpokenDue, SpokenDueNext DEF SpokenInv
<1> QED
  BY <1>1, <1>2 DEF SpokenInv, Fresh

(* A new connection waits at the end of the backlog. *)
LEMMA SpokenConnect ==
  ASSUME SpokenInv, ListInv', NEW c \in Conn, Connect(c)
  PROVE  SpokenInv'
<1>1. /\ backlog \in Seq(Conn)
      /\ backlog' = Append(backlog, c)
      /\ link' = [link EXCEPT ![c] = "open"]
      /\ UNCHANGED <<clients, session, got, outbox>>
  BY DEF Connect, SpokenInv, ListInv, TypeOK, local
<1>2. Fresh(c) /\ \A i \in 1..Len(backlog) : backlog[i] # c
  BY DEF Connect, SpokenInv
<1>3. /\ Len(backlog') = Len(backlog) + 1 /\ Len(backlog) \in Nat
      /\ \A i \in 1..Len(backlog) : backlog'[i] = backlog[i] /\ backlog[i] \in Conn
      /\ backlog'[Len(backlog) + 1] = c
  BY <1>1, AppendProperties, LenProperties, ElementOfSeq
<1>4. \A d \in Conn : link'[d] = IF d = c THEN "open" ELSE link[d]
  BY <1>1 DEF SpokenInv, ListInv, TypeOK
<1>5. \A i \in 1..Len(backlog') :
        \/ i = Len(backlog) + 1 /\ backlog'[i] = c
        \/ i \in 1..Len(backlog) /\ backlog'[i] = backlog[i] /\ backlog[i] # c
  BY <1>2, <1>3
<1>6. \A i \in 1..Len(backlog') : Fresh(backlog[i])' /\ link'[backlog'[i]] # "none"
  BY <1>1, <1>2, <1>3, <1>4, <1>5 DEF SpokenInv, Fresh
<1>7. \A i, j \in 1..Len(backlog') : i # j => backlog'[i] # backlog'[j]
  BY <1>5 DEF SpokenInv
<1>8. \A d \in Conn : link'[d] = "none" => Fresh(d)'
  BY <1>1, <1>4 DEF SpokenInv, Fresh
<1>9. SpokenTo'
  BY <1>1 DEF SpokenInv, SpokenTo
<1> QED
  BY <1>6, <1>7, <1>8, <1>9 DEF SpokenInv

(* What is taken from the backlog was the only one of its kind in it. *)
LEMMA Taken ==
  ASSUME SpokenInv, backlog # <<>>, backlog' = Tail(backlog)
  PROVE  /\ Head(backlog) \in Conn /\ Fresh(Head(backlog))
         /\ link[Head(backlog)] # "none"
         /\ \A i \in 1..Len(backlog') :
              /\ backlog'[i] \in Conn \ {Head(backlog)}
              /\ Fresh(backlog'[i]) /\ link[backlog'[i]] # "none"
         /\ \A i, j \in 1..Len(backlog') : i # j => backlog'[i] # backlog'[j]
<1>1. backlog \in Seq(Conn)
  BY DEF SpokenInv, ListInv, TypeOK
<1>2. Len(backlog) \in Nat \ {0} /\ Head(backlog) = backlog[1]
  BY <1>1, EmptySeq
<1>3. /\ Len(backlog') = Len(backlog) - 1
      /\ \A i \in 1..Len(backlog') : backlog'[i] = backlog[i + 1]
  BY <1>1, HeadTailProperties
<1>4. \A i \in 1..Len(backlog) : backlog[i] \in Conn
  BY <1>1, ElementOfSeq
<1>5. \A i \in 1..Len(backlog') : i + 1 \in 2..Len(backlog)
  BY <1>2, <1>3
<1> QED
  BY <1>2, <1>3, <1>4, <1>5 DEF SpokenInv

LEMMA SpokenTaken ==
  ASSUME SpokenInv, ListInv', TakenElsewhere
  PROVE  SpokenInv'
<1>1. /\ backlog # <<>> /\ backlog' = Tail(backlog)
      /\ link' = [link EXCEPT ![Head(backlog)] = "elsewhere"]
      /\ UNCHANGED <<clients, session, got, outbox>>
  BY DEF TakenElsewhere, local
<1>2. \A d \in Conn : link'[d] = IF d = Head(backlog) THEN "elsewhere" ELSE link[d]
  BY <1>1 DEF SpokenInv, ListInv, TypeOK
<1>3. SpokenTo'
  BY <1>1 DEF SpokenInv, SpokenTo
<1>4. \A d \in Conn : link'[d] = "none" => Fresh(d)'
  BY <1>1, <1>2 DEF SpokenInv, Fresh
<1>5. \A i \in 1..Len(backlog') : Fresh(backlog[i])' /\ link'[backlog'[i]] # "none"
  <2>1. \A i \in 1..Len(backlog') : backlog'[i] \in Conn \ {Head(backlog)}
    BY <1>1, Taken
  <2>2. \A i \in 1..Len(backlog') : link'[backlog'[i]] = link[backlog'[i]]
    BY <1>2, <2>1
  <2> QED
    BY <1>1, <2>2, Taken DEF Fresh
<1> QED
  BY <1>1, <1>3, <1>4, <1>5, Taken DEF SpokenInv

LEMMA SpokenAccept ==
  ASSUME SpokenInv, ListInv', Accept
  PROVE  SpokenInv'
<1> DEFINE h == Head(backlog)
<1>1. /\ backlog # <<>> /\ backlog' = Tail(backlog)
      /\ clients' = clients \cup {h}
      /\ session' = [session EXCEPT ![h] = NewSession]
      /\ UNCHANGED <<link, got, outbox>>
  BY DEF Accept
<1>2. h \in Conn /\ Fresh(h) /\ link[h] # "none"
  BY <1>1, Taken
<1>3. SpokenTo'
  <2>1. Len(outbox[h]) = 0 /\ got[h] \in Nat
    BY <1>2 DEF Fresh, SpokenInv, ListInv, TypeOK
  <2>2. \A d \in Conn \ {h} : session'[d] = session[d]
    BY <1>1 DEF SpokenInv, ListInv, TypeOK
  <2>3. \A d \in Conn \ {h} : Due(d)' = Due(d)
    BY <2>2 DEF Due
  <2> HIDE DEF h
  <2> QED
    BY <1>1, <2>1, <2>3, SpokenDue, SpokenDueNext DEF SpokenInv
<1>4. \A d \in Conn : link'[d] = "none" => Fresh(d)'
  BY <1>1, <1>2 DEF SpokenInv, Fresh
<1>5. \A i \in 1..Len(backlog') : Fresh(backlog[i])' /\ link'[backlog'[i]] # "none"
  BY <1>1, Taken DEF Fresh
<1> QED
  BY <1>1, <1>3, <1>4, <1>5, Taken DEF SpokenInv

(* Every reply answers something that was received, or is the greeting.    *)
LEMMA SpokenRead ==
  ASSUME SpokenInv, ListInv', NEW c \in Conn, handle_client_read(c)
  PROVE  SpokenInv'
<1>1. /\ UNCHANGED <<backlog, link, outbox, clients>>
      /\ \A d \in Conn \ {c} : session'[d] = session[d] /\ got'[d] = got[d]
      /\ got'[c] \in Nat
      /\ \/ session'[c] = session[c] /\ got[c] <= got'[c]
         \/ got[c] < got'[c]
  BY ReadPays, ReadLists DEF SpokenInv, ListInv
<1>2. \A d \in Conn : Len(outbox[d]) \in Nat /\ got[d] \in Nat
  BY LenProperties DEF SpokenInv, ListInv, TypeOK
<1>3. /\ \A d \in Conn \ {c} : Due(d)' = Due(d)
      /\ session'[c] = session[c] => Due(c)' = Due(c)
  BY <1>1 DEF Due
<1>4. SpokenTo'
  <2>1. \A d \in Conn : Len(outbox[d]) + Due(d) <= 1 + got[d]
    BY SpokenDue DEF SpokenInv
  <2>2. Len(outbox'[c]) + Due(c)' <= 1 + got'[c]
    BY <1>1, <1>2, <1>3, <2>1, SpokenDue, SpokenDueNext
  <2>3. \A d \in Conn \ {c} : Len(outbox'[d]) + Due(d)' <= 1 + got'[d]
    BY <1>1, <1>3, <2>1
  <2> QED
    BY <2>2, <2>3, SpokenDueNext
<1>5. \A d \in Conn : link'[d] = "none" => Fresh(d)'
  BY <1>1 DEF SpokenInv, Fresh
<1>6. \A i \in 1..Len(backlog') : Fresh(backlog[i])' /\ link'[backlog'[i]] # "none"
  BY <1>1 DEF SpokenInv, Fresh
<1> QED
  BY <1>1, <1>4, <1>5, <1>6 DEF SpokenInv

LEMMA SpokenWrite ==
  ASSUME SpokenInv, ListInv', NEW c \in clients, handle_client_write(c)
  PROVE  SpokenInv'
<1>0. c \in Conn /\ TypeOK
  BY DEF SpokenInv, ListInv, TypeOK
<1>1. CASE WriteNothing(c) \/ WriteFails(c)
  <2>1. UNCHANGED <<backlog, session, outbox, clients, got, link>>
    BY <1>1 DEF WriteNothing, WriteFails, Writing
  <2>2. \A d \in Conn : got[d] \in Nat
    BY <1>0 DEF TypeOK
  <2> QED
    BY <2>1, <2>2, SpokenKept
<1>2. CASE WriteReply(c)
  <2> DEFINE s == session[c].state
             reply == [trigger |-> WriteTrigger[s], file_path |-> session[c].file_path]
  <2>1. s \in State /\ Owes(s) /\ CanFire(WriteTrigger[s], s)
    BY <1>0, <1>2, WriteFits DEF WriteReply, TypeOK, SessionType
  <2>2. /\ session' = [session EXCEPT ![c] = [@ EXCEPT !.state = Dest(WriteTrigger[s], s)]]
        /\ outbox' = [outbox EXCEPT ![c] = Append(@, reply)]
        /\ clients' \subseteq clients
        /\ UNCHANGED <<backlog, got>>
    BY <1>2, <2>1 DEF WriteReply, Writing, Fire
  <2>3. link' = [link EXCEPT ![c] = link'[c]] /\ link'[c] # "none"
    <3>1. link[c] # "none"
      BY <1>0 DEF SpokenInv, Fresh
    <3> QED
      BY <1>0, <1>2, <3>1 DEF WriteReply, TypeOK
  <2>4. \A d \in Conn : link'[d] = "none" => Fresh(d)'
    BY <1>0, <2>2, <2>3 DEF SpokenInv, Fresh, TypeOK
  <2>5. \A i \in 1..Len(backlog) : backlog[i] \in Conn \ {c}
    <3>1. \A i \in 1..Len(backlog) : backlog[i] \notin clients
      BY DEF SpokenInv, Fresh
    <3>2. backlog \in Seq(Conn)
      BY <1>0 DEF TypeOK
    <3>3. \A i \in 1..Len(backlog) : backlog[i] \in Conn
      BY <3>2, ElementOfSeq
    <3> QED
      BY <3>1, <3>3
  <2>6. \A i \in 1..Len(backlog') : Fresh(backlog[i])' /\ link'[backlog'[i]] # "none"
    <3>1. \A d \in Conn \ {c} : outbox'[d] = outbox[d] /\ link'[d] = link[d]
      BY <1>0, <2>2, <2>3 DEF TypeOK
    <3> QED
      BY <2>2, <2>5, <3>1 DEF SpokenInv, Fresh
  <2>7. SpokenTo'
    <3>1. session'[c].state = Dest(WriteTrigger[s], s)
      BY <1>0, <2>2 DEF TypeOK, SessionType
    <3>2. Due(c)' = 0 /\ Due(c) = 1
      BY <2>1, <3>1, ReplyPays DEF Due
    <3>3. \A d \in Conn \ {c} : Due(d)' = Due(d) /\ outbox'[d] = outbox[d]
      BY <1>0, <2>2 DEF Due, TypeOK
    <3>4. Len(outbox'[c]) = Len(outbox[c]) + 1
      <4>1. outbox'[c] = Append(outbox[c], reply) /\ outbox[c] \in Seq(ReplyType)
        BY <1>0, <2>2 DEF TypeOK
      <4>2. reply \in ReplyType
        BY <1>0 DEF TypeOK, SessionType, ReplyType
      <4> HIDE DEF reply
      <4> QED
        BY <4>1, <4>2, AppendProperties
    <3>5. \A d \in Conn : Len(outbox[d]) \in Nat /\ got[d] \in Nat
      BY <1>0, LenProperties DEF TypeOK
    <3> QED
      BY <2>2, <3>2, <3>3, <3>4, <3>5, SpokenDue, SpokenDueNext DEF SpokenInv
  <2> QED
    BY <2>2, <2>4, <2>6, <2>7 DEF SpokenInv
<1> QED
  BY <1>1, <1>2 DEF handle_client_write

LEMMA SpokenStep == SpokenInv /\ [Next]_vars => SpokenInv'
<1> SUFFICES ASSUME SpokenInv, [Next]_vars
             PROVE  SpokenInv'
  OBVIOUS
<1>0. ListInv /\ ListInv' /\ TypeOK
  BY ListStep DEF SpokenInv, ListInv
<1>1. \A d \in Conn : got[d] \in Nat
  BY <1>0 DEF TypeOK
<1>2. ASSUME NEW c \in Conn, Connect(c)
      PROVE  SpokenInv'
  BY <1>0, <1>2, SpokenConnect
<1>3. ASSUME NEW c \in Conn, ClientSend(c) \/ ClientRecv(c) \/ ClientClose(c)
      PROVE  SpokenInv'
  BY <1>0, <1>1, <1>3, SpokenKept
     DEF ClientSend, ClientRecv, ClientClose, local, TypeOK
<1>4. CASE TakenElsewhere
  BY <1>0, <1>4, SpokenTaken
<1>5. CASE Accept
  BY <1>0, <1>5, SpokenAccept
<1>6. CASE Select \/ AcceptTimeout \/ ReadsDone \/ WritesDone \/ Interrupt
  BY <1>0, <1>1, <1>6, SpokenKept
     DEF Select, AcceptTimeout, ReadsDone, WritesDone, Interrupt, net
<1>7. CASE Handle
  <2>1. PICK c \in clients : handle_client_read(c) \/ handle_client_write(c)
    BY <1>0, <1>7 DEF Handle, Lookup, ListInv
  <2> QED
    BY <1>0, <2>1, SpokenRead, SpokenWrite DEF TypeOK
<1>8. CASE UNCHANGED vars
  BY <1>0, <1>1, <1>8, SpokenKept DEF vars, local, net
<1> QED
  BY <1>2, <1>3, <1>4, <1>5, <1>6, <1>7, <1>8 DEF Next, run, Outside

(* The server speaks to a client no more often than it is spoken to,       *)
(* besides its greeting, however many clients send whatever they like.     *)
THEOREM ServerSpeaksWhenSpokenTo == Spec => []SpokenTo
<1>1. SpokenInv => SpokenTo
  BY DEF SpokenInv
<1> QED
  BY <1>1, SpokenInit, SpokenStep, PTL DEF Spec

-----------------------------------------------------------------------------
(* What a step does to a session.                                          *)

(* No trigger has two rows for one state. *)
LEMMA RowUnique ==
  \A r, q \in Table : r.trigger = q.trigger /\ r.source = q.source => r.dest = q.dest
BY DEF Table, OneSource, AnySource, Row

LEMMA DestOf ==
  ASSUME NEW trigger, NEW source, NEW dest, Row(trigger, source, dest) \in Table
  PROVE  CanFire(trigger, source) /\ Dest(trigger, source) = dest
<1>1. CanFire(trigger, source)
  BY DEF CanFire, Row
<1>2. \A q \in Table : q.trigger = trigger /\ q.source = source => q.dest = dest
  BY RowUnique DEF Row
<1>3. (CHOOSE r \in Table : r.trigger = trigger /\ r.source = source).dest = dest
  BY <1>1, <1>2 DEF CanFire
<1> QED
  BY <1>1, <1>3 DEF Dest

(* Where the handlers lead. *)
LEMMA Leads ==
  /\ CanFire("HELO", "helo") /\ Dest("HELO", "helo") = "helo_write"
  /\ CanFire("MAIL_FROM", "mail_from") /\ Dest("MAIL_FROM", "mail_from") = "mail_from_write"
  /\ CanFire("RCPT_TO", "rcpt_to") /\ Dest("RCPT_TO", "rcpt_to") = "rcpt_to_write"
  /\ CanFire("ANOTHER_RECEPIENT", "data") /\ Dest("ANOTHER_RECEPIENT", "data") = "rcpt_to_write"
  /\ CanFire("DATA_start", "data") /\ Dest("DATA_start", "data") = "data_write"
  /\ CanFire("DATA_additional", "data") /\ Dest("DATA_additional", "data") = "data"
  /\ CanFire("DATA_end", "data") /\ Dest("DATA_end", "data") = "data_end_write"
  /\ \A s \in State : /\ CanFire("QUIT", s) /\ Dest("QUIT", s) = "quit_write"
                      /\ CanFire("RSET", s) /\ Dest("RSET", s) = "helo_write"
<1>1. { Row("HELO",              "helo",      "helo_write"),
        Row("MAIL_FROM",         "mail_from", "mail_from_write"),
        Row("RCPT_TO",           "rcpt_to",   "rcpt_to_write"),
        Row("ANOTHER_RECEPIENT", "data",      "rcpt_to_write"),
        Row("DATA_start",        "data",      "data_write"),
        Row("DATA_additional",   "data",      "data"),
        Row("DATA_end",          "data",      "data_end_write") } \subseteq Table
  BY DEF Table, OneSource
<1>2. \A s \in State : /\ Row("QUIT", s, "quit_write") \in Table
                       /\ Row("RSET", s, "helo_write") \in Table
  BY DEF Table, AnySource
<1> QED
  BY <1>1, <1>2, DestOf

(* What the write handler says in a state, and where it goes from there.   *)
Reply(state, trigger, dest) ==
  \/ state = "greeting_write"  /\ trigger = "GREETING_write"   /\ dest = "helo"
  \/ state = "helo_write"      /\ trigger = "HELO_write"       /\ dest = "mail_from"
  \/ state = "mail_from_write" /\ trigger = "MAIL_FROM_write"  /\ dest = "rcpt_to"
  \/ state = "rcpt_to_write"   /\ trigger = "RCPT_TO_write"    /\ dest = "data"
  \/ state = "data_write"      /\ trigger = "DATA_start_write" /\ dest = "data"
  \/ state = "data_end_write"  /\ trigger = "DATA_end_write"   /\ dest = "quit"
  \/ state = "quit_write"      /\ trigger = "QUIT_write"       /\ dest = "finish"

LEMMA ReplyLeads ==
  ASSUME NEW s \in State, Owes(s)
  PROVE  Reply(s, WriteTrigger[s], Dest(WriteTrigger[s], s))
<1>1. /\ Dest("GREETING_write", "greeting_write") = "helo"
      /\ Dest("HELO_write", "helo_write") = "mail_from"
      /\ Dest("MAIL_FROM_write", "mail_from_write") = "rcpt_to"
      /\ Dest("RCPT_TO_write", "rcpt_to_write") = "data"
      /\ Dest("DATA_start_write", "data_write") = "data"
      /\ Dest("DATA_end_write", "data_end_write") = "quit"
      /\ Dest("QUIT_write", "quit_write") = "finish"
  <2>1. { Row("GREETING_write",   "greeting_write",  "helo"),
          Row("HELO_write",       "helo_write",      "mail_from"),
          Row("MAIL_FROM_write",  "mail_from_write", "rcpt_to"),
          Row("RCPT_TO_write",    "rcpt_to_write",   "data"),
          Row("DATA_start_write", "data_write",      "data"),
          Row("DATA_end_write",   "data_end_write",  "quit"),
          Row("QUIT_write",       "quit_write",      "finish") } \subseteq Table
    BY DEF Table, OneSource
  <2> QED
    BY <2>1, DestOf
<1>2. \/ s = "greeting_write"  /\ WriteTrigger[s] = "GREETING_write"
      \/ s = "helo_write"      /\ WriteTrigger[s] = "HELO_write"
      \/ s = "mail_from_write" /\ WriteTrigger[s] = "MAIL_FROM_write"
      \/ s = "rcpt_to_write"   /\ WriteTrigger[s] = "RCPT_TO_write"
      \/ s = "data_write"      /\ WriteTrigger[s] = "DATA_start_write"
      \/ s = "data_end_write"  /\ WriteTrigger[s] = "DATA_end_write"
      \/ s = "quit_write"      /\ WriteTrigger[s] = "QUIT_write"
  BY DEF Owes, WriteTrigger
<1> QED
  BY <1>1, <1>2 DEF Reply

(* The states that owe a reply. *)
LEMMA OwesWrite ==
  \A s \in State : Owes(s) <=> s \in {"greeting_write", "helo_write", "mail_from_write",
                                     "rcpt_to_write", "data_write", "data_end_write", "quit_write"}
BY DEF Owes, WriteTrigger, State


(* What the read handler makes of a session, by what it hears, with the    *)
(* triggers resolved.                                                      *)
HearsCommand(c) ==
  /\ session[c].state # "data"
  /\ \E dest \in {"quit_write", "helo_write"} :
       session' = [session EXCEPT ![c] = [session[c] EXCEPT !.state = dest]]
  /\ UNCHANGED <<exc, store, files>>

HearsSender(c) ==
  /\ session[c].state = "mail_from"
  /\ session' = [session EXCEPT ![c] =
       [session[c] EXCEPT !.from_ = Path_group(Received(c), "MAIL"), !.state = "mail_from_write"]]
  /\ UNCHANGED <<exc, store, files>>

HearsRecipient(c) ==
  /\ session[c].state \in {"rcpt_to", "data"}
  /\ session' = [session EXCEPT ![c] =
       [session[c] EXCEPT !.to = Append(@, Path_group(Received(c), "RCPT")), !.state = "rcpt_to_write"]]
  /\ UNCHANGED <<exc, store, files>>

HearsStart(c) ==
  /\ session[c].state = "data"
  /\ session' = [session EXCEPT ![c] =
       [session[c] EXCEPT !.body = @ \o DATA_start_group(Received(c)),
                          !.data_start_already_matched = TRUE, !.state = "data_write"]]
  /\ UNCHANGED <<exc, store, files>>

HearsMore(c) ==
  /\ session[c].state = "data" /\ session[c].data_start_already_matched
  /\ session' = [session EXCEPT ![c] = [session[c] EXCEPT !.body = @ \o Received(c)]]
  /\ UNCHANGED <<exc, store, files>>

(* A file of the mail that the session s holds, with a body, in a box;     *)
(* what a broken write() leaves of a body.                                 *)
Copy(s, file, body, b) ==
  [box |-> b, file |-> file, from_ |-> s.from_, to |-> s.to, body |-> body]

Broken == <<Plain("CLIPPED")>>

HearsEnd(c) ==
  LET s == session[c]
      body == s.body \o DATA_end_group(Received(c))
  IN  /\ s.state = "data" /\ s.data_start_already_matched
      /\ files' = files + 1
      /\ \E out \in to_file(s.to) :
           /\ session' = [session EXCEPT ![c] =
                [session[c] EXCEPT !.body = body, !.file_path = files + 1,
                          !.data_start_already_matched = out.exc # "none",
                          !.state = "data_end_write"]]
           /\ store' = store \cup {Copy(s, files + 1, body, b) : b \in out.boxes}
                             \cup {Copy(s, files + 1, Broken, b) : b \in out.torn}
           /\ exc' = IF out.exc = "none" THEN exc ELSE out.exc

HearsNothing(c) == UNCHANGED <<session, store, files>>

(* What the triggers say of the session they were chosen for. *)
LEMMA TriggerSays ==
  ASSUME NEW s, NEW line, NEW t, ReadTrigger(s, line) = t
  PROVE  /\ t = "HELO" => s.state = "helo"
         /\ t = "MAIL_FROM" => s.state = "mail_from"
         /\ t = "RCPT_TO" => s.state = "rcpt_to"
         /\ t \in {"QUIT", "RSET"} => s.state # "data"
         /\ t \in {"ANOTHER_RECEPIENT", "DATA_start"} => s.state = "data"
         /\ t \in {"DATA_additional", "DATA_end"} =>
              s.state = "data" /\ s.data_start_already_matched
<1>1. DataTrigger(s, line) \in
        {"none", "ANOTHER_RECEPIENT", "DATA_start", "DATA_additional", "DATA_end"}
  BY DEF DataTrigger
<1>2. DataTrigger(s, line) \in {"DATA_additional", "DATA_end"} => s.data_start_already_matched
  BY DEF DataTrigger
<1>3. \/ t = "HELO" /\ s.state = "helo"
      \/ t = "MAIL_FROM" /\ s.state = "mail_from"
      \/ t = "RCPT_TO" /\ s.state = "rcpt_to"
      \/ t = DataTrigger(s, line) /\ s.state = "data"
      \/ t \in {"QUIT", "RSET"} /\ s.state # "data"
      \/ t = "none"
  BY DEF ReadTrigger
<1> QED
  BY <1>1, <1>2, <1>3

LEMMA Fires ==
  ASSUME NEW c \in Conn, NEW t, NEW s, NEW e, NEW dest, Fire(c, t, s, e),
         CanFire(t, s.state), Dest(t, s.state) = dest
  PROVE  /\ session' = [session EXCEPT ![c] = [s EXCEPT !.state = dest]]
         /\ exc' = IF e = "none" THEN exc ELSE e
BY DEF Fire, Raise

(* Each reading handler, with its trigger resolved. *)
LEMMA CommandEffect ==
  ASSUME TypeOK, NEW c \in Conn, NEW t \in {"HELO", "QUIT", "RSET"}, ReadCommand(c, t)
  PROVE  /\ HearsCommand(c)
         /\ session'[c].state = IF t = "QUIT" THEN "quit_write" ELSE "helo_write"
<1> DEFINE line == Received(c)
<1>0. session[c] \in SessionType /\ session[c].state \in State
  BY DEF TypeOK, SessionType
<1>1. /\ Fire(c, t, session[c], "none") /\ UNCHANGED <<store, files>>
      /\ ReadTrigger(session[c], line) = t
  BY DEF ReadCommand, ReadingLine
<1>2. /\ t = "HELO" => session[c].state = "helo"
      /\ t \in {"QUIT", "RSET"} => session[c].state # "data"
  BY <1>1, TriggerSays
<1> DEFINE dest == IF t = "QUIT" THEN "quit_write" ELSE "helo_write"
<1>3. CanFire(t, session[c].state) /\ Dest(t, session[c].state) = dest
  BY <1>0, <1>2, Leads
<1>4. /\ session' = [session EXCEPT ![c] = [session[c] EXCEPT !.state = dest]]
      /\ exc' = exc
  <2> HIDE DEF dest
  <2> QED
    BY <1>1, <1>3, Fires
<1>5. dest \in {"quit_write", "helo_write"} /\ session[c].state # "data"
  BY <1>2
<1>6. HearsCommand(c)
  <2> HIDE DEF dest
  <2> QED
    BY <1>1, <1>4, <1>5 DEF HearsCommand
<1>7. session'[c].state = dest
  <2> HIDE DEF dest
  <2> QED
    BY <1>0, <1>4 DEF TypeOK, SessionType
<1> QED
  BY <1>6, <1>7

LEMMA SenderEffect ==
  ASSUME TypeOK, NEW c \in Conn, ReadMailFrom(c)
  PROVE  HearsSender(c)
<1> DEFINE line == Received(c)
<1>0. session[c] \in SessionType /\ session[c].state \in State
  BY DEF TypeOK, SessionType
<1> DEFINE s == [session[c] EXCEPT !.from_ = Path_group(line, "MAIL")]
<1>1. /\ Fire(c, "MAIL_FROM", s, "none") /\ UNCHANGED <<store, files>>
      /\ session[c].state = "mail_from" /\ s.state = "mail_from"
  BY <1>0, TriggerSays DEF ReadMailFrom, ReadingLine, SessionType
<1>2. /\ session' = [session EXCEPT ![c] = [s EXCEPT !.state = "mail_from_write"]]
      /\ exc' = exc
  <2> HIDE DEF s
  <2> QED
    BY <1>1, Fires, Leads
<1>3. [s EXCEPT !.state = "mail_from_write"] =
        [session[c] EXCEPT !.from_ = Path_group(line, "MAIL"), !.state = "mail_from_write"]
  BY <1>0 DEF SessionType
<1> QED
  BY <1>1, <1>2, <1>3 DEF HearsSender

LEMMA RecipientEffect ==
  ASSUME TypeOK, NEW c \in Conn, NEW t \in {"RCPT_TO", "ANOTHER_RECEPIENT"}, ReadRecipient(c, t)
  PROVE  HearsRecipient(c)
<1> DEFINE line == Received(c)
<1>0. session[c] \in SessionType /\ session[c].state \in State
  BY DEF TypeOK, SessionType
<1> DEFINE s == [session[c] EXCEPT !.to = Append(@, Path_group(line, "RCPT"))]
<1>1. /\ Fire(c, t, s, "none") /\ UNCHANGED <<store, files>>
      /\ ReadTrigger(session[c], line) = t
      /\ s.state = session[c].state
  BY <1>0 DEF ReadRecipient, ReadingLine, SessionType
<1>2. \/ t = "RCPT_TO" /\ s.state = "rcpt_to"
      \/ t = "ANOTHER_RECEPIENT" /\ s.state = "data"
  <2> HIDE DEF s
  <2> QED
    BY <1>1, TriggerSays
<1>3. /\ session' = [session EXCEPT ![c] = [s EXCEPT !.state = "rcpt_to_write"]]
      /\ exc' = exc
  <2> HIDE DEF s
  <2> QED
    BY <1>1, <1>2, Fires, Leads
<1>4. [s EXCEPT !.state = "rcpt_to_write"] =
        [session[c] EXCEPT !.to = Append(@, Path_group(line, "RCPT")), !.state = "rcpt_to_write"]
  BY <1>0 DEF SessionType
<1> QED
  BY <1>1, <1>2, <1>3, <1>4 DEF HearsRecipient

LEMMA StartEffect ==
  ASSUME TypeOK, NEW c \in Conn, ReadDataStart(c)
  PROVE  HearsStart(c)
<1> DEFINE line == Received(c)
<1>0. session[c] \in SessionType /\ session[c].state \in State
  BY DEF TypeOK, SessionType
<1> DEFINE s == [session[c] EXCEPT !.body = @ \o DATA_start_group(line),
                                   !.data_start_already_matched = TRUE]
<1>1. /\ Fire(c, "DATA_start", s, "none") /\ UNCHANGED <<store, files>>
      /\ session[c].state = "data" /\ s.state = "data"
  BY <1>0, TriggerSays DEF ReadDataStart, ReadingLine, SessionType
<1>2. /\ session' = [session EXCEPT ![c] = [s EXCEPT !.state = "data_write"]]
      /\ exc' = exc
  <2> HIDE DEF s
  <2> QED
    BY <1>1, Fires, Leads
<1>3. [s EXCEPT !.state = "data_write"] =
        [session[c] EXCEPT !.body = @ \o DATA_start_group(line),
                           !.data_start_already_matched = TRUE, !.state = "data_write"]
  BY <1>0 DEF SessionType
<1> QED
  BY <1>1, <1>2, <1>3 DEF HearsStart

LEMMA MoreEffect ==
  ASSUME TypeOK, NEW c \in Conn, ReadDataAdditional(c)
  PROVE  HearsMore(c)
<1> DEFINE line == Received(c)
<1>0. session[c] \in SessionType /\ session[c].state \in State
  BY DEF TypeOK, SessionType
<1> DEFINE s == [session[c] EXCEPT !.body = @ \o line]
<1>1. /\ Fire(c, "DATA_additional", s, "none") /\ UNCHANGED <<store, files>>
      /\ session[c].state = "data" /\ session[c].data_start_already_matched
      /\ s.state = "data"
  BY <1>0, TriggerSays DEF ReadDataAdditional, ReadingLine, SessionType
<1>2. /\ session' = [session EXCEPT ![c] = [s EXCEPT !.state = "data"]]
      /\ exc' = exc
  <2> HIDE DEF s
  <2> QED
    BY <1>1, Fires, Leads
<1>3. [s EXCEPT !.state = "data"] = s
  BY <1>0, <1>1 DEF SessionType
<1> QED
  BY <1>1, <1>2, <1>3 DEF HearsMore

LEMMA EndEffect ==
  ASSUME TypeOK, NEW c \in Conn, ReadDataEnd(c)
  PROVE  HearsEnd(c)
<1> DEFINE line == Received(c)
<1>0. session[c] \in SessionType /\ session[c].state \in State
  BY DEF TypeOK, SessionType
<1> DEFINE body == session[c].body \o DATA_end_group(line)
           mail == [session[c] EXCEPT !.body = body, !.file_path = files + 1]
<1>1. /\ session[c].state = "data" /\ session[c].data_start_already_matched
      /\ files' = files + 1
  BY TriggerSays DEF ReadDataEnd, ReadingLine
<1>2. PICK out \in to_file(mail.to) :
        /\ Fire(c, "DATA_end",
                [mail EXCEPT !.data_start_already_matched = out.exc # "none"], out.exc)
        /\ store' = store \cup {FileOf(mail, b) : b \in out.boxes}
                          \cup {TornFile(mail, b) : b \in out.torn}
  BY DEF ReadDataEnd
<1> DEFINE s == [mail EXCEPT !.data_start_already_matched = out.exc # "none"]
<1>3. /\ s.state = "data"
      /\ mail.to = session[c].to /\ mail.from_ = session[c].from_ /\ mail.body = body
      /\ mail.file_path = files + 1
  BY <1>0, <1>1 DEF SessionType
<1>4. /\ session' = [session EXCEPT ![c] = [s EXCEPT !.state = "data_end_write"]]
      /\ exc' = IF out.exc = "none" THEN exc ELSE out.exc
  <2>1. Fire(c, "DATA_end", s, out.exc)
    BY <1>2
  <2> HIDE DEF s
  <2> QED
    BY <1>3, <2>1, Fires, Leads
<1>5. [s EXCEPT !.state = "data_end_write"] =
        [session[c] EXCEPT !.body = body, !.file_path = files + 1,
                           !.data_start_already_matched = out.exc # "none",
                           !.state = "data_end_write"]
  BY <1>0 DEF SessionType
<1>6. out \in to_file(session[c].to)
  BY <1>2, <1>3
<1>7. store' = store \cup {Copy(session[c], files + 1, body, b) : b \in out.boxes}
                      \cup {Copy(session[c], files + 1, Broken, b) : b \in out.torn}
  <2> HIDE DEF body, mail
  <2>1. \A b : FileOf(mail, b) = Copy(session[c], files + 1, body, b)
    BY <1>3 DEF FileOf, Copy
  <2>2. \A b : TornFile(mail, b) = Copy(session[c], files + 1, Broken, b)
    BY <1>3 DEF TornFile, FileOf, Copy, Broken
  <2> QED
    BY <1>2, <2>1, <2>2
<1>8. session' = [session EXCEPT ![c] =
           [session[c] EXCEPT !.body = body, !.file_path = files + 1,
                              !.data_start_already_matched = out.exc # "none",
                              !.state = "data_end_write"]]
  BY <1>4, <1>5
<1> QED
  BY <1>1, <1>4, <1>6, <1>7, <1>8 DEF HearsEnd

LEMMA ReadEffect ==
  ASSUME TypeOK, NEW c \in Conn, handle_client_read(c)
  PROVE  \/ HearsCommand(c) \/ HearsSender(c) \/ HearsRecipient(c) \/ HearsStart(c)
         \/ HearsMore(c) \/ HearsEnd(c) \/ HearsNothing(c)
<1>1. CASE ReadDropped(c) \/ ReadEof(c) \/ ReadFails(c)
  BY <1>1 DEF ReadDropped, ReadEof, ReadFails, HearsNothing
<1> QED
  BY <1>1, CommandEffect, SenderEffect, RecipientEffect, StartEffect, MoreEffect, EndEffect
     DEF handle_client_read

(* The fields of the session after each. *)
LEMMA HeardFields ==
  ASSUME TypeOK, NEW c \in Conn, NEW s, s = session[c], NEW t, t = session'[c]
  PROVE  /\ HearsCommand(c) =>
              /\ t.state \in {"quit_write", "helo_write"}
              /\ t.data_start_already_matched = s.data_start_already_matched
              /\ t.from_ = s.from_ /\ t.to = s.to /\ t.body = s.body
              /\ t.file_path = s.file_path
         /\ HearsSender(c) =>
              /\ t.state = "mail_from_write"
              /\ t.data_start_already_matched = s.data_start_already_matched
              /\ t.from_ = Path_group(Received(c), "MAIL") /\ t.to = s.to /\ t.body = s.body
              /\ t.file_path = s.file_path
         /\ HearsRecipient(c) =>
              /\ t.state = "rcpt_to_write"
              /\ t.data_start_already_matched = s.data_start_already_matched
              /\ t.from_ = s.from_ /\ t.to = Append(s.to, Path_group(Received(c), "RCPT"))
              /\ t.body = s.body /\ t.file_path = s.file_path
         /\ HearsStart(c) =>
              /\ t.state = "data_write" /\ t.data_start_already_matched
              /\ t.from_ = s.from_ /\ t.to = s.to /\ t.body = s.body \o DATA_start_group(Received(c))
              /\ t.file_path = s.file_path
         /\ HearsMore(c) =>
              /\ t.state = "data"
              /\ t.data_start_already_matched = s.data_start_already_matched
              /\ t.from_ = s.from_ /\ t.to = s.to /\ t.body = s.body \o Received(c)
              /\ t.file_path = s.file_path
         /\ HearsEnd(c) =>
              /\ t.state = "data_end_write"
              /\ t.data_start_already_matched => exc' # "none"
              /\ t.from_ = s.from_ /\ t.to = s.to
              /\ t.body = s.body \o DATA_end_group(Received(c))
              /\ t.file_path = files + 1
<1>0. s \in SessionType
  BY DEF TypeOK
<1>1. HearsCommand(c) => \E dest \in {"quit_write", "helo_write"} : t = [s EXCEPT !.state = dest]
  BY DEF TypeOK, HearsCommand
<1>2. HearsSender(c) =>
        t = [s EXCEPT !.from_ = Path_group(Received(c), "MAIL"), !.state = "mail_from_write"]
  BY DEF TypeOK, HearsSender
<1>3. HearsRecipient(c) =>
        t = [s EXCEPT !.to = Append(@, Path_group(Received(c), "RCPT")), !.state = "rcpt_to_write"]
  BY DEF TypeOK, HearsRecipient
<1>4. HearsStart(c) =>
        t = [s EXCEPT !.body = @ \o DATA_start_group(Received(c)),
                      !.data_start_already_matched = TRUE, !.state = "data_write"]
  BY DEF TypeOK, HearsStart
<1>5. HearsMore(c) => s.state = "data" /\ t = [s EXCEPT !.body = @ \o Received(c)]
  BY DEF TypeOK, HearsMore
<1>6. HearsEnd(c) =>
        \E out \in to_file(s.to) :
          /\ t = [s EXCEPT !.body = s.body \o DATA_end_group(Received(c)),
                           !.file_path = files + 1,
                           !.data_start_already_matched = out.exc # "none",
                           !.state = "data_end_write"]
          /\ out.exc # "none" => exc' # "none"
  BY DEF TypeOK, HearsEnd
<1>11. HearsCommand(c) =>
          /\ t.state \in {"quit_write", "helo_write"}
          /\ t.data_start_already_matched = s.data_start_already_matched
          /\ t.from_ = s.from_ /\ t.to = s.to /\ t.body = s.body
          /\ t.file_path = s.file_path
  BY <1>0, <1>1 DEF SessionType
<1>12. HearsSender(c) =>
          /\ t.state = "mail_from_write"
          /\ t.data_start_already_matched = s.data_start_already_matched
          /\ t.from_ = Path_group(Received(c), "MAIL") /\ t.to = s.to /\ t.body = s.body
          /\ t.file_path = s.file_path
  BY <1>0, <1>2 DEF SessionType
<1>13. HearsRecipient(c) =>
          /\ t.state = "rcpt_to_write"
          /\ t.data_start_already_matched = s.data_start_already_matched
          /\ t.from_ = s.from_ /\ t.to = Append(s.to, Path_group(Received(c), "RCPT"))
          /\ t.body = s.body /\ t.file_path = s.file_path
  BY <1>0, <1>3 DEF SessionType
<1>14. HearsStart(c) =>
          /\ t.state = "data_write" /\ t.data_start_already_matched
          /\ t.from_ = s.from_ /\ t.to = s.to /\ t.body = s.body \o DATA_start_group(Received(c))
          /\ t.file_path = s.file_path
  BY <1>0, <1>4 DEF SessionType
<1>15. HearsMore(c) =>
          /\ t.state = "data"
          /\ t.data_start_already_matched = s.data_start_already_matched
          /\ t.from_ = s.from_ /\ t.to = s.to /\ t.body = s.body \o Received(c)
          /\ t.file_path = s.file_path
  BY <1>0, <1>5 DEF SessionType
<1>16. HearsEnd(c) =>
          /\ t.state = "data_end_write"
          /\ t.data_start_already_matched => exc' # "none"
          /\ t.from_ = s.from_ /\ t.to = s.to
          /\ t.body = s.body \o DATA_end_group(Received(c))
          /\ t.file_path = files + 1
  BY <1>0, <1>6 DEF SessionType
<1> QED
  BY <1>11, <1>12, <1>13, <1>14, <1>15, <1>16

(* Only the session that was handled changes. *)
LEMMA HeardOthers ==
  ASSUME TypeOK, NEW c \in Conn,
         \/ HearsCommand(c) \/ HearsSender(c) \/ HearsRecipient(c) \/ HearsStart(c)
         \/ HearsMore(c) \/ HearsEnd(c) \/ HearsNothing(c)
  PROVE  \A d \in Conn \ {c} : session'[d] = session[d]
BY DEF TypeOK, HearsCommand, HearsSender, HearsRecipient, HearsStart, HearsMore, HearsEnd,
       HearsNothing

(* A step that changes no session, sends no reply and writes no mail.      *)
Quiet ==
  /\ UNCHANGED <<session, outbox, store, files>>
  /\ pc = "ended" => pc' = "ended" /\ exc' = exc

(* Whatever the step, it is quiet, accepts a connection, or handles one.   *)
LEMMA StepEffect ==
  ASSUME ListInv, [Next]_vars
  PROVE  \/ Quiet
         \/ Accept
         \/ \E c \in Conn \cap rfds : pc = "reads" /\ handle_client_read(c)
         \/ \E c \in Conn \cap clients : WriteReply(c)
<1>0. TypeOK /\ rfds \subseteq clients /\ wfds \subseteq clients
  BY DEF ListInv
<1>1. CASE Outside \/ UNCHANGED vars
  <2>1. UNCHANGED local
    BY <1>1 DEF Outside, Connect, TakenElsewhere, ClientSend, ClientRecv, ClientClose, vars
  <2>2. UNCHANGED outbox
    BY <1>1 DEF Outside, Connect, TakenElsewhere, ClientSend, ClientRecv, ClientClose, vars, net
  <2> QED
    BY <2>1, <2>2 DEF Quiet, local
<1>2. CASE Select \/ AcceptTimeout \/ ReadsDone \/ WritesDone \/ Interrupt
  BY <1>2 DEF Select, AcceptTimeout, ReadsDone, WritesDone, Interrupt, net, Quiet
<1>3. ASSUME pc = "reads", NEW c \in rfds, Lookup(c, handle_client_read(c))
      PROVE  c \in Conn /\ handle_client_read(c)
  BY <1>0, <1>3 DEF TypeOK, Lookup
<1>4. ASSUME pc = "writes", NEW c \in wfds, Lookup(c, handle_client_write(c))
      PROVE  c \in Conn \cap clients /\ (WriteReply(c) \/ Quiet)
  <2>1. c \in Conn /\ c \in clients /\ handle_client_write(c)
    BY <1>0, <1>4 DEF TypeOK, Lookup
  <2>2. CASE WriteNothing(c) \/ WriteFails(c)
    BY <1>4, <2>1, <2>2 DEF WriteNothing, WriteFails, Writing, Quiet
  <2> QED
    BY <2>1, <2>2 DEF handle_client_write
<1> QED
  BY <1>1, <1>2, <1>3, <1>4 DEF Next, run, Handle

(* Accepting makes a fresh session, and nothing else.                      *)
LEMMA AcceptEffect ==
  ASSUME TypeOK, Accept
  PROVE  /\ Head(backlog) \in Conn
         /\ session' = [session EXCEPT ![Head(backlog)] = NewSession]
         /\ clients' = clients \cup {Head(backlog)}
         /\ pc = "accept" /\ pc' = "reads"
         /\ UNCHANGED <<exc, rfds, wfds, outbox, store, files>>
<1>1. backlog \in Seq(Conn) /\ backlog # <<>>
  BY DEF TypeOK, Accept
<1>2. Head(backlog) \in Conn
  BY <1>1, HeadTailProperties
<1> QED
  BY <1>2 DEF Accept

(* A reply says what the state calls for and leaves the mail as it is.     *)
LEMMA ReplyEffect ==
  ASSUME TypeOK, NEW c \in Conn, WriteReply(c)
  PROVE  /\ pc = "writes" /\ c \in wfds /\ wfds' = wfds \ {c}
         /\ UNCHANGED <<pc, exc, rfds, store, files, backlog, script, sent, got, seen>>
         /\ clients' \subseteq clients /\ clients \ {c} \subseteq clients'
         /\ link[c] # "reset"
         /\ \E trigger, dest :
              /\ Reply(session[c].state, trigger, dest)
              /\ trigger \in {WriteTrigger[s] : s \in State}
              /\ session' = [session EXCEPT ![c] = [session[c] EXCEPT !.state = dest]]
              /\ outbox' = [outbox EXCEPT ![c] =
                   Append(outbox[c], [trigger |-> trigger, file_path |-> session[c].file_path])]
<1> DEFINE s == session[c]
           t == WriteTrigger[s.state]
           dest == Dest(t, s.state)
<1>1. s \in SessionType /\ s.state \in State /\ Owes(s.state)
  BY DEF TypeOK, SessionType, WriteReply
<1>2. Reply(s.state, t, dest) /\ CanFire(t, s.state)
  BY <1>1, ReplyLeads, WriteFits
<1>3. Fire(c, t, s, "none")
  BY DEF WriteReply
<1>4. session' = [session EXCEPT ![c] = [s EXCEPT !.state = dest]] /\ UNCHANGED <<pc, exc>>
  BY <1>2, <1>3 DEF Fire
<1>5. t \in {WriteTrigger[x] : x \in State}
  BY <1>1
<1>6. outbox' = [outbox EXCEPT ![c] =
                   Append(outbox[c], [trigger |-> t, file_path |-> s.file_path])]
  BY DEF WriteReply
<1>7. /\ pc = "writes" /\ c \in wfds /\ wfds' = wfds \ {c} /\ link[c] # "reset"
      /\ UNCHANGED <<rfds, store, files, backlog, script, sent, got, seen>>
      /\ clients' \subseteq clients /\ clients \ {c} \subseteq clients'
  BY DEF WriteReply, Writing
<1> HIDE DEF t, dest, s
<1> QED
  BY <1>2, <1>4, <1>5, <1>6, <1>7 DEF s

-----------------------------------------------------------------------------
(* The mail files.                                                         *)

(* A mail that to_file neither refused nor broke off lies in all its       *)
(* boxes, and only an OSError leaves a file, in one box, that is broken off.*)
LEMMA ToFileWhole ==
  ASSUME NEW to \in Seq(Path), NEW out \in to_file(to)
  PROVE  /\ Refused(to) => out.boxes = {}
         /\ ~Refused(to) /\ out.exc = "none" => out.boxes = AllBoxes(to)
         /\ \/ out.torn = {}
            \/ out.exc = "OSError" /\ \E b : out.torn = {b}
<1> DEFINE n == Splittable(to)
<1>1. CASE Refused(to)
  BY <1>1 DEF to_file, End
<1>2. CASE ~Refused(to)
  <2>1. \/ out = End(Boxes(to, n), {}, IF n = Len(to) THEN "none" ELSE "AttributeError")
        \/ \E i \in 1..n : \E torn \in {{}, {Box(to[i])}} :
             out = End(Boxes(to, i - 1), torn, "OSError")
    BY <1>2 DEF to_file
  <2> HIDE DEF n
  <2>2. CASE out = End(Boxes(to, n), {}, IF n = Len(to) THEN "none" ELSE "AttributeError")
    BY <1>2, <2>2 DEF End, AllBoxes
  <2>3. ASSUME NEW i \in 1..n, NEW torn \in {{}, {Box(to[i])}},
               out = End(Boxes(to, i - 1), torn, "OSError")
        PROVE  out.exc = "OSError" /\ (out.torn = {} \/ \E b : out.torn = {b})
    BY <2>3 DEF End
  <2> QED
    BY <1>2, <2>1, <2>2, <2>3
<1> QED
  BY <1>1, <1>2

(* No file name is used twice, because uuid4() makes a new one for every   *)
(* message; and an exception ends the loop.                                *)
StoreInv ==
  /\ ListInv
  /\ exc # "none" => pc = "ended"
  /\ \A f \in store : f.file <= files
  /\ \A c \in Conn : session[c].file_path <= files
  /\ WholeOrEnded
  /\ QueuedIsStored

(* The copies in the boxes of the mail that a session holds. *)
Copies(s, mails) ==
  { f.box : f \in { g \in mails :
      g = [ box |-> g.box, file |-> s.file_path, from_ |-> s.from_,
            to |-> s.to, body |-> s.body ] } }

QueuedStored(s, mails, e) ==
  s.state \in {"data_end_write", "quit"} /\ e \notin {"AttributeError", "OSError"} =>
    Refused(s.to) \/ AllBoxes(s.to) = Copies(s, mails)

LEMMA QueuedEach ==
  /\ QueuedIsStored <=> \A c \in Conn : QueuedStored(session[c], store, exc)
  /\ QueuedIsStored' <=> \A c \in Conn : QueuedStored(session'[c], store', exc')
BY DEF QueuedIsStored, QueuedStored, Copies

LEMMA StoreInit == Init => StoreInv
<1> SUFFICES ASSUME Init
             PROVE  StoreInv
  OBVIOUS
<1>1. ListInv /\ store = {} /\ files = 0 /\ exc = "none"
  BY ListInit DEF Init
<1>2. \A c \in Conn : session[c] = NewSession
  BY DEF Init
<1>3. NewSession.state = "greeting_write" /\ NewSession.file_path = 0
  BY DEF NewSession
<1>4. QueuedIsStored
  BY <1>2, <1>3 DEF QueuedIsStored
<1>5. WholeOrEnded
  BY <1>1 DEF WholeOrEnded
<1> QED
  BY <1>1, <1>2, <1>3, <1>4, <1>5 DEF StoreInv

(* A step that writes nothing, and after which a session is as before, or  *)
(* holds the same mail in a state that is past no message.                 *)
LEMMA StoreKept ==
  ASSUME StoreInv, ListInv', UNCHANGED <<store, files>>,
         \/ UNCHANGED exc
         \/ exc = "none",
         exc' # "none" => pc' = "ended",
         \A c \in Conn : /\ session'[c].file_path <= files
                         /\ \/ session'[c].state \notin {"data_end_write", "quit"}
                            \/ /\ session[c].state \in {"data_end_write", "quit"}
                               /\ session'[c].to = session[c].to
                               /\ session'[c].from_ = session[c].from_
                               /\ session'[c].body = session[c].body
                               /\ session'[c].file_path = session[c].file_path
  PROVE  StoreInv'
<1>1. WholeOrEnded'
  BY DEF StoreInv, WholeOrEnded
<1>2. \A c \in Conn : QueuedStored(session'[c], store', exc')
  <2> TAKE c \in Conn
  <2>1. QueuedStored(session[c], store, exc)
    BY QueuedEach DEF StoreInv
  <2>2. CASE /\ session[c].state \in {"data_end_write", "quit"}
             /\ session'[c].to = session[c].to
             /\ session'[c].from_ = session[c].from_
             /\ session'[c].body = session[c].body
             /\ session'[c].file_path = session[c].file_path
    <3>1. Copies(session'[c], store') = Copies(session[c], store)
      BY <2>2 DEF Copies
    <3> QED
      BY <2>1, <2>2, <3>1 DEF QueuedStored
  <2>3. CASE session'[c].state \notin {"data_end_write", "quit"}
    BY <2>3 DEF QueuedStored
  <2> QED
    BY <2>2, <2>3
<1> QED
  BY <1>1, <1>2, QueuedEach DEF StoreInv

(* The end of a message writes a file of a new name. *)
LEMMA StoreEnd ==
  ASSUME StoreInv, ListInv', NEW c \in Conn, HearsEnd(c),
         exc' # "none" => pc' = "ended", exc = "none"
  PROVE  StoreInv'
<1> DEFINE s == session[c]
           body == s.body \o DATA_end_group(Received(c))
           Rec(b) == Copy(s, files + 1, body, b)
           Torn(b) == Copy(s, files + 1, Broken, b)
<1>0. TypeOK /\ s \in SessionType /\ files \in Nat /\ s.to \in Seq(Path)
  BY DEF StoreInv, ListInv, TypeOK, SessionType
<1>1. files' = files + 1
  BY DEF HearsEnd
<1>2. PICK out \in to_file(s.to) :
        /\ session' = [session EXCEPT ![c] =
             [s EXCEPT !.body = body, !.file_path = files + 1,
                       !.data_start_already_matched = out.exc # "none",
                       !.state = "data_end_write"]]
        /\ store' = store \cup {Rec(b) : b \in out.boxes}
                          \cup {Torn(b) : b \in out.torn}
        /\ exc' = IF out.exc = "none" THEN exc ELSE out.exc
  BY DEF HearsEnd
<1>3. /\ \A d \in Conn \ {c} : session'[d] = session[d]
      /\ session'[c].file_path = files + 1 /\ session'[c].from_ = s.from_
      /\ session'[c].to = s.to /\ session'[c].body = body
  BY <1>0, <1>2 DEF TypeOK, SessionType
<1>4. /\ Refused(s.to) => out.boxes = {}
      /\ ~Refused(s.to) /\ out.exc = "none" => out.boxes = AllBoxes(s.to)
      /\ out.exc \in {"none", "AttributeError", "OSError"}
      /\ out.torn # {} => out.exc = "OSError"
  BY <1>0, ToFileWhole, ToFileTyped
<1>5. \A f \in store : f.file \in Nat /\ f.file <= files
  BY <1>0 DEF StoreInv, TypeOK, FileType
<1>6. \A b : /\ Rec(b).box = b /\ Rec(b).file = files + 1 /\ Rec(b).to = s.to
             /\ Rec(b).from_ = s.from_ /\ Rec(b).body = body
             /\ Torn(b).file = files + 1
  BY DEF Copy
<1> HIDE DEF Rec, Torn
<1>7. \A f \in store' : f.file <= files'
  BY <1>0, <1>1, <1>2, <1>5, <1>6
<1>8. \A d \in Conn : session'[d].file_path <= files'
  <2>1. \A d \in Conn : session[d].file_path \in Nat /\ session[d].file_path <= files
    BY <1>0 DEF StoreInv, TypeOK, SessionType
  <2> QED
    BY <1>0, <1>1, <1>3, <2>1
<1>9. WholeOrEnded'
  <2>1. ASSUME NEW f \in store', exc' \notin {"AttributeError", "OSError"}, NEW b \in AllBoxes(f.to)
        PROVE  \E g \in store' : g.box = b /\ g.file = f.file
    <3>1. CASE f \in store
      BY <1>2, <2>1, <3>1 DEF StoreInv, WholeOrEnded
    <3>2. CASE f \notin store
      <4>0. out.torn = {}
        BY <1>2, <1>4, <2>1
      <4>1. PICK b0 \in out.boxes : f = Rec(b0)
        BY <1>2, <3>2, <4>0
      <4>2. ~Refused(s.to) /\ out.exc = "none"
        BY <1>2, <1>4, <2>1, <4>1
      <4>3. b \in out.boxes
        BY <1>4, <1>6, <2>1, <4>1, <4>2
      <4>4. Rec(b) \in store'
        BY <1>2, <4>3
      <4> QED
        BY <1>6, <4>1, <4>4
    <3> QED
      BY <3>1, <3>2
  <2> QED
    BY <2>1 DEF WholeOrEnded
<1>10. \A d \in Conn : QueuedStored(session'[d], store', exc')
  <2>1. ASSUME NEW d \in Conn \ {c}
        PROVE  QueuedStored(session'[d], store', exc')
    <3>1. session[d].file_path \in Nat /\ session[d].file_path <= files
      BY <1>0 DEF StoreInv, TypeOK, SessionType
    <3>2. Copies(session'[d], store') = Copies(session[d], store)
      <4>1. \A g \in store' : g.file = session[d].file_path => g \in store
        BY <1>0, <1>2, <1>6, <3>1
      <4>2. \A g : g = [ box |-> g.box, file |-> session[d].file_path, from_ |-> session[d].from_,
                         to |-> session[d].to, body |-> session[d].body ]
                   => g.file = session[d].file_path
        OBVIOUS
      <4>3. { g \in store' :
                g = [ box |-> g.box, file |-> session[d].file_path, from_ |-> session[d].from_,
                      to |-> session[d].to, body |-> session[d].body ] } =
            { g \in store :
                g = [ box |-> g.box, file |-> session[d].file_path, from_ |-> session[d].from_,
                      to |-> session[d].to, body |-> session[d].body ] }
        BY <1>2, <4>1, <4>2
      <4> QED
        BY <1>3, <4>3 DEF Copies
    <3>3. QueuedStored(session[d], store, exc)
      BY QueuedEach DEF StoreInv
    <3> QED
      BY <1>3, <3>2, <3>3 DEF QueuedStored
  <2>2. out.torn = {} => Copies(session'[c], store') = out.boxes
    <3> SUFFICES ASSUME out.torn = {}
                 PROVE  Copies(session'[c], store') = out.boxes
      OBVIOUS
    <3>1. \A g \in store' :
            g = [ box |-> g.box, file |-> files + 1, from_ |-> s.from_,
                  to |-> s.to, body |-> body ] <=> \E b \in out.boxes : g = Rec(b)
      <4>1. ASSUME NEW g \in store, g.file = files + 1
            PROVE  FALSE
        BY <1>0, <1>5, <4>1
      <4> HIDE DEF body, s
      <4>2. \A b : Rec(b) = [ box |-> Rec(b).box, file |-> files + 1, from_ |-> s.from_,
                              to |-> s.to, body |-> body ]
        BY DEF Rec, Copy
      <4> QED
        BY <1>2, <4>1, <4>2
    <3>2. Copies(session'[c], store') =
            { f.box : f \in { g \in store' : \E b \in out.boxes : g = Rec(b) } }
      BY <1>3, <3>1 DEF Copies
    <3>3. \A b \in out.boxes : Rec(b) \in store' /\ Rec(b).box = b
      BY <1>2, <1>6
    <3> QED
      BY <1>6, <3>2, <3>3
  <2>3. QueuedStored(session'[c], store', exc')
    <3>1. out.exc # "none" => exc' \in {"AttributeError", "OSError"}
      BY <1>2, <1>4
    <3> QED
      BY <1>3, <1>4, <2>2, <3>1 DEF QueuedStored
  <2> QED
    BY <2>1, <2>3
<1> QED
  BY <1>7, <1>8, <1>9, <1>10, QueuedEach DEF StoreInv

(* The loop is at an end once an exception was raised.                     *)
LEMMA RaisedEnds ==
  ASSUME exc # "none" => pc = "ended", [Next]_vars
  PROVE  exc' # "none" => pc' = "ended"
<1>1. CASE UNCHANGED <<pc, exc>>
  BY <1>1
<1>2. CASE exc' # exc \/ pc' # pc
  <2>1. ASSUME NEW c, handle_client_read(c) \/ handle_client_write(c)
        PROVE  UNCHANGED <<pc, exc>> \/ pc' = "ended"
    BY <2>1 DEF handle_client_read, ReadCommand, ReadMailFrom, ReadRecipient, ReadDataStart,
                ReadDataAdditional, ReadDataEnd, ReadDropped, ReadEof, ReadFails, Fire, Raise,
                handle_client_write, WriteNothing, WriteFails, WriteReply
  <2>2. ASSUME NEW c, \/ Lookup(c, handle_client_read(c)) \/ Lookup(c, handle_client_write(c))
        PROVE  UNCHANGED <<pc, exc>> \/ pc' = "ended"
    BY <2>1, <2>2 DEF Lookup, Raise
  <2>3. CASE Outside \/ UNCHANGED vars
    BY <1>2, <2>3 DEF Outside, Connect, TakenElsewhere, ClientSend, ClientRecv, ClientClose,
                      vars, local
  <2>4. CASE run \/ Interrupt
    BY <1>2, <2>2, <2>4 DEF run, Select, Accept, AcceptTimeout, ReadsDone, WritesDone, Handle,
                            Interrupt, Raise
  <2> QED
    BY <2>3, <2>4 DEF Next
<1> QED
  BY <1>1, <1>2

LEMMA StoreStep == StoreInv /\ [Next]_vars => StoreInv'
<1> SUFFICES ASSUME StoreInv, [Next]_vars
             PROVE  StoreInv'
  OBVIOUS
<1>0. ListInv /\ ListInv' /\ TypeOK
  BY ListStep DEF StoreInv, ListInv
<1>1. exc' # "none" => pc' = "ended"
  BY RaisedEnds DEF StoreInv
<1>2. \A d \in Conn : session[d].file_path \in Nat /\ session[d].file_path <= files /\ files \in Nat
  BY <1>0 DEF StoreInv, TypeOK, SessionType
<1>3. CASE Quiet
  <2>1. UNCHANGED <<store, files, session>> /\ (UNCHANGED exc \/ exc = "none")
    BY <1>3 DEF Quiet, StoreInv
  <2> QED
    BY <1>0, <1>1, <1>2, <2>1, StoreKept
<1>4. CASE Accept
  <2>1. UNCHANGED <<store, files, exc>>
    BY <1>0, <1>4, AcceptEffect
  <2>2. \A d \in Conn : session'[d] = session[d] \/ session'[d] = NewSession
    BY <1>0, <1>4, AcceptEffect DEF TypeOK
  <2>3. NewSession.state = "greeting_write" /\ NewSession.file_path = 0
    BY DEF NewSession
  <2> QED
    BY <1>0, <1>1, <1>2, <2>1, <2>2, <2>3, StoreKept
<1>5. ASSUME NEW c \in Conn, pc = "reads", handle_client_read(c)
      PROVE  StoreInv'
  <2>0. exc = "none" /\ session[c] \in SessionType
    BY <1>0, <1>5 DEF StoreInv, TypeOK
  <2>1. CASE HearsEnd(c)
    BY <1>0, <1>1, <2>0, <2>1, StoreEnd
  <2>2. CASE HearsNothing(c)
    BY <1>0, <1>1, <1>2, <2>0, <2>2, StoreKept DEF HearsNothing
  <2>3. CASE HearsCommand(c) \/ HearsSender(c) \/ HearsRecipient(c) \/ HearsStart(c) \/ HearsMore(c)
    <3>1. UNCHANGED <<store, files, exc>>
      BY <2>3 DEF HearsCommand, HearsSender, HearsRecipient, HearsStart, HearsMore
    <3>2. \A d \in Conn \ {c} : session'[d] = session[d]
      BY <1>0, <2>3, HeardOthers
    <3>3. /\ session'[c].file_path = session[c].file_path
          /\ session'[c].state \notin {"data_end_write", "quit"}
      BY <1>0, <2>3, HeardFields
    <3> QED
      BY <1>0, <1>1, <1>2, <3>1, <3>2, <3>3, StoreKept
  <2> QED
    BY <1>0, <1>5, <2>1, <2>2, <2>3, ReadEffect
<1>6. ASSUME NEW c \in Conn, WriteReply(c)
      PROVE  StoreInv'
  <2>1. PICK trigger, dest :
          /\ Reply(session[c].state, trigger, dest)
          /\ session' = [session EXCEPT ![c] = [session[c] EXCEPT !.state = dest]]
    BY <1>0, <1>6, ReplyEffect
  <2>2. UNCHANGED <<store, files, exc>>
    BY <1>0, <1>6, ReplyEffect
  <2>3. \A d \in Conn \ {c} : session'[d] = session[d]
    BY <1>0, <2>1 DEF TypeOK
  <2>4. /\ session'[c].state = dest
        /\ session'[c].to = session[c].to
        /\ session'[c].from_ = session[c].from_
        /\ session'[c].body = session[c].body
        /\ session'[c].file_path = session[c].file_path
    <3>1. session[c] \in SessionType /\ session'[c] = [session[c] EXCEPT !.state = dest]
      BY <1>0, <2>1 DEF TypeOK
    <3> QED
      BY <3>1 DEF SessionType
  <2>5. dest \in {"data_end_write", "quit"} => session[c].state = "data_end_write"
    BY <2>1 DEF Reply
  <2> QED
    BY <1>0, <1>1, <1>2, <2>2, <2>3, <2>4, <2>5, StoreKept
<1> QED
  BY <1>0, <1>3, <1>4, <1>5, <1>6, StepEffect

(* A mail that is missing from one of its boxes was broken off by an       *)
(* exception of to_file, which also ended the process: whatever clients    *)
(* send, and whenever a directory or a file cannot be written.             *)
THEOREM MailIsWholeOrEnded == Spec => []WholeOrEnded
<1>1. StoreInv => WholeOrEnded
  BY DEF StoreInv
<1> QED
  BY <1>1, StoreInit, StoreStep, PTL DEF Spec

(* When "queued" is due or was said, the mail lies in all of its boxes as  *)
(* the session holds it, unless to_file refused it or broke off.           *)
THEOREM QueuedMailIsStored == Spec => []QueuedIsStored
<1>1. StoreInv => QueuedIsStored
  BY DEF StoreInv
<1> QED
  BY <1>1, StoreInit, StoreStep, PTL DEF Spec

-----------------------------------------------------------------------------
(* What the client has been asked and told.                                *)

(* The socket has room for every reply that a script can earn: the         *)
(* greeting and one for each piece.  Without it a reply can stay due while *)
(* the next line is read, and RSET then takes its place.                   *)
RoomForReplies == \A s \in Script : Len(s) + 1 < SndBuf

(* No reply is due but the greeting. *)
Waits(c) == Owes(session[c].state) => session[c].state = "greeting_write"

(* Whoever is read is written to in the same turn of the loop, so nothing  *)
(* is read of a client that has a reply to come.                           *)
TurnInv ==
  /\ SpokenInv
  /\ pc \in {"select", "accept"} => \A c \in clients : Waits(c)
  /\ pc \in {"accept", "reads"} => rfds \subseteq wfds
  /\ pc = "reads" => \A c \in rfds : Waits(c)
  /\ pc \in {"reads", "writes"} => \A c \in clients \ wfds : Waits(c)

LEMMA TurnInit == Init => TurnInv
BY SpokenInit DEF Init, TurnInv

(* Every client is writable. *)
LEMMA AllWritable ==
  ASSUME RoomForReplies, SpokenInv, NEW c \in Conn
  PROVE  writable(c)
<1>1. TypeOK /\ SpokenTo
  BY DEF SpokenInv, ListInv
<1>2. /\ script[c] \in Script /\ Len(script[c]) \in Nat
      /\ got[c] \in Nat /\ sent[c] \in Nat /\ seen[c] \in Nat /\ SndBuf \in Nat
      /\ got[c] <= sent[c] /\ sent[c] <= Len(script[c])
  BY <1>1, WorkerAssumption, LenProperties DEF TypeOK
<1>3. Len(outbox[c]) \in Nat
  BY <1>1, LenProperties DEF TypeOK
<1>4. Len(outbox[c]) <= 1 + got[c]
  BY <1>1, <1>2, <1>3, SpokenDue
<1> QED
  BY SMTT(40), <1>2, <1>3, <1>4 DEF writable, RoomForReplies

(* The reading of one client. *)
LEMMA TurnRead ==
  ASSUME TurnInv, SpokenInv', NEW c \in rfds, pc = "reads", handle_client_read(c)
  PROVE  TurnInv'
<1>0. c \in Conn /\ TypeOK /\ ListInv /\ c \in clients
  BY DEF TurnInv, SpokenInv, ListInv, TypeOK
<1>1. rfds' = rfds \ {c} /\ UNCHANGED <<clients, wfds>> /\ pc' \in {"reads", "ended"}
  BY <1>0, ReadLists, ReadSound
<1>2. \A d \in Conn \ {c} : session'[d] = session[d]
  BY <1>0, ReadEffect, HeardOthers
<1>3. \A d \in Conn \ {c} : Waits(d) => Waits(d)'
  BY <1>2 DEF Waits
<1>4. rfds \subseteq Conn /\ clients \subseteq Conn /\ c \in wfds
  BY <1>0 DEF TypeOK, TurnInv
<1> QED
  BY <1>1, <1>3, <1>4 DEF TurnInv

(* The writing to one client. *)
LEMMA TurnWrite ==
  ASSUME TurnInv, SpokenInv', NEW c \in clients, handle_client_write(c)
  PROVE  TurnInv'
<1>0. c \in Conn /\ TypeOK /\ ListInv /\ clients \subseteq Conn
  BY DEF TurnInv, SpokenInv, ListInv, TypeOK
<1>1. CASE WriteNothing(c)
  <2>1. /\ pc' = "writes" /\ wfds' = wfds \ {c} /\ UNCHANGED <<clients, session>>
        /\ Waits(c)
    BY <1>1 DEF WriteNothing, Writing, Waits
  <2> QED
    BY <1>1, <2>1 DEF TurnInv, Waits, WriteNothing, Writing
<1>2. CASE WriteFails(c)
  BY <1>2 DEF TurnInv, WriteFails, Raise
<1>3. CASE WriteReply(c)
  <2>1. /\ pc = "writes" /\ pc' = "writes" /\ wfds' = wfds \ {c} /\ clients' \subseteq clients
        /\ \E trigger, dest :
             /\ Reply(session[c].state, trigger, dest)
             /\ session' = [session EXCEPT ![c] = [session[c] EXCEPT !.state = dest]]
    BY <1>0, <1>3, ReplyEffect
  <2>2. /\ session'[c].state \in {"helo", "mail_from", "rcpt_to", "data", "quit", "finish"}
        /\ \A d \in Conn \ {c} : session'[d] = session[d]
    BY <1>0, <2>1 DEF TypeOK, SessionType, Reply
  <2>3. Waits(c)'
    <3>1. ~Owes(session'[c].state)
      BY <2>2, OwesWrite DEF State
    <3> QED
      BY <3>1 DEF Waits
  <2>4. \A d \in Conn \ {c} : Waits(d) => Waits(d)'
    BY <2>2 DEF Waits
  <2> QED
    BY <1>0, <2>1, <2>3, <2>4 DEF TurnInv
<1> QED
  BY <1>1, <1>2, <1>3 DEF handle_client_write

LEMMA TurnStep ==
  ASSUME RoomForReplies
  PROVE  TurnInv /\ [Next]_vars => TurnInv'
<1> SUFFICES ASSUME TurnInv, [Next]_vars
             PROVE  TurnInv'
  OBVIOUS
<1>0. SpokenInv /\ SpokenInv' /\ ListInv /\ TypeOK
  BY SpokenStep DEF TurnInv, SpokenInv, ListInv
<1>1. CASE Outside \/ UNCHANGED vars
  <2>1. UNCHANGED <<pc, clients, rfds, wfds, session>>
    BY <1>1 DEF Outside, Connect, TakenElsewhere, ClientSend, ClientRecv, ClientClose, vars, local
  <2> QED
    BY <1>0, <2>1 DEF TurnInv, Waits
<1>2. CASE Select
  <2>1. \A c \in clients : writable(c) /\ c \in Conn
    BY <1>0, AllWritable DEF TypeOK
  <2>2. /\ wfds' = clients /\ rfds' \subseteq clients /\ pc = "select"
        /\ pc' \in {"accept", "reads"} /\ UNCHANGED <<clients, session>>
    BY <1>2, <2>1 DEF Select
  <2> QED
    BY <1>0, <2>2 DEF TurnInv, Waits
<1>3. CASE Accept
  <2>1. PICK h \in Conn :
          /\ session' = [session EXCEPT ![h] = NewSession]
          /\ clients' = clients \cup {h}
    BY <1>0, <1>3, AcceptEffect
  <2>2. pc = "accept" /\ pc' = "reads" /\ UNCHANGED <<rfds, wfds>>
    BY <1>0, <1>3, AcceptEffect
  <2>3. Waits(h)'
    <3>1. session'[h].state = "greeting_write"
      BY <1>0, <2>1 DEF TypeOK, NewSession
    <3> QED
      BY <3>1 DEF Waits
  <2>4. \A d \in Conn \ {h} : Waits(d) => Waits(d)'
    BY <1>0, <2>1 DEF TypeOK, Waits
  <2>5. rfds \subseteq clients /\ clients \subseteq Conn
    BY <1>0 DEF ListInv, TypeOK
  <2> QED
    BY <1>0, <2>1, <2>2, <2>3, <2>4, <2>5 DEF TurnInv
<1>4. CASE AcceptTimeout \/ Interrupt
  BY <1>0, <1>4 DEF AcceptTimeout, Interrupt, Raise, TurnInv
<1>5. CASE ReadsDone
  BY <1>0, <1>5 DEF ReadsDone, TurnInv, Waits
<1>6. CASE WritesDone
  BY <1>0, <1>6 DEF WritesDone, TurnInv, Waits
<1>7. CASE Handle
  <2>1. ASSUME pc = "reads", NEW c \in rfds, Lookup(c, handle_client_read(c))
        PROVE  TurnInv'
    BY <1>0, <2>1, TurnRead DEF Lookup, ListInv
  <2>2. ASSUME pc = "writes", NEW c \in wfds, Lookup(c, handle_client_write(c))
        PROVE  TurnInv'
    BY <1>0, <2>2, TurnWrite DEF Lookup, ListInv
  <2> QED
    BY <1>7, <2>1, <2>2 DEF Handle
<1> QED
  BY <1>1, <1>2, <1>3, <1>4, <1>5, <1>6, <1>7 DEF Next, run

(* How often a reply stands in a sequence of them. *)
Count(replies, trigger) == Cardinality({i \in DOMAIN replies : replies[i].trigger = trigger})

LEMMA CountTyped ==
  ASSUME NEW S, NEW replies \in Seq(S), NEW trigger
  PROVE  /\ IsFiniteSet({i \in DOMAIN replies : replies[i].trigger = trigger})
         /\ Count(replies, trigger) \in Nat
<1> DEFINE T == {i \in DOMAIN replies : replies[i].trigger = trigger}
<1>1. DOMAIN replies = 1..Len(replies) /\ Len(replies) \in Nat
  BY LenProperties
<1>2. IsFiniteSet(DOMAIN replies)
  BY <1>1, FS_Interval
<1>3. T \in SUBSET (DOMAIN replies)
  OBVIOUS
<1>4. IsFiniteSet(T)
  BY <1>2, <1>3, FS_Subset
<1> QED
  BY <1>4, FS_CardinalityType DEF Count

(* One more reply counts once, for its own trigger. *)
LEMMA CountAppend ==
  ASSUME NEW S, NEW replies \in Seq(S), NEW reply \in S, NEW trigger
  PROVE  Count(Append(replies, reply), trigger) =
           Count(replies, trigger) + (IF reply.trigger = trigger THEN 1 ELSE 0)
<1> DEFINE T(o) == {i \in DOMAIN o : o[i].trigger = trigger}
           n == Len(replies) + 1
<1>1. /\ DOMAIN replies = 1..Len(replies) /\ Len(replies) \in Nat
      /\ DOMAIN Append(replies, reply) = 1..n
      /\ \A i \in 1..Len(replies) : Append(replies, reply)[i] = replies[i]
      /\ Append(replies, reply)[n] = reply
  BY AppendProperties, LenProperties
<1>2. IsFiniteSet(T(replies)) /\ Count(replies, trigger) \in Nat
  BY CountTyped
<1>3. n \notin T(replies)
  BY <1>1
<1>4. CASE reply.trigger = trigger
  <2>1. T(Append(replies, reply)) = T(replies) \cup {n}
    BY <1>1, <1>4
  <2> QED
    BY <1>2, <1>3, <1>4, <2>1, FS_AddElement DEF Count
<1>5. CASE reply.trigger # trigger
  <2>1. T(Append(replies, reply)) = T(replies)
    BY <1>1, <1>5
  <2>2. Count(Append(replies, reply), trigger) = Count(replies, trigger)
    BY <2>1 DEF Count
  <2> QED
    BY <1>2, <1>5, <2>2
<1> QED
  BY <1>4, <1>5

(* RecipientsAnswered, one connection at a time.                           *)
Answered(s, replies) ==
  Len(s.to) <= Count(replies, "RCPT_TO_write")
               + (IF s.state = "rcpt_to_write" THEN 1 ELSE 0)

LEMMA AnsweredEach ==
  /\ RecipientsAnswered <=> \A c \in Conn : Answered(session[c], outbox[c])
  /\ RecipientsAnswered' <=> \A c \in Conn : Answered(session'[c], outbox'[c])
BY DEF RecipientsAnswered, Answered, Told, Count

(* The recipients of a session and the replies to it, after each step.     *)
LEMMA AnsweredStep ==
  ASSUME TurnInv, [Next]_vars, NEW c \in Conn, Answered(session[c], outbox[c])
  PROVE  Answered(session'[c], outbox'[c])
<1>0. /\ TypeOK /\ ListInv /\ TypeOK' /\ session[c] \in SessionType
      /\ outbox[c] \in Seq(ReplyType)
      /\ Count(outbox[c], "RCPT_TO_write") \in Nat
      /\ Len(session[c].to) \in Nat /\ session[c].to \in Seq(Path)
  BY TypeStep, CountTyped, LenProperties DEF TurnInv, SpokenInv, ListInv, TypeOK, SessionType
<1>1. CASE session'[c] = session[c] /\ outbox'[c] = outbox[c]
  BY <1>1
<1>2. CASE Accept
  <2>1. outbox' = outbox /\ (session'[c] = session[c] \/ session'[c] = NewSession)
    BY <1>0, <1>2, AcceptEffect DEF TypeOK
  <2>2. Len(NewSession.to) = 0
    BY DEF NewSession
  <2> QED
    BY <1>0, <1>1, <2>1, <2>2 DEF Answered
<1>3. ASSUME NEW d \in Conn \cap rfds, pc = "reads", handle_client_read(d)
      PROVE  Answered(session'[c], outbox'[c])
  <2>1. outbox' = outbox
    BY <1>0, <1>3, ReadPays
  <2>2. CASE d # c
    BY <1>0, <1>1, <1>3, <2>1, <2>2, ReadEffect, HeardOthers
  <2>3. CASE d = c
    <3>1. session[c].state # "rcpt_to_write"
      BY <1>0, <1>3, <2>3, OwesWrite DEF TurnInv, Waits, SessionType
    <3>2. CASE HearsNothing(c)
      BY <1>1, <2>1, <3>2 DEF HearsNothing
    <3>3. CASE HearsRecipient(c)
      <4>1. /\ session'[c].state = "rcpt_to_write"
            /\ session'[c].to = Append(session[c].to, Path_group(Received(c), "RCPT"))
        BY <1>0, <3>3, HeardFields
      <4>2. Len(session'[c].to) = Len(session[c].to) + 1
        <5>1. session'[c].to \in Seq(Path)
          BY <1>0 DEF TypeOK, SessionType
        <5> QED
          BY <1>0, <4>1, <5>1
      <4> QED
        BY <1>0, <2>1, <3>1, <4>1, <4>2 DEF Answered
    <3>4. CASE HearsCommand(c) \/ HearsSender(c) \/ HearsStart(c) \/ HearsMore(c) \/ HearsEnd(c)
      <4>1. session'[c].to = session[c].to /\ session'[c].state # "rcpt_to_write"
        BY <1>0, <3>4, HeardFields
      <4> QED
        BY <1>0, <2>1, <3>1, <4>1 DEF Answered
    <3> QED
      BY <1>0, <1>3, <2>3, <3>2, <3>3, <3>4, ReadEffect
  <2> QED
    BY <2>2, <2>3
<1>4. ASSUME NEW d \in Conn \cap clients, WriteReply(d)
      PROVE  Answered(session'[c], outbox'[c])
  <2>1. PICK trigger, dest :
          /\ Reply(session[d].state, trigger, dest)
          /\ trigger \in {WriteTrigger[s] : s \in State}
          /\ session' = [session EXCEPT ![d] = [session[d] EXCEPT !.state = dest]]
          /\ outbox' = [outbox EXCEPT ![d] =
               Append(outbox[d], [trigger |-> trigger, file_path |-> session[d].file_path])]
    BY <1>0, <1>4, ReplyEffect
  <2>2. CASE d # c
    BY <1>0, <1>1, <2>1, <2>2 DEF TypeOK
  <2>3. CASE d = c
    <3> DEFINE reply == [trigger |-> trigger, file_path |-> session[c].file_path]
    <3>1. session'[c].to = session[c].to /\ session'[c].state = dest
      <4>1. session'[c] = [session[c] EXCEPT !.state = dest]
        BY <1>0, <2>1, <2>3 DEF TypeOK
      <4> QED
        BY <1>0, <4>1 DEF SessionType
    <3>2. outbox'[c] = Append(outbox[c], reply) /\ reply \in ReplyType
      BY <1>0, <2>1, <2>3 DEF TypeOK, SessionType, ReplyType
    <3>3. Count(outbox'[c], "RCPT_TO_write") =
            Count(outbox[c], "RCPT_TO_write") + (IF trigger = "RCPT_TO_write" THEN 1 ELSE 0)
      <4>1. reply.trigger = trigger
        OBVIOUS
      <4> HIDE DEF reply
      <4> QED
        BY <1>0, <3>2, <4>1, CountAppend
    <3>4. session[c].state = "rcpt_to_write" <=> trigger = "RCPT_TO_write"
      BY <2>1, <2>3 DEF Reply
    <3>5. dest # "rcpt_to_write"
      BY <2>1 DEF Reply
    <3> QED
      BY <1>0, <3>1, <3>3, <3>4, <3>5 DEF Answered
  <2> QED
    BY <2>2, <2>3
<1> QED
  BY <1>0, <1>1, <1>2, <1>3, <1>4, StepEffect DEF Quiet

AnsweredInv == TurnInv /\ RecipientsAnswered

LEMMA AnsweredInit == Init => AnsweredInv
<1> SUFFICES ASSUME Init
             PROVE  AnsweredInv
  OBVIOUS
<1>1. TurnInv /\ TypeOK
  BY TurnInit, TypeInit
<1>2. \A c \in Conn : Count(outbox[c], "RCPT_TO_write") \in Nat
  BY <1>1, CountTyped DEF TypeOK
<1>3. \A c \in Conn : session[c].state = "greeting_write" /\ Len(session[c].to) = 0
  BY DEF Init, NewSession
<1>4. RecipientsAnswered
  BY <1>2, <1>3, AnsweredEach DEF Answered
<1> QED
  BY <1>1, <1>4 DEF AnsweredInv

(* A session holds no more recipients than it has answered, or is about to *)
(* answer, as long as the socket has room for the replies.                 *)
THEOREM RecipientsAreAnswered ==
  ASSUME RoomForReplies
  PROVE  Spec => []RecipientsAnswered
<1>1. AnsweredInv /\ [Next]_vars => AnsweredInv'
  <2> SUFFICES ASSUME AnsweredInv, [Next]_vars
               PROVE  AnsweredInv'
    OBVIOUS
  <2>1. TurnInv /\ TurnInv'
    BY TurnStep DEF AnsweredInv
  <2>2. \A c \in Conn : Answered(session'[c], outbox'[c])
    BY <2>1, AnsweredEach, AnsweredStep DEF AnsweredInv
  <2> QED
    BY <2>1, <2>2, AnsweredEach DEF AnsweredInv
<1>2. AnsweredInv => RecipientsAnswered
  BY DEF AnsweredInv
<1> QED
  BY <1>1, <1>2, AnsweredInit, PTL DEF Spec

-----------------------------------------------------------------------------
(* The 354 and the message.                                                *)

(* A 354 was sent, and since then neither "queued" nor a reply to HELO.    *)
Asked(replies) ==
  \E j \in 1..Len(replies) :
    /\ replies[j].trigger = "DATA_start_write"
    /\ \A k \in (j + 1)..Len(replies) :
         replies[k].trigger \notin {"DATA_end_write", "HELO_write"}

(* What QueuedAfter354 says of the replies to one connection. *)
AskedFirst(replies) ==
  \A i \in 1..Len(replies) :
    replies[i].trigger = "DATA_end_write" =>
      \E j \in 1..(i - 1) :
        /\ replies[j].trigger = "DATA_start_write"
        /\ \A k \in (j + 1)..(i - 1) :
             replies[k].trigger \notin {"DATA_end_write", "HELO_write"}

(* Whose flag is set has been asked, or is about to be: a message cannot   *)
(* end unless the flag is set, and its end clears it.                      *)
MessageAsked(s, replies, e) ==
  /\ s.data_start_already_matched /\ e = "none" =>
       \/ s.state = "data_write"
       \/ s.state \in {"data", "rcpt_to_write"} /\ Asked(replies)
  /\ s.state = "data_end_write" => Asked(replies)

MessageInv ==
  /\ TurnInv
  /\ exc # "none" => pc = "ended"
  /\ \A c \in Conn : /\ AskedFirst(outbox[c])
                     /\ MessageAsked(session[c], outbox[c], exc)

LEMMA AskedAppend ==
  ASSUME NEW S, NEW replies \in Seq(S), NEW reply \in S
  PROVE  /\ reply.trigger = "DATA_start_write" => Asked(Append(replies, reply))
         /\ reply.trigger \notin {"DATA_end_write", "HELO_write"} /\ Asked(replies)
              => Asked(Append(replies, reply))
         /\ AskedFirst(replies) /\ (reply.trigger = "DATA_end_write" => Asked(replies))
              => AskedFirst(Append(replies, reply))
<1> DEFINE new == Append(replies, reply)
           n == Len(replies)
<1>1. /\ n \in Nat /\ Len(new) = n + 1
      /\ \A i \in 1..n : new[i] = replies[i]
      /\ new[n + 1] = reply
  BY AppendProperties, LenProperties
<1> HIDE DEF new, n
<1>2. reply.trigger = "DATA_start_write" => Asked(new)
  BY <1>1 DEF Asked
<1>3. ASSUME reply.trigger \notin {"DATA_end_write", "HELO_write"}, Asked(replies)
      PROVE  Asked(new)
  <2>1. PICK j \in 1..n :
          /\ replies[j].trigger = "DATA_start_write"
          /\ \A k \in (j + 1)..n : replies[k].trigger \notin {"DATA_end_write", "HELO_write"}
    BY <1>3 DEF Asked, n
  <2>2. \A k \in (j + 1)..(n + 1) : new[k].trigger \notin {"DATA_end_write", "HELO_write"}
    BY <1>1, <1>3, <2>1
  <2> QED
    BY <1>1, <2>1, <2>2 DEF Asked
<1>4. ASSUME AskedFirst(replies), reply.trigger = "DATA_end_write" => Asked(replies)
      PROVE  AskedFirst(new)
  <2>1. ASSUME NEW i \in 1..(n + 1), new[i].trigger = "DATA_end_write"
        PROVE  \E j \in 1..(i - 1) :
                 /\ new[j].trigger = "DATA_start_write"
                 /\ \A k \in (j + 1)..(i - 1) :
                      new[k].trigger \notin {"DATA_end_write", "HELO_write"}
    <3>1. PICK j \in 1..(i - 1) :
            /\ replies[j].trigger = "DATA_start_write"
            /\ \A k \in (j + 1)..(i - 1) :
                 replies[k].trigger \notin {"DATA_end_write", "HELO_write"}
      <4>1. CASE i = n + 1
        BY <1>1, <1>4, <2>1, <4>1 DEF Asked, n
      <4>2. CASE i \in 1..n
        BY <1>1, <1>4, <2>1, <4>2 DEF AskedFirst, n
      <4> QED
        BY <1>1, <4>1, <4>2
    <3>2. \A k \in 1..(i - 1) : new[k] = replies[k]
      BY <1>1
    <3> QED
      BY <1>1, <3>1, <3>2
  <2> QED
    BY <1>1, <2>1 DEF AskedFirst
<1> QED
  BY <1>2, <1>3, <1>4 DEF new

LEMMA MessageStep ==
  ASSUME MessageInv, [Next]_vars, NEW c \in Conn, exc' # "none" => pc' = "ended"
  PROVE  AskedFirst(outbox'[c]) /\ MessageAsked(session'[c], outbox'[c], exc')
<1>0. /\ TypeOK /\ ListInv /\ session[c] \in SessionType
      /\ outbox[c] \in Seq(ReplyType) /\ TurnInv
      /\ AskedFirst(outbox[c]) /\ MessageAsked(session[c], outbox[c], exc)
  BY DEF MessageInv, TurnInv, SpokenInv, ListInv, TypeOK
<1>1. CASE /\ session'[c] = session[c] /\ outbox'[c] = outbox[c]
           /\ exc = "none" \/ exc' = exc
  BY <1>0, <1>1 DEF MessageAsked
<1>2. CASE Quiet
  BY <1>1, <1>2 DEF Quiet, MessageInv
<1>3. CASE Accept
  <2>1. /\ outbox' = outbox /\ exc' = exc
        /\ session'[c] = session[c] \/ session'[c] = NewSession
    BY <1>0, <1>3, AcceptEffect DEF TypeOK
  <2>2. NewSession.state = "greeting_write" /\ ~NewSession.data_start_already_matched
    BY DEF NewSession
  <2> QED
    BY <1>0, <1>1, <2>1, <2>2 DEF MessageAsked
<1>4. ASSUME NEW d \in Conn \cap rfds, pc = "reads", handle_client_read(d)
      PROVE  AskedFirst(outbox'[c]) /\ MessageAsked(session'[c], outbox'[c], exc')
  <2>1. outbox' = outbox /\ exc = "none"
    BY <1>0, <1>4, ReadPays DEF MessageInv
  <2>2. CASE d # c
    BY <1>0, <1>1, <1>4, <2>1, <2>2, ReadEffect, HeardOthers
  <2>3. CASE d = c
    <3>1. session[c].state \notin {"rcpt_to_write", "data_write", "data_end_write"}
      BY <1>0, <1>4, <2>3, OwesWrite DEF TurnInv, Waits, SessionType
    <3>2. CASE HearsNothing(c)
      BY <1>1, <2>1, <3>2 DEF HearsNothing
    <3>3. CASE HearsCommand(c) \/ HearsSender(c)
      <4>1. session[c].state # "data"
        BY <3>3 DEF HearsCommand, HearsSender
      <4>2. ~session[c].data_start_already_matched
        BY <1>0, <2>1, <3>1, <4>1 DEF MessageAsked
      <4>3. /\ session'[c].data_start_already_matched = session[c].data_start_already_matched
            /\ session'[c].state # "data_end_write"
        BY <1>0, <3>3, HeardFields
      <4> QED
        BY <1>0, <2>1, <4>2, <4>3 DEF MessageAsked
    <3>4. CASE HearsRecipient(c) \/ HearsMore(c)
      <4>1. /\ session'[c].data_start_already_matched = session[c].data_start_already_matched
            /\ session'[c].state \in {"rcpt_to_write", "data"}
        BY <1>0, <3>4, HeardFields
      <4> QED
        BY <1>0, <2>1, <3>1, <4>1 DEF MessageAsked
    <3>5. CASE HearsStart(c)
      <4>1. session'[c].state = "data_write"
        BY <1>0, <3>5, HeardFields
      <4> QED
        BY <1>0, <2>1, <4>1 DEF MessageAsked
    <3>6. CASE HearsEnd(c)
      <4>1. /\ session'[c].state = "data_end_write"
            /\ session'[c].data_start_already_matched => exc' # "none"
        BY <1>0, <3>6, HeardFields
      <4>2. Asked(outbox[c])
        BY <1>0, <2>1, <3>6 DEF HearsEnd, MessageAsked
      <4> QED
        BY <1>0, <2>1, <4>1, <4>2 DEF MessageAsked
    <3> QED
      BY <1>0, <1>4, <2>3, <3>2, <3>3, <3>4, <3>5, <3>6, ReadEffect
  <2> QED
    BY <2>2, <2>3
<1>5. ASSUME NEW d \in Conn \cap clients, WriteReply(d)
      PROVE  AskedFirst(outbox'[c]) /\ MessageAsked(session'[c], outbox'[c], exc')
  <2>1. PICK trigger, dest :
          /\ Reply(session[d].state, trigger, dest)
          /\ trigger \in {WriteTrigger[s] : s \in State}
          /\ session' = [session EXCEPT ![d] = [session[d] EXCEPT !.state = dest]]
          /\ outbox' = [outbox EXCEPT ![d] =
               Append(outbox[d], [trigger |-> trigger, file_path |-> session[d].file_path])]
    BY <1>0, <1>5, ReplyEffect
  <2>2. pc = "writes" /\ exc' = exc /\ exc = "none"
    BY <1>0, <1>5, ReplyEffect DEF MessageInv
  <2>3. CASE d # c
    BY <1>0, <1>1, <2>1, <2>2, <2>3 DEF TypeOK
  <2>4. CASE d = c
    <3> DEFINE reply == [trigger |-> trigger, file_path |-> session[c].file_path]
    <3>1. /\ session'[c].data_start_already_matched = session[c].data_start_already_matched
          /\ session'[c].state = dest
      <4>1. session'[c] = [session[c] EXCEPT !.state = dest]
        BY <1>0, <2>1, <2>4 DEF TypeOK
      <4> QED
        BY <1>0, <4>1 DEF SessionType
    <3>2. outbox'[c] = Append(outbox[c], reply) /\ reply \in ReplyType
      BY <1>0, <2>1, <2>4 DEF TypeOK, SessionType, ReplyType
    <3>3. reply.trigger = trigger
      OBVIOUS
    <3> HIDE DEF reply
    <3>4. /\ trigger = "DATA_start_write" => Asked(outbox'[c])
          /\ trigger \notin {"DATA_end_write", "HELO_write"} /\ Asked(outbox[c])
               => Asked(outbox'[c])
          /\ (trigger = "DATA_end_write" => Asked(outbox[c])) => AskedFirst(outbox'[c])
      BY <1>0, <3>2, <3>3, AskedAppend
    <3>5. CASE session[c].state = "data_end_write"
      <4>1. trigger = "DATA_end_write" /\ dest = "quit" /\ Asked(outbox[c])
        BY <1>0, <2>1, <2>4, <3>5 DEF Reply, MessageAsked
      <4>2. ~session[c].data_start_already_matched
        BY <1>0, <2>2, <3>5 DEF MessageAsked
      <4> QED
        BY <3>1, <3>4, <4>1, <4>2 DEF MessageAsked
    <3>6. CASE session[c].state \in {"data_write", "rcpt_to_write"}
      <4>1. /\ dest = "data"
            /\ \/ trigger = "DATA_start_write"
               \/ trigger = "RCPT_TO_write" /\ session[c].state = "rcpt_to_write"
        BY <2>1, <2>4, <3>6 DEF Reply
      <4>2. session[c].data_start_already_matched => Asked(outbox'[c])
        BY <1>0, <2>2, <3>4, <4>1 DEF MessageAsked
      <4> QED
        BY <3>1, <3>4, <4>1, <4>2 DEF MessageAsked
    <3>7. CASE session[c].state \notin {"data_end_write", "data_write", "rcpt_to_write"}
      <4>1. dest # "data_end_write" /\ trigger # "DATA_end_write" /\ session[c].state # "data"
        BY <2>1, <2>4, <3>7 DEF Reply
      <4>2. ~session[c].data_start_already_matched
        BY <1>0, <2>2, <3>7, <4>1 DEF MessageAsked
      <4> QED
        BY <3>1, <3>4, <4>1, <4>2 DEF MessageAsked
    <3> QED
      BY <3>5, <3>6, <3>7
  <2> QED
    BY <2>3, <2>4
<1> QED
  BY <1>0, <1>2, <1>3, <1>4, <1>5, StepEffect

LEMMA MessageInit == Init => MessageInv
<1> SUFFICES ASSUME Init
             PROVE  MessageInv
  OBVIOUS
<1>1. /\ exc = "none"
      /\ \A c \in Conn : /\ Len(outbox[c]) = 0
                         /\ session[c].state = "greeting_write"
                         /\ ~session[c].data_start_already_matched
  BY DEF Init, NewSession
<1>2. \A c \in Conn : AskedFirst(outbox[c]) /\ MessageAsked(session[c], outbox[c], exc)
  BY <1>1 DEF AskedFirst, MessageAsked
<1> QED
  BY <1>1, <1>2, TurnInit DEF MessageInv

(* "queued" is said of no message the server has not asked for with a 354  *)
(* since the last "queued" and the last reply to HELO or RSET, as long as  *)
(* the socket has room for the replies.                                    *)
THEOREM QueuedAnswers354 ==
  ASSUME RoomForReplies
  PROVE  Spec => []QueuedAfter354
<1>1. MessageInv /\ [Next]_vars => MessageInv'
  <2> SUFFICES ASSUME MessageInv, [Next]_vars
               PROVE  MessageInv'
    OBVIOUS
  <2>1. TurnInv' /\ (exc' # "none" => pc' = "ended")
    BY TurnStep, RaisedEnds DEF MessageInv
  <2> QED
    BY <2>1, MessageStep DEF MessageInv
<1>2. MessageInv => QueuedAfter354
  <2> SUFFICES ASSUME MessageInv
               PROVE  QueuedAfter354
    OBVIOUS
  <2>1. \A c \in Conn : DOMAIN outbox[c] = 1..Len(outbox[c])
    BY LenProperties DEF MessageInv, TurnInv, SpokenInv, ListInv, TypeOK
  <2> QED
    BY <2>1 DEF MessageInv, AskedFirst, QueuedAfter354
<1> QED
  BY <1>1, <1>2, MessageInit, PTL DEF Spec

=============================================================================
