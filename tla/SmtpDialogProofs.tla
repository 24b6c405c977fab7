-------------------------- MODULE SmtpDialogProofs --------------------------
(***************************************************************************)
(* Proofs about SmtpDialog for any number of connections, any scripts and  *)
(* any sizes of the buffers, and with a disk that may fail.  What is proved*)
(* of a connection in Calm holds whatever is sent on the others, however   *)
(* they are cut.                                                           *)
(***************************************************************************)
EXTENDS SmtpDialog, WorkerLoopProofs

-----------------------------------------------------------------------------
(* A script of a dialog.                                                   *)

(* The dialog has its only DATA command at d, before the last two lines of *)
(* n; the lines around it are what IsDialog says of them.                  *)
BodyKind == {"HELO", "MAIL", "QUIT", "RSET", "TEXT", "SHORT"}

Shape(s, d, n) ==
  /\ n = Len(s) /\ n \in Nat /\ d \in 4..(n - 2)
  /\ s[1] = Plain("HELO") /\ s[2].kind = "MAIL"
  /\ \A i \in 3..(d - 1) : s[i].kind = "RCPT"
  /\ s[d] = Plain("DATA")
  /\ \A i \in (d + 1)..(n - 2) : s[i].kind \in BodyKind
  /\ s[n - 1] = Plain("DOT") /\ s[n] = Plain("QUIT")

(* DataAt finds the first DATA. *)
LEMMA DataAtFirst ==
  ASSUME NEW s \in Seq(Piece), NEW p \in 1..Len(s), s[p] = Plain("DATA"),
         \A q \in 1..(p - 1) : s[q] # Plain("DATA")
  PROVE  DataAt(s) = p
<1> DEFINE I == {i \in 1..Len(s) : s[i] = Plain("DATA")}
<1>1. p \in I /\ \A q \in I : p <= q
  OBVIOUS
<1>2. DataAt(s) = IF I # {} THEN Min(I) ELSE 0
  BY DEF DataAt, SelectInSeq
<1>3. Min(I) = p
  BY <1>1 DEF Min
<1> QED
  BY <1>1, <1>2, <1>3

LEMMA DialogShape ==
  ASSUME NEW s \in Seq(Piece), IsDialog(s)
  PROVE  Shape(s, DataAt(s), Len(s))
<1>1. Len(s) \in Nat /\ Len(s) > 5
  BY LenProperties DEF IsDialog
<1>2. PICK d \in 4..(Len(s) - 2) :
        /\ s[d] = Plain("DATA")
        /\ \A i \in 3..(d - 1) : s[i].kind = "RCPT"
        /\ \A i \in (d + 1)..(Len(s) - 2) :
             s[i].kind \in BodyKind
  BY DEF IsDialog, BodyKind
<1>3. \A k : Plain(k).kind = k
  BY DEF Plain
<1>4. /\ s[1] = Plain("HELO") /\ s[2].kind = "MAIL"
      /\ s[Len(s) - 1] = Plain("DOT") /\ s[Len(s)] = Plain("QUIT")
  BY DEF IsDialog
<1>5. \A q \in 1..(d - 1) : s[q] # Plain("DATA")
  <2> SUFFICES ASSUME NEW q \in 1..(d - 1)
               PROVE  s[q] # Plain("DATA")
    OBVIOUS
  <2>1. s[q].kind \in {"HELO", "MAIL", "RCPT"}
    <3>1. q = 1 \/ q = 2 \/ q \in 3..(d - 1)
      BY <1>1
    <3> QED
      BY <1>2, <1>3, <1>4, <3>1
  <2> QED
    BY <1>3, <2>1
<1>6. DataAt(s) = d
  BY <1>1, <1>2, <1>5, DataAtFirst
<1> QED
  BY <1>1, <1>2, <1>4, <1>6 DEF Shape

(* No piece of it continues a line, and none is a part of one.             *)
LEMMA NoneContinues ==
  ASSUME NEW s, NEW d, NEW n, Shape(s, d, n), NEW i \in 1..n
  PROVE  s[i].kind \notin {"REST", "LF", "PART", "STUB"}
<1>1. d \in Nat /\ n \in Nat /\ d >= 4 /\ d <= n - 2
  BY DEF Shape
<1>2. i = 1 \/ i = 2 \/ i \in 3..(d - 1) \/ i = d \/ i \in (d + 1)..(n - 2) \/ i = n - 1 \/ i = n
  BY <1>1
<1>3. \A k : Plain(k).kind = k
  BY DEF Plain
<1>4. s[i].kind \in BodyKind \cup {"RCPT", "DATA", "DOT"}
  <2>1. /\ s[1].kind = "HELO" /\ s[2].kind = "MAIL" /\ s[d].kind = "DATA"
        /\ s[n - 1].kind = "DOT" /\ s[n].kind = "QUIT"
        /\ \A j \in 3..(d - 1) : s[j].kind = "RCPT"
        /\ \A j \in (d + 1)..(n - 2) : s[j].kind \in BodyKind
    BY <1>3 DEF Shape
  <2> QED
    BY <1>2, <2>1 DEF BodyKind
<1> QED
  BY <1>4 DEF BodyKind

(* A client reads enough before it speaks: one reply more than it has sent *)
(* commands; and the reply to its message before it quits.                 *)
LEMMA AwaitedEnough ==
  ASSUME NEW s, NEW d, NEW n, Shape(s, d, n), d = DataAt(s), NEW i \in 1..n
  PROVE  /\ Awaited(s, i) \in Nat
         /\ i <= d + 1 => Awaited(s, i) >= i
         /\ i > d => Awaited(s, i) >= d + 1
         /\ i = n => Awaited(s, i) >= d + 2
<1>6. \A m \in Nat : IsFiniteSet(1..m) /\ Cardinality(1..m) = m
  BY FS_Interval
<1> DEFINE K == {j \in 1..(i - 1) : ~IsBody(s, j) /\ ~Continued(s, j)}
<1>0. d \in Nat /\ n \in Nat /\ d >= 4 /\ d <= n - 2 /\ n = Len(s)
  BY DEF Shape
<1>1. \A j \in 1..(i - 1) : j <= d \/ j = n - 1 => j \in K
  <2>1. \A j \in 1..(i - 1) : ~Continued(s, j)
    <3>1. \A j \in 1..(i - 1) : j + 1 \in 1..n
      BY <1>0
    <3> QED
      BY <3>1, NoneContinues DEF Continued
  <2> QED
    BY <1>0, <2>1 DEF IsBody
<1>2. IsFiniteSet(K) /\ Cardinality(K) \in Nat
  <2>1. IsFiniteSet(1..(i - 1)) /\ K \subseteq 1..(i - 1)
    BY FS_Interval
  <2> QED
    BY <2>1, FS_Subset, FS_CardinalityType
<1>3. Awaited(s, i) = 1 + Cardinality(K)
  BY DEF Awaited
<1>4. \A m \in Nat : m <= d /\ m <= i - 1 => Cardinality(K) >= m
  <2> SUFFICES ASSUME NEW m \in Nat, m <= d, m <= i - 1
               PROVE  Cardinality(K) >= m
    OBVIOUS
  <2>1. 1..m \subseteq K
    BY <1>0, <1>1
  <2>2. Cardinality(1..m) = m /\ IsFiniteSet(1..m)
    BY <1>6
  <2>3. Cardinality(1..m) <= Cardinality(K)
    <3> HIDE DEF K
    <3> QED
      BY <1>2, <2>1, FS_Subset
  <2> QED
    BY <1>2, <2>2, <2>3
<1>5. i = n => Cardinality(K) >= d + 1
  <2> SUFFICES ASSUME i = n
               PROVE  Cardinality(K) >= d + 1
    OBVIOUS
  <2> DEFINE J == (1..d) \cup {n - 1}
  <2>1. J \subseteq K
    BY <1>0, <1>1
  <2>2. Cardinality(J) = d + 1
    <3>1. Cardinality(1..d) = d /\ IsFiniteSet(1..d) /\ (n - 1) \notin 1..d
      BY <1>0, <1>6
    <3>2. Cardinality((1..d) \cup {n - 1}) = Cardinality(1..d) + 1
      BY ONLY <3>1, FS_AddElement
    <3> QED
      BY <3>1, <3>2
  <2>3. Cardinality(J) <= Cardinality(K)
    <3> HIDE DEF K, J
    <3> QED
      BY <1>2, <2>1, FS_Subset
  <2> QED
    BY <1>0, <1>2, <2>2, <2>3
<1> HIDE DEF K
<1> QED
  BY <1>0, <1>2, <1>3, <1>4, <1>5

(* The replies of a dialog by their number. *)
ReplyAt(d, i) ==
  CASE i = 1       -> "GREETING_write"
    [] i = 2       -> "HELO_write"
    [] i = 3       -> "MAIL_FROM_write"
    [] i \in 4..d  -> "RCPT_TO_write"
    [] i = d + 1   -> "DATA_start_write"
    [] i = d + 2   -> "DATA_end_write"
    [] i = d + 3   -> "QUIT_write"

Replies == { "GREETING_write", "HELO_write", "MAIL_FROM_write", "RCPT_TO_write",
             "DATA_start_write", "DATA_end_write", "QUIT_write" }

LEMMA Triple ==
  ASSUME NEW S, NEW a \in S, NEW b \in S, NEW c \in S
  PROVE  /\ <<a, b, c>> \in Seq(S) /\ Len(<<a, b, c>>) = 3
         /\ <<a, b, c>>[1] = a /\ <<a, b, c>>[2] = b /\ <<a, b, c>>[3] = c
OBVIOUS

LEMMA Repeated ==
  ASSUME NEW S, NEW n \in Nat, NEW e \in S
  PROVE  /\ [i \in 1..n |-> e] \in Seq(S) /\ Len([i \in 1..n |-> e]) = n
         /\ \A j \in 1..n : [i \in 1..n |-> e][j] = e
OBVIOUS

LEMMA RepliesOfDialog ==
  ASSUME NEW s, NEW d, NEW n, Shape(s, d, n), d = DataAt(s)
  PROVE  /\ ExpectedReplies(s) \in Seq(Replies)
         /\ Len(ExpectedReplies(s)) = d + 3
         /\ \A i \in 1..(d + 3) : ExpectedReplies(s)[i] = ReplyAt(d, i)
<1>0. d \in Nat /\ d >= 4
  BY DEF Shape
<1> DEFINE first == <<"GREETING_write", "HELO_write", "MAIL_FROM_write">>
           middle == [i \in 1..(d - 3) |-> "RCPT_TO_write"]
           last == <<"DATA_start_write", "DATA_end_write", "QUIT_write">>
<1>1. DOMAIN LetterOf(s).to = 1..(d - 3)
  BY DEF LetterOf
<1>2. /\ middle \in Seq(Replies) /\ Len(middle) = d - 3
      /\ \A i \in 1..(d - 3) : middle[i] = "RCPT_TO_write"
  <2>1. d - 3 \in Nat /\ "RCPT_TO_write" \in Replies
    BY <1>0 DEF Replies
  <2> QED
    BY <2>1, Repeated
<1>3. /\ first \in Seq(Replies) /\ Len(first) = 3 /\ first[1] = "GREETING_write"
      /\ first[2] = "HELO_write" /\ first[3] = "MAIL_FROM_write"
  <2>1. "GREETING_write" \in Replies /\ "HELO_write" \in Replies /\ "MAIL_FROM_write" \in Replies
    BY DEF Replies
  <2> QED
    BY <2>1, Triple
<1>4. /\ last \in Seq(Replies) /\ Len(last) = 3 /\ last[1] = "DATA_start_write"
      /\ last[2] = "DATA_end_write" /\ last[3] = "QUIT_write"
  <2>1. "DATA_start_write" \in Replies /\ "DATA_end_write" \in Replies /\ "QUIT_write" \in Replies
    BY DEF Replies
  <2> QED
    BY <2>1, Triple
<1>5. ExpectedReplies(s) = (first \o middle) \o last
  BY <1>1 DEF ExpectedReplies
<1> HIDE DEF first, middle, last
<1>6. /\ first \o middle \in Seq(Replies) /\ Len(first \o middle) = d
      /\ \A i \in 1..d : (first \o middle)[i] = IF i <= 3 THEN first[i] ELSE middle[i - 3]
  <2>1. /\ first \o middle \in Seq(Replies)
        /\ Len(first \o middle) = Len(first) + Len(middle)
        /\ \A i \in 1..(Len(first) + Len(middle)) : (first \o middle)[i] =
              IF i <= Len(first) THEN first[i] ELSE middle[i - Len(first)]
    BY <1>2, <1>3, ConcatProperties, ZenonT(60)
  <2> QED
    BY <1>0, <1>2, <1>3, <2>1
<1> DEFINE front == first \o middle
<1>7. /\ front \in Seq(Replies) /\ Len(front) = d
      /\ front[1] = "GREETING_write" /\ front[2] = "HELO_write"
      /\ front[3] = "MAIL_FROM_write" /\ \A i \in 4..d : front[i] = "RCPT_TO_write"
  <2>1. \A i \in 4..d : i - 3 \in 1..(d - 3) /\ i \in 1..d /\ ~(i <= 3)
    BY <1>0
  <2> QED
    BY <1>0, <1>2, <1>3, <1>6, <2>1
<1> HIDE DEF front
<1>8. /\ front \o last \in Seq(Replies) /\ Len(front \o last) = d + 3
      /\ \A i \in 1..(d + 3) : (front \o last)[i] = IF i <= d THEN front[i] ELSE last[i - d]
  <2>1. /\ front \o last \in Seq(Replies)
        /\ Len(front \o last) = Len(front) + Len(last)
        /\ \A i \in 1..(Len(front) + Len(last)) : (front \o last)[i] =
              IF i <= Len(front) THEN front[i] ELSE last[i - Len(front)]
    BY <1>4, <1>7, ConcatProperties
  <2> QED
    BY <1>0, <1>4, <1>7, <2>1
<1>9. \A i \in 1..(d + 3) : (front \o last)[i] = ReplyAt(d, i)
  <2> SUFFICES ASSUME NEW i \in 1..(d + 3)
               PROVE  (front \o last)[i] = ReplyAt(d, i)
    OBVIOUS
  <2>1. CASE i <= 3
    <3>1. i = 1 \/ i = 2 \/ i = 3
      BY <1>0, <2>1
    <3>2. (front \o last)[i] = front[i]
      BY <1>0, <1>8, <2>1
    <3> QED
      BY <1>0, <1>7, <3>1, <3>2 DEF ReplyAt
  <2>2. CASE i \in 4..d
    <3>1. (front \o last)[i] = "RCPT_TO_write"
      BY <1>0, <1>7, <1>8, <2>2
    <3> QED
      BY <1>0, <2>2, <3>1 DEF ReplyAt
  <2>3. CASE i > d
    <3>1. i = d + 1 \/ i = d + 2 \/ i = d + 3
      BY <1>0, <2>3
    <3>2. (front \o last)[i] = last[i - d]
      BY <1>0, <1>8, <2>3
    <3> QED
      BY <1>0, <1>4, <3>1, <3>2 DEF ReplyAt
  <2>4. i <= 3 \/ i \in 4..d \/ i > d
    BY <1>0
  <2> QED
    BY <2>1, <2>2, <2>3, <2>4
<1> QED
  BY <1>5, <1>8, <1>9 DEF front

-----------------------------------------------------------------------------
(* How far a dialog has come.                                              *)

(* The state of a session that has received g pieces and answered them     *)
(* all, and of one that is about to answer the last.                       *)
HeardAt(g) ==
  IF g = 0 THEN "helo" ELSE IF g = 1 THEN "mail_from" ELSE IF g = 2 THEN "rcpt_to" ELSE "data"

OwedAt(d, g) ==
  IF g = 0 THEN "greeting_write" ELSE IF g = 1 THEN "helo_write"
  ELSE IF g = 2 THEN "mail_from_write" ELSE IF g < d THEN "rcpt_to_write" ELSE "data_write"

(* The stages of a dialog of which g pieces were received, r replies sent  *)
(* and t pieces sent: a command is answered before the next one is sent,   *)
(* up to DATA; then the message, and QUIT.                                 *)
Talk(state, d, n, g, r, t) ==
  \/ g <= d /\ r = g /\ t = g /\ state = OwedAt(d, g)
  \/ g < d /\ r = g + 1 /\ t \in {g, g + 1} /\ state = HeardAt(g)
  \/ g \in d..(n - 2) /\ r = d + 1 /\ t \in g..(n - 1) /\ state = "data"
  \/ g = n - 1 /\ r = d + 1 /\ t = g /\ state = "data_end_write"
  \/ g = n - 1 /\ r = d + 2 /\ t \in {g, g + 1} /\ state = "quit"
  \/ g = n /\ r = d + 2 /\ t = n /\ state = "quit_write"
  \/ g = n /\ r = d + 3 /\ t = n /\ state = "finish"

(* What the session holds of the letter then. *)
Holds(x, s, d, n, g) ==
  /\ g < n - 1 => (x.data_start_already_matched <=> g >= d) /\ x.file_path = 0
  /\ g >= 2 => x.from_ = s[2].addr
  /\ Len(x.to) = (IF g < 2 THEN 0 ELSE IF g < d THEN g - 2 ELSE d - 3)
  /\ \A i \in 1..Len(x.to) : x.to[i] = s[i + 2].addr
  /\ Len(x.body) = (IF g <= d THEN 0 ELSE IF g < n - 1 THEN g - d ELSE n - 2 - d)
  /\ \A i \in 1..Len(x.body) : x.body[i] = s[i + d]

(* The client sends a piece: only where it is waited for. *)
LEMMA TalkSent ==
  ASSUME NEW s, NEW d, NEW n, Shape(s, d, n), d = DataAt(s),
         NEW state, NEW g \in Nat, NEW r \in Nat, NEW t \in Nat, NEW v \in Nat,
         Talk(state, d, n, g, r, t), v <= r, t < n, v >= Awaited(s, t + 1)
  PROVE  Talk(state, d, n, g, r, t + 1)
<1>0. d \in Nat /\ n \in Nat /\ d >= 4 /\ d <= n - 2
  BY DEF Shape
<1>1. t + 1 \in 1..n
  BY <1>0
<1>2. /\ Awaited(s, t + 1) \in Nat
      /\ t + 1 <= d + 1 => Awaited(s, t + 1) >= t + 1
      /\ t + 1 > d => Awaited(s, t + 1) >= d + 1
      /\ t + 1 = n => Awaited(s, t + 1) >= d + 2
  BY <1>1, AwaitedEnough
<1> QED
  BY <1>0, <1>2 DEF Talk

(* The server replies. *)
LEMMA TalkReplied ==
  ASSUME NEW d \in Nat, NEW n \in Nat, d >= 4, d <= n - 2,
         NEW state, NEW g \in Nat, NEW r \in Nat, NEW t \in Nat,
         Talk(state, d, n, g, r, t), NEW trigger, NEW dest, Reply(state, trigger, dest)
  PROVE  /\ trigger = ReplyAt(d, r + 1)
         /\ Talk(dest, d, n, g, r + 1, t)
         /\ trigger = "DATA_end_write" <=> r = d + 1
<1>1. CASE g <= d /\ r = g /\ t = g /\ state = OwedAt(d, g)
  <2>1. /\ g = 0 => trigger = "GREETING_write" /\ dest = "helo"
        /\ g = 1 => trigger = "HELO_write" /\ dest = "mail_from"
        /\ g = 2 => trigger = "MAIL_FROM_write" /\ dest = "rcpt_to"
        /\ g > 2 /\ g < d => trigger = "RCPT_TO_write" /\ dest = "data"
        /\ g = d => trigger = "DATA_start_write" /\ dest = "data"
    BY <1>1 DEF OwedAt, Reply
  <2>2. trigger = ReplyAt(d, r + 1)
    <3>1. g = 0 \/ g = 1 \/ g = 2 \/ (g > 2 /\ g < d) \/ g = d
      BY <1>1
    <3> QED
      BY <1>1, <2>1, <3>1 DEF ReplyAt
  <2>3. g < d => dest = HeardAt(g)
    BY <2>1 DEF HeardAt
  <2>4. Talk(dest, d, n, g, r + 1, t)
    BY <1>1, <2>1, <2>3 DEF Talk
  <2>5. trigger # "DATA_end_write"
    BY <1>1, <2>1
  <2> QED
    BY <1>1, <2>2, <2>4, <2>5
<1>2. CASE g = n - 1 /\ r = d + 1 /\ t = g /\ state = "data_end_write"
  <2>1. trigger = "DATA_end_write" /\ dest = "quit"
    BY <1>2 DEF Reply
  <2> QED
    BY <1>2, <2>1 DEF ReplyAt, Talk
<1>3. CASE g = n /\ r = d + 2 /\ t = n /\ state = "quit_write"
  <2>1. trigger = "QUIT_write" /\ dest = "finish"
    BY <1>3 DEF Reply
  <2> QED
    BY <1>3, <2>1 DEF ReplyAt, Talk
<1>4. state \notin {"helo", "mail_from", "rcpt_to", "data", "quit", "finish"}
  BY DEF Reply
<1> QED
  BY <1>1, <1>2, <1>3, <1>4 DEF Talk, HeardAt

(* Something has arrived: one command, a part of the message, or QUIT. *)
LEMMA TalkArrived ==
  ASSUME NEW d \in Nat, NEW n \in Nat, d >= 4, d <= n - 2,
         NEW state, NEW g \in Nat, NEW r \in Nat, NEW t \in Nat,
         Talk(state, d, n, g, r, t), g < t
  PROVE  \/ g < d /\ r = g + 1 /\ t = g + 1 /\ state = HeardAt(g)
         \/ g \in d..(n - 2) /\ r = d + 1 /\ t \in (g + 1)..(n - 1) /\ state = "data"
         \/ g = n - 1 /\ r = d + 2 /\ t = n /\ state = "quit"
BY DEF Talk

(* The session of a client that was just accepted. *)
LEMMA TalkAccepted ==
  ASSUME NEW d \in Nat, NEW n \in Nat, d >= 4, d <= n - 2,
         NEW state, NEW g \in Nat, NEW t \in Nat, Talk(state, d, n, g, 0, t), NEW s
  PROVE  /\ g = 0 /\ t = 0 /\ state = "greeting_write"
         /\ Holds(NewSession, s, d, n, g)
<1>1. g = 0 /\ t = 0 /\ state = "greeting_write"
  BY DEF Talk, OwedAt
<1>2. /\ NewSession.file_path = 0 /\ NewSession.data_start_already_matched = FALSE
      /\ Len(NewSession.to) = 0 /\ Len(NewSession.body) = 0
  BY DEF NewSession
<1> QED
  BY <1>1, <1>2 DEF Holds

-----------------------------------------------------------------------------
(* What is received.                                                       *)

(* recv() returns the pieces that follow those received before. *)
LEMMA ReceivedPieces ==
  ASSUME TypeOK, NEW c \in Conn, got[c] < sent[c]
  PROVE  \A i \in 1..Len(Received(c)) : Received(c)[i] = script[c][got[c] + i]
<1>1. /\ script[c] \in Seq(Piece)
      /\ got[c] \in Nat /\ sent[c] \in Nat
      /\ sent[c] <= Len(script[c])
  BY WorkerAssumption DEF TypeOK
<1>2. /\ Arrived(c) \in Seq(Piece)
      /\ Len(Arrived(c)) = sent[c] - got[c]
      /\ \A i \in 1..(sent[c] - got[c]) : Arrived(c)[i] = script[c][got[c] + i]
  <2>1. \A i \in got[c] + 1 .. sent[c] : script[c][i] \in Piece
    BY <1>1, ElementOfSeq
  <2> DEFINE lo == got[c] + 1
             hi == sent[c]
  <2>2. /\ SubSeq(script[c], lo, hi) \in Seq(Piece)
        /\ Len(SubSeq(script[c], lo, hi)) = IF lo <= hi THEN hi - lo + 1 ELSE 0
        /\ \A i \in 1..(hi - lo + 1) : SubSeq(script[c], lo, hi)[i] = script[c][lo + i - 1]
    <3>1. lo \in Int /\ hi \in Int /\ \A i \in lo..hi : script[c][i] \in Piece
      BY <1>1, <2>1
    <3> HIDE DEF lo, hi
    <3> QED
      BY <3>1, SubSeqProperties
  <2>3. /\ hi - lo + 1 = sent[c] - got[c] /\ lo <= hi
        /\ \A i \in 1..(sent[c] - got[c]) : lo + i - 1 = got[c] + i
    BY <1>1
  <2> QED
    BY <2>2, <2>3 DEF Arrived
<1> DEFINE m == IF Len(Arrived(c)) < BufferSize THEN Len(Arrived(c)) ELSE BufferSize
<1>3. m \in 1..(sent[c] - got[c])
  BY <1>1, <1>2, WorkerAssumption
<1>4. \A i \in 1..m : Arrived(c)[i] \in Piece
  BY <1>2, <1>3, ElementOfSeq
<1>5. Received(c) = SubSeq(Arrived(c), 1, m)
  BY DEF Received
<1> HIDE DEF m
<1>6. Len(Received(c)) = m /\ \A i \in 1..m : Received(c)[i] = Arrived(c)[i]
  BY <1>1, <1>3, <1>4, <1>5, SubSeqProperties
<1> QED
  BY <1>1, <1>2, <1>3, <1>6

(* The trigger of a command line, where the dialog has it. *)
CommandAt(d, g) ==
  IF g = 0 THEN "HELO" ELSE IF g = 1 THEN "MAIL_FROM" ELSE IF g = 2 THEN "RCPT_TO"
  ELSE IF g < d - 1 THEN "ANOTHER_RECEPIENT" ELSE "DATA_start"

(* All of a text but its last piece.                                       *)
LEMMA FrontPieces ==
  ASSUME NEW line \in Seq(Piece), NEW m \in Nat, Len(line) = m + 1
  PROVE  /\ Front(line) \in Seq(Piece) /\ Len(Front(line)) = m
         /\ \A i \in 1..m : Front(line)[i] = line[i]
<1>1. \A i \in 1..m : i \in 1..(m + 1)
  OBVIOUS
<1>2. \A i \in 1..m : line[i] \in Piece
  BY <1>1, ElementOfSeq
<1>3. Front(line) = SubSeq(line, 1, m)
  <2>1. (m + 1) - 1 = m
    OBVIOUS
  <2> QED
    BY <2>1 DEF Front
<1>4. /\ SubSeq(line, 1, m) \in Seq(Piece)
      /\ Len(SubSeq(line, 1, m)) = IF 1 <= m THEN m - 1 + 1 ELSE 0
      /\ \A i \in 1..(m - 1 + 1) : SubSeq(line, 1, m)[i] = line[1 + i - 1]
  BY <1>2, SubSeqProperties
<1>5. /\ m - 1 + 1 = m /\ (1 <= m \/ m = 0)
      /\ \A i \in 1..m : 1 + i - 1 = i
  OBVIOUS
<1> QED
  BY <1>3, <1>4, <1>5

(* A text of which no piece continues another: its lines are its pieces.   *)
LEMMA LinesArePieces ==
  ASSUME NEW line \in Seq(Piece), Len(line) >= 1,
         \A i \in 1..Len(line) : line[i].kind \notin {"REST", "LF", "PART", "STUB"}
  PROVE  /\ FirstLine(line) = line[1] /\ Head(line) = line[1]
         /\ LastLine(line) = line[Len(line)] /\ Last(line) = line[Len(line)]
         /\ BeforeLast(line) = Front(line)
         /\ OneLine(line) <=> Len(line) = 1
<1>1. Len(line) \in Nat
  BY LenProperties
<1>2. \A i \in 1..Len(line) : ~Continued(line, i)
  <2>1. \A i \in 1..Len(line) : i < Len(line) => i + 1 \in 1..Len(line)
    BY <1>1
  <2> QED
    BY <2>1 DEF Continued
<1>3. FirstLine(line) = line[1] /\ Head(line) = line[1]
  <2>1. 1 \in 1..Len(line)
    BY <1>1
  <2> QED
    BY <1>2, <2>1 DEF FirstLine
<1>4. ~(Len(line) > 1 /\ Continued(line, Len(line) - 1))
  <2>1. Len(line) > 1 => Len(line) - 1 \in 1..Len(line)
    BY <1>1
  <2> QED
    BY <1>2, <2>1
<1>5. Last(line) = line[Len(line)] /\ LastLine(line) = line[Len(line)]
  BY <1>4 DEF Last, LastLine
<1>6. BeforeLast(line) = SubSeq(line, 1, Len(line) - 1)
  BY <1>4 DEF BeforeLast
<1>7. BeforeLast(line) = Front(line)
  BY <1>6 DEF Front
<1>8. Front(line) \in Seq(Piece) /\ Len(Front(line)) = Len(line) - 1
  <2>1. Len(line) - 1 \in Nat /\ Len(line) = (Len(line) - 1) + 1
    BY <1>1
  <2> QED
    BY <2>1, FrontPieces
<1>9. OneLine(line) <=> Len(line) = 1
  BY <1>1, <1>7, <1>8, EmptySeq DEF OneLine
<1> QED
  BY <1>3, <1>5, <1>7, <1>9

LEMMA OnePiece ==
  ASSUME NEW line \in Seq(Piece), Len(line) = 1, NEW p, line[1] = p,
         p.kind \notin {"REST", "LF", "PART", "STUB"}
  PROVE  /\ FirstLine(line) = p /\ LastLine(line) = p /\ OneLine(line)
         /\ Head(line) = p /\ Last(line) = p
<1>1. /\ Len(line) >= 1 /\ line[Len(line)] = p
      /\ \A i \in 1..Len(line) : line[i].kind \notin {"REST", "LF", "PART", "STUB"}
  OBVIOUS
<1>2. /\ FirstLine(line) = line[1] /\ Head(line) = line[1]
      /\ LastLine(line) = line[Len(line)] /\ Last(line) = line[Len(line)]
      /\ OneLine(line)
  BY <1>1, LinesArePieces
<1> QED
  BY <1>1, <1>2

LEMMA CommandHeard ==
  ASSUME NEW s, NEW d, NEW n, Shape(s, d, n), NEW g \in 0..(d - 1),
         NEW line \in Seq(Piece), Len(line) = 1, line[1] = s[g + 1],
         NEW x, x.state = HeardAt(g), ~x.data_start_already_matched
  PROVE  /\ ~Undecodable(line)
         /\ ReadTrigger(x, line) = CommandAt(d, g)
         /\ g = 1 => Path_group(line, "MAIL") = s[g + 1].addr
         /\ g \in 2..(d - 2) => Path_group(line, "RCPT") = s[g + 1].addr
         /\ g = d - 1 => DATA_start_group(line) = <<>>
<1>0. d \in Nat /\ d >= 4 /\ n \in Nat /\ d <= n - 2
  BY DEF Shape
<1> DEFINE p == s[g + 1]
<1>1. /\ FirstLine(line) = p /\ LastLine(line) = p /\ OneLine(line)
      /\ Head(line) = p /\ Last(line) = p
  <2>1. g + 1 \in 1..n
    BY <1>0
  <2> QED
    BY <2>1, NoneContinues, OnePiece
<1>2. \/ g = 0 /\ p = Plain("HELO")
      \/ g = 1 /\ p.kind = "MAIL"
      \/ g \in 2..(d - 2) /\ p.kind = "RCPT"
      \/ g = d - 1 /\ p = Plain("DATA")
  BY <1>0 DEF Shape
<1>3. \A k : Plain(k).kind = k
  BY DEF Plain
<1> HIDE DEF p
<1>4. CASE g = 0 /\ p = Plain("HELO")
  <2>1. p.kind = "HELO" /\ x.state = "helo"
    BY <1>3, <1>4 DEF HeardAt
  <2>2. HELO_matched(line) /\ ~Undecodable(line)
    BY <1>1, <2>1 DEF HELO_matched, Undecodable
  <2>3. ~IsQuit(line) /\ ~IsRset(line)
    BY <1>1, <1>3, <2>1 DEF IsQuit, IsRset, IsCommand
  <2>4. ReadTrigger(x, line) = "HELO"
    BY <2>1, <2>2, <2>3 DEF ReadTrigger
  <2> QED
    BY <1>0, <1>4, <2>2, <2>4 DEF CommandAt
<1>5. CASE g = 1 /\ p.kind = "MAIL"
  <2>1. x.state = "mail_from"
    BY <1>5 DEF HeardAt
  <2>2. Path_matched(line, "MAIL") /\ ~Undecodable(line) /\ Path_group(line, "MAIL") = p.addr
    BY <1>1, <1>5 DEF Path_matched, Undecodable, Path_group
  <2>3. ~IsQuit(line) /\ ~IsRset(line)
    BY <1>1, <1>3, <1>5 DEF IsQuit, IsRset, IsCommand
  <2> QED
    BY <1>0, <1>5, <2>1, <2>2, <2>3 DEF ReadTrigger, CommandAt, p
<1>6. CASE g = 2 /\ p.kind = "RCPT"
  <2>1. x.state = "rcpt_to"
    BY <1>6 DEF HeardAt
  <2>2. Path_matched(line, "RCPT") /\ ~Undecodable(line) /\ Path_group(line, "RCPT") = p.addr
    BY <1>1, <1>6 DEF Path_matched, Undecodable, Path_group
  <2>3. ~IsQuit(line) /\ ~IsRset(line)
    BY <1>1, <1>3, <1>6 DEF IsQuit, IsRset, IsCommand
  <2> QED
    BY <1>0, <1>6, <2>1, <2>2, <2>3 DEF ReadTrigger, CommandAt, p
<1>7. CASE g \in 3..(d - 2) /\ p.kind = "RCPT"
  <2>1. x.state = "data"
    BY <1>7 DEF HeardAt
  <2>2. Path_matched(line, "RCPT") /\ ~Undecodable(line) /\ Path_group(line, "RCPT") = p.addr
    BY <1>1, <1>7 DEF Path_matched, Undecodable, Path_group
  <2>3. DataTrigger(x, line) = "ANOTHER_RECEPIENT"
    BY <1>1, <1>7, <2>2 DEF DataTrigger, FirstFourRcpt, FirstFour
  <2> QED
    BY <1>0, <1>7, <2>1, <2>2, <2>3 DEF ReadTrigger, CommandAt, p
<1>8. CASE g = d - 1 /\ p = Plain("DATA")
  <2>1. x.state = "data" /\ p.kind = "DATA"
    BY <1>0, <1>3, <1>8 DEF HeardAt
  <2>2. ~FirstFourRcpt(line) /\ FirstFourData(line) /\ DATA_start_matched(line)
        /\ ~Undecodable(line) /\ DATA_start_group(line) = <<>>
    BY <1>1, <1>8, <2>1 DEF FirstFourRcpt, FirstFourData, FirstFour, DATA_start_matched,
                            DATA_start_group, Undecodable
  <2>3. DataTrigger(x, line) = "DATA_start"
    BY <2>2 DEF DataTrigger
  <2> QED
    BY <1>0, <1>8, <2>1, <2>2, <2>3 DEF ReadTrigger, CommandAt
<1> QED
  BY <1>0, <1>2, <1>4, <1>5, <1>6, <1>7, <1>8

(* A part of the message: it ends the mail just when it reaches the dot.   *)
LEMMA MessageHeard ==
  ASSUME NEW s, NEW d, NEW n, Shape(s, d, n), NEW g \in d..(n - 2),
         NEW line \in Seq(Piece), Len(line) \in 1..(n - 1 - g),
         \A i \in 1..Len(line) : line[i] = s[g + i],
         NEW x, x.state = "data", x.data_start_already_matched
  PROVE  /\ ~Undecodable(line)
         /\ ReadTrigger(x, line) = IF g + Len(line) = n - 1 THEN "DATA_end"
                                                            ELSE "DATA_additional"
         /\ g + Len(line) = n - 1 => DATA_end_group(line) = Front(line)
<1>0. d \in Nat /\ n \in Nat /\ d >= 4 /\ d <= n - 2
  BY DEF Shape
<1> DEFINE k == Len(line)
<1>1. k \in Nat /\ k >= 1 /\ g + k <= n - 1
  BY <1>0
<1>2. ASSUME NEW i \in 1..k
      PROVE  /\ line[i].kind \notin {"REST", "LF", "PART", "STUB"}
             /\ line[i].kind \in BodyKind \cup {"DOT"}
             /\ line[i].kind = "DOT" <=> g + i = n - 1
  <2>1. line[i] = s[g + i] /\ g + i \in 1..n /\ (g + i \in (d + 1)..(n - 2) \/ g + i = n - 1)
    <3>1. line[i] = s[g + i]
      OBVIOUS
    <3> HIDE DEF k
    <3>2. g \in Nat /\ g >= d /\ i \in Nat /\ i >= 1 /\ i <= k
      BY <1>0, <1>1
    <3> QED
      BY SMTT(40), <1>0, <1>1, <3>1, <3>2
  <2>2. line[i].kind \notin {"REST", "LF", "PART", "STUB"}
    BY <2>1, NoneContinues
  <2>3. /\ \A j \in (d + 1)..(n - 2) : s[j].kind \in BodyKind
        /\ s[n - 1].kind = "DOT"
    BY DEF Shape, Plain
  <2>4. "DOT" \notin BodyKind /\ \A j \in (d + 1)..(n - 2) : j # n - 1
    BY <1>0 DEF BodyKind
  <2> QED
    BY <2>1, <2>2, <2>3, <2>4
<1>3. /\ FirstLine(line) = line[1] /\ Head(line) = line[1]
      /\ LastLine(line) = line[k] /\ Last(line) = line[k]
      /\ BeforeLast(line) = Front(line)
      /\ OneLine(line) <=> k = 1
  BY <1>1, <1>2, LinesArePieces
<1>4. line[1].kind \in BodyKind \cup {"DOT"}
  BY <1>1, <1>2
<1>5. /\ line[k].kind \in BodyKind \cup {"DOT"}
      /\ line[k].kind = "DOT" <=> g + k = n - 1
  BY <1>1, <1>2
<1>6. EndsWithDot(line) <=> g + k = n - 1
  BY <1>3, <1>5 DEF EndsWithDot, BodyKind
<1>7. ~FirstFourRcpt(line) /\ ~FirstFourData(line) /\ ~Undecodable(line)
  BY <1>3, <1>4, <1>5 DEF FirstFourRcpt, FirstFourData, FirstFour, Undecodable, BodyKind
<1>8. DotNear(line) <=> g + k = n - 1
  <2>1. k # 1 => ~EndsWithDot(Front(line))
    <3> SUFFICES ASSUME k # 1
                 PROVE  ~EndsWithDot(Front(line))
      OBVIOUS
    <3> DEFINE m == k - 1
               front == Front(line)
    <3>1. m \in Nat /\ m >= 1 /\ k = m + 1 /\ m \in 1..k /\ g + m # n - 1
      <4> HIDE DEF k
      <4>1. g \in Nat /\ k # 1
        BY <1>0 DEF k
      <4> QED
        BY <1>0, <1>1, <4>1
    <3>2. /\ front \in Seq(Piece) /\ Len(front) = m
          /\ \A i \in 1..m : front[i] = line[i]
      BY <3>1, FrontPieces
    <3>3. \A i \in 1..m : i \in 1..k
      BY <3>1
    <3>4. LastLine(front) = front[m] /\ Last(front) = front[m]
      <4> HIDE DEF m, front, k
      <4>1. \A i \in 1..m : front[i].kind \notin {"REST", "LF", "PART", "STUB"}
        BY <1>2, <3>2, <3>3
      <4>2. front \in Seq(Piece) /\ Len(front) = m /\ m >= 1
        BY <3>1, <3>2
      <4>3. LastLine(front) = front[Len(front)] /\ Last(front) = front[Len(front)]
        <5>1. \A i \in 1..Len(front) : front[i].kind \notin {"REST", "LF", "PART", "STUB"}
          BY <4>1, <4>2
        <5>2. front \in Seq(Piece) /\ Len(front) >= 1
          BY <4>2
        <5> QED
          BY ONLY <5>1, <5>2, LinesArePieces
      <4> QED
        BY ONLY <4>2, <4>3
    <3>5. front[m].kind \in BodyKind
      <4>1. /\ line[m].kind \in BodyKind \cup {"DOT"}
            /\ line[m].kind = "DOT" <=> g + m = n - 1
        BY ONLY <1>2, <3>1
      <4>2. front[m] = line[m] /\ g + m # n - 1
        <5> HIDE DEF m, front
        <5> QED
          BY <3>1, <3>2
      <4> QED
        BY ONLY <4>1, <4>2
    <3> HIDE DEF front
    <3>6. ~EndsWithDot(front)
      BY <3>4, <3>5 DEF EndsWithDot, BodyKind
    <3> QED
      BY <3>6 DEF front
  <2>2. LastLine(line).kind # "DOTTED"
    BY <1>3, <1>5 DEF BodyKind
  <2> QED
    BY <1>3, <1>6, <2>1, <2>2 DEF DotNear
<1>9. g + k = n - 1 => DATA_end_matched(line) /\ DATA_end_group(line) = Front(line)
  BY <1>3, <1>5 DEF DATA_end_matched, DATA_end_group
<1> HIDE DEF k
<1>10. DataTrigger(x, line) = IF g + k = n - 1 THEN "DATA_end" ELSE "DATA_additional"
  BY <1>7, <1>8, <1>9 DEF DataTrigger
<1>11. ReadTrigger(x, line) = DataTrigger(x, line)
  BY DEF ReadTrigger
<1> QED
  BY <1>7, <1>9, <1>10, <1>11 DEF k

LEMMA QuitHeard ==
  ASSUME NEW s, NEW d, NEW n, Shape(s, d, n),
         NEW line \in Seq(Piece), Len(line) = 1, line[1] = s[n],
         NEW x, x.state = "quit"
  PROVE  ~Undecodable(line) /\ ReadTrigger(x, line) = "QUIT"
<1>1. LastLine(line) = Plain("QUIT") /\ Last(line) = Plain("QUIT") /\ OneLine(line)
  <2>1. n \in 1..n /\ s[n] = Plain("QUIT")
    BY DEF Shape
  <2> QED
    BY <2>1, NoneContinues, OnePiece
<1>2. ~Undecodable(line) /\ IsQuit(line)
  BY <1>1 DEF Undecodable, Plain, IsQuit, IsCommand
<1>3. ~IsRset(line)
  BY <1>1 DEF IsRset, IsCommand, Plain
<1> QED
  BY <1>2, <1>3 DEF ReadTrigger

(* The handler does what the trigger of the line calls for. *)
LEMMA ReadTold ==
  ASSUME TypeOK, NEW c \in Conn, handle_client_read(c), got[c] < sent[c],
         ~Undecodable(Received(c)), NEW t, ReadTrigger(session[c], Received(c)) = t, t # "none"
  PROVE  /\ got' = [got EXCEPT ![c] = got[c] + Len(Received(c))]
         /\ t = "HELO" => HearsCommand(c) /\ session'[c].state = "helo_write"
         /\ t = "QUIT" => HearsCommand(c) /\ session'[c].state = "quit_write"
         /\ t = "MAIL_FROM" => HearsSender(c)
         /\ t \in {"RCPT_TO", "ANOTHER_RECEPIENT"} => HearsRecipient(c)
         /\ t = "DATA_start" => HearsStart(c)
         /\ t = "DATA_additional" => HearsMore(c)
         /\ t = "DATA_end" => HearsEnd(c)
<1>1. ASSUME NEW u, ReadingLine(c, u)
      PROVE  u = t /\ got' = [got EXCEPT ![c] = got[c] + Len(Received(c))]
  BY <1>1 DEF ReadingLine
<1>2. got[c] \in Nat /\ sent[c] \in Nat
  BY DEF TypeOK
<1>3. CASE \E u \in {"HELO", "QUIT", "RSET"} : ReadCommand(c, u)
  <2>1. PICK u \in {"HELO", "QUIT", "RSET"} : ReadCommand(c, u)
    BY <1>3
  <2>2. u = t /\ got' = [got EXCEPT ![c] = got[c] + Len(Received(c))]
    BY <1>1, <2>1 DEF ReadCommand
  <2> QED
    BY <2>1, <2>2, CommandEffect
<1>4. CASE ReadMailFrom(c)
  BY <1>1, <1>4, SenderEffect DEF ReadMailFrom
<1>5. CASE \E u \in {"RCPT_TO", "ANOTHER_RECEPIENT"} : ReadRecipient(c, u)
  <2>1. PICK u \in {"RCPT_TO", "ANOTHER_RECEPIENT"} : ReadRecipient(c, u)
    BY <1>5
  <2>2. u = t /\ got' = [got EXCEPT ![c] = got[c] + Len(Received(c))]
    BY <1>1, <2>1 DEF ReadRecipient
  <2> QED
    BY <2>1, <2>2, RecipientEffect
<1>6. CASE ReadDataStart(c)
  <2>1. ReadingLine(c, "DATA_start")
    BY <1>6 DEF ReadDataStart
  <2> QED
    BY <1>1, <1>6, <2>1, StartEffect
<1>7. CASE ReadDataAdditional(c)
  BY <1>1, <1>7, MoreEffect DEF ReadDataAdditional
<1>8. CASE ReadDataEnd(c)
  <2>1. ReadingLine(c, "DATA_end")
    BY <1>8 DEF ReadDataEnd
  <2> QED
    BY <1>1, <1>8, <2>1, EndEffect
<1>9. CASE ReadDropped(c) \/ ReadEof(c) \/ ReadFails(c)
  BY <1>1, <1>2, <1>9 DEF ReadDropped, ReadEof, ReadFails
<1> QED
  BY <1>3, <1>4, <1>5, <1>6, <1>7, <1>8, <1>9 DEF handle_client_read

(* The handler finds nothing to read. *)
LEMMA ReadNothing ==
  ASSUME TypeOK, NEW c \in Conn, handle_client_read(c), ~(got[c] < sent[c])
  PROVE  UNCHANGED <<session, store, files, got>>
BY DEF handle_client_read, ReadCommand, ReadMailFrom, ReadRecipient, ReadDataStart,
       ReadDataAdditional, ReadDataEnd, ReadDropped, ReadEof, ReadFails, ReadingLine

LEMMA ReadNet ==
  ASSUME NEW c, handle_client_read(c)
  PROVE  UNCHANGED <<clients, backlog, link, script, sent, outbox, seen>>
BY DEF handle_client_read, ReadCommand, ReadMailFrom, ReadRecipient, ReadDataStart,
       ReadDataAdditional, ReadDataEnd, ReadDropped, ReadEof, ReadFails, ReadingLine, Reading

-----------------------------------------------------------------------------
(* The inductive invariant of one dialog: the stages of the conversation,  *)
(* the session that goes with them, and the replies by number.             *)
Spoken(s, x, g, t, o, v) ==
  LET d == DataAt(s)
      n == Len(s)
  IN  /\ v <= Len(o)
      /\ Talk(x.state, d, n, g, Len(o), t)
      /\ Holds(x, s, d, n, g)
      /\ \A i \in 1..Len(o) : o[i].trigger = ReplyAt(d, i)

InDialog(c) == Spoken(script[c], session[c], got[c], sent[c], outbox[c], seen[c])

(* The files under the name of the mail of a session.                      *)
Mine(x, mails) == {f \in mails : f.file = x.file_path}

(* Nothing lies in a box under the name of a session before its message    *)
(* has come to its end; what lies there then is its letter, but for one    *)
(* file that a write() broke off, if it did.                               *)
Kept(s, x, mails, g, e) ==
  LET mine == Mine(x, mails)
  IN  /\ mine # {} => g >= Len(s) - 1
      /\ \/ \A f \in mine : Letter(f) = Letter(x)
         \/ /\ e = "OSError"
            /\ \E t \in mine : /\ Letter(t) = FragmentOf(Letter(x))
                               /\ \A f \in mine \ {t} : Letter(f) = Letter(x)

DialogInv ==
  /\ StoreInv
  /\ SpokenInv
  /\ \A f \in store : f.file > 0
  /\ \A c \in Calm : /\ IsCalm(script[c]) /\ InDialog(c)
                      /\ Kept(script[c], session[c], store, got[c], exc)

(* What of the types the steps below need. *)
LEMMA DialogTyped ==
  ASSUME TypeOK, NEW c \in Conn, IsDialog(script[c])
  PROVE  /\ script[c] \in Seq(Piece)
         /\ Shape(script[c], DataAt(script[c]), Len(script[c]))
         /\ got[c] \in Nat /\ sent[c] \in Nat /\ seen[c] \in Nat
         /\ got[c] <= sent[c] /\ sent[c] <= Len(script[c])
         /\ outbox[c] \in Seq(ReplyType) /\ Len(outbox[c]) \in Nat
         /\ session[c] \in SessionType
<1>1. script[c] \in Script /\ script[c] \in Seq(Piece)
  BY WorkerAssumption DEF TypeOK
<1>2. outbox[c] \in Seq(ReplyType)
  BY DEF TypeOK
<1>3. Len(outbox[c]) \in Nat
  BY <1>2, LenProperties
<1> QED
  BY <1>1, <1>2, <1>3, DialogShape DEF TypeOK

(* A command is heard: the session keeps its address, and that it was DATA. *)
LEMMA HoldsCommand ==
  ASSUME TypeOK, TypeOK', NEW c \in Conn, NEW s \in Seq(Piece), NEW d, NEW n, Shape(s, d, n),
         NEW g \in 0..(d - 1), session[c].state = HeardAt(g), Holds(session[c], s, d, n, g),
         g = 0 => HearsCommand(c) /\ session'[c].state = "helo_write",
         g = 1 => HearsSender(c) /\ Path_group(Received(c), "MAIL") = s[2].addr,
         g \in 2..(d - 2) => HearsRecipient(c) /\ Path_group(Received(c), "RCPT") = s[g + 1].addr,
         g = d - 1 => HearsStart(c) /\ DATA_start_group(Received(c)) = <<>>
  PROVE  /\ session'[c].state = OwedAt(d, g + 1)
         /\ Holds(session'[c], s, d, n, g + 1)
<1>0. d \in Nat /\ n \in Nat /\ d >= 4 /\ d <= n - 2
  BY DEF Shape
<1> DEFINE x == session[c]
           y == session'[c]
<1>1. x \in SessionType /\ y \in SessionType
  BY DEF TypeOK
<1>2. x.to \in Seq(Path) /\ x.body \in Seq(Piece)
  BY <1>1 DEF SessionType
<1>3. Len(x.to) \in Nat /\ Len(x.body) \in Nat
  BY <1>2, LenProperties
<1> HIDE DEF x, y
<1>4. Holds(x, s, d, n, g)
  BY DEF x
<1>5. CASE g = 0
  <2>1. /\ y.state = "helo_write"
        /\ y.data_start_already_matched = x.data_start_already_matched
        /\ y.from_ = x.from_ /\ y.to = x.to /\ y.body = x.body
        /\ y.file_path = x.file_path
    BY <1>5, HeardFields DEF x, y
  <2> QED
    BY <1>0, <1>4, <1>5, <2>1 DEF Holds, OwedAt, y
<1>6. CASE g = 1
  <2>1. /\ y.state = "mail_from_write"
        /\ y.data_start_already_matched = x.data_start_already_matched
        /\ y.from_ = s[2].addr /\ y.to = x.to /\ y.body = x.body
        /\ y.file_path = x.file_path
    BY <1>6, HeardFields DEF x, y
  <2> QED
    BY <1>0, <1>4, <1>6, <2>1 DEF Holds, OwedAt, y
<1>7. CASE g \in 2..(d - 2)
  <2>1. /\ y.state = "rcpt_to_write"
        /\ y.data_start_already_matched = x.data_start_already_matched
        /\ y.from_ = x.from_ /\ y.to = Append(x.to, s[g + 1].addr) /\ y.body = x.body
        /\ y.file_path = x.file_path
    <3>1. HearsRecipient(c) /\ Path_group(Received(c), "RCPT") = s[g + 1].addr
      BY <1>7
    <3>2. /\ y.state = "rcpt_to_write"
          /\ y.data_start_already_matched = x.data_start_already_matched
          /\ y.from_ = x.from_ /\ y.to = Append(x.to, Path_group(Received(c), "RCPT"))
          /\ y.body = x.body /\ y.file_path = x.file_path
      BY <3>1, HeardFields DEF x, y
    <3> QED
      BY <3>1, <3>2
  <2>2. Len(x.to) = g - 2 /\ \A i \in 1..(g - 2) : x.to[i] = s[i + 2].addr
    BY <1>0, <1>4, <1>7 DEF Holds
  <2>3. s[g + 1].addr \in Path
    <3>1. g + 1 \in 1..n /\ g + 1 \in 3..(d - 1) /\ n = Len(s)
      BY <1>0, <1>7 DEF Shape
    <3>2. s[g + 1] \in Piece /\ s[g + 1].kind = "RCPT"
      BY <3>1, ElementOfSeq DEF Shape
    <3> QED
      BY <3>2, SessionTypes
  <2>4. /\ Len(y.to) = g - 1 /\ y.to[g - 1] = s[g + 1].addr
        /\ \A i \in 1..(g - 2) : y.to[i] = s[i + 2].addr
    <3>1. /\ Len(y.to) = Len(x.to) + 1 /\ y.to[Len(x.to) + 1] = s[g + 1].addr
          /\ \A i \in 1..Len(x.to) : y.to[i] = x.to[i]
      BY <1>2, <2>1, <2>3, AppendProperties
    <3> QED
      BY <1>7, <2>2, <3>1
  <2>5. \A i \in 1..(g - 1) : y.to[i] = s[i + 2].addr
    <3>1. \A i \in 1..(g - 1) : i = g - 1 \/ i \in 1..(g - 2)
      BY <1>7
    <3>2. (g - 1) + 2 = g + 1
      BY <1>7
    <3> QED
      BY <2>4, <3>1, <3>2
  <2>6. Holds(y, s, d, n, g + 1)
    <3>1. /\ g \in Nat /\ g >= 2 /\ g + 1 >= 2 /\ g < d /\ g + 1 < d /\ g < n - 1 /\ g + 1 < n - 1
          /\ (g + 1) - 2 = g - 1
          /\ ~(g >= d) /\ ~(g + 1 >= d) /\ g <= d /\ g + 1 <= d /\ ~(g + 1 < 2)
      BY ONLY <1>0, <1>7
    <3> QED
      BY ONLY <1>4, <2>1, <2>4, <2>5, <3>1 DEF Holds
  <2> QED
    BY <1>0, <1>7, <2>1, <2>6 DEF OwedAt, y
<1>8. CASE g = d - 1
  <2>1. /\ y.state = "data_write" /\ y.data_start_already_matched
        /\ y.from_ = x.from_ /\ y.to = x.to /\ y.body = x.body
        /\ y.file_path = x.file_path
    <3>1. HearsStart(c) /\ DATA_start_group(Received(c)) = <<>>
      BY <1>8
    <3>2. /\ y.state = "data_write" /\ y.data_start_already_matched
          /\ y.from_ = x.from_ /\ y.to = x.to
          /\ y.body = x.body \o DATA_start_group(Received(c))
          /\ y.file_path = x.file_path
      <4>1. HearsStart(c) /\ x = session[c] /\ y = session'[c]
        BY <3>1 DEF x, y
      <4> QED
        BY ONLY TypeOK, c \in Conn, <4>1, HeardFields, ZenonT(60)
    <3>3. x.body \o <<>> = x.body
      BY <1>2, ConcatEmptySeq
    <3> QED
      BY <3>1, <3>2, <3>3
  <2> QED
    BY <1>0, <1>4, <1>8, <2>1 DEF Holds, OwedAt, y
<1> QED
  BY <1>0, <1>5, <1>6, <1>7, <1>8

(* A sequence of pieces is what stands in s after the place from. *)
Stands(pieces, s, from, k) ==
  /\ pieces \in Seq(Piece) /\ Len(pieces) = k
  /\ \A i \in 1..k : pieces[i] = s[from + i]

LEMMA Extended ==
  ASSUME NEW s, NEW d \in Nat, NEW e \in Nat, NEW k \in Nat,
         NEW body, Stands(body, s, d, e), NEW line, Stands(line, s, d + e, k)
  PROVE  Stands(body \o line, s, d, e + k)
<1>1. /\ body \o line \in Seq(Piece) /\ Len(body \o line) = e + k
      /\ \A i \in 1..(e + k) : (body \o line)[i] = IF i <= e THEN body[i] ELSE line[i - e]
  <2>1. /\ body \o line \in Seq(Piece) /\ Len(body \o line) = Len(body) + Len(line)
        /\ \A i \in 1..(Len(body) + Len(line)) :
             (body \o line)[i] = IF i <= Len(body) THEN body[i] ELSE line[i - Len(body)]
    BY ConcatProperties DEF Stands
  <2> QED
    BY <2>1 DEF Stands
<1>2. ASSUME NEW i \in 1..(e + k)
      PROVE  (body \o line)[i] = s[d + i]
  <2>1. CASE i <= e
    BY <1>1, <2>1 DEF Stands
  <2>2. CASE i > e
    <3>1. i - e \in 1..k /\ d + e + (i - e) = d + i
      BY <2>2
    <3>2. line[i - e] = s[d + e + (i - e)]
      BY <3>1 DEF Stands
    <3>3. (body \o line)[i] = line[i - e]
      BY <1>1, <2>2
    <3> QED
      BY <3>1, <3>2, <3>3
  <2>3. i <= e \/ i > e
    OBVIOUS
  <2> QED
    BY <2>1, <2>2, <2>3
<1> QED
  BY <1>1, <1>2 DEF Stands

(* The message goes on, and ends: the body grows by what was received.     *)
LEMMA HoldsMore ==
  ASSUME NEW s, NEW d \in Nat, NEW n \in Nat, NEW g \in Nat, NEW k \in Nat, 4 <= d, d <= g,
         1 <= k, g + k < n - 1,
         NEW x, NEW y, Holds(x, s, d, n, g), x.body \in Seq(Piece),
         NEW line, Stands(line, s, g, k),
         y.data_start_already_matched = x.data_start_already_matched,
         y.from_ = x.from_, y.to = x.to, y.body = x.body \o line, y.file_path = x.file_path
  PROVE  Holds(y, s, d, n, g + k)
<1>1. /\ g >= 2 /\ ~(g < 2) /\ ~(g < d) /\ g < n - 1 /\ g >= d
      /\ g + k >= 2 /\ ~(g + k < 2) /\ ~(g + k < d) /\ ~(g + k <= d) /\ g + k >= d
      /\ (g - d) + k = g + k - d
      /\ g <= d => g - d = 0
  OBVIOUS
<1>2. /\ x.data_start_already_matched /\ x.file_path = 0 /\ x.from_ = s[2].addr
      /\ Len(x.to) = d - 3 /\ \A i \in 1..Len(x.to) : x.to[i] = s[i + 2].addr
      /\ Len(x.body) = g - d /\ \A i \in 1..Len(x.body) : x.body[i] = s[i + d]
  BY ONLY <1>1, Holds(x, s, d, n, g), d \in Nat, g \in Nat, n \in Nat DEF Holds
<1>3. Stands(x.body, s, d, g - d)
  <2>1. \A i \in 1..(g - d) : i + d = d + i
    OBVIOUS
  <2> QED
    BY <1>2, <2>1 DEF Stands
<1>4. Stands(x.body \o line, s, d, (g - d) + k)
  <2>1. g - d \in Nat /\ d + (g - d) = g
    OBVIOUS
  <2> QED
    BY <1>3, <2>1, Extended
<1>5. /\ Len(y.body) = g + k - d
      /\ \A i \in 1..Len(y.body) : y.body[i] = s[i + d]
  <2>1. Stands(y.body, s, d, g + k - d)
    BY <1>1, <1>4
  <2>2. \A i \in 1..(g + k - d) : i + d = d + i
    OBVIOUS
  <2> QED
    BY <2>1, <2>2 DEF Stands
<1>6. /\ y.data_start_already_matched /\ y.file_path = 0 /\ y.from_ = s[2].addr
      /\ Len(y.to) = d - 3 /\ \A i \in 1..Len(y.to) : y.to[i] = s[i + 2].addr
  BY <1>2
<1> QED
  BY ONLY <1>1, <1>5, <1>6, g + k < n - 1 DEF Holds

LEMMA HoldsEnd ==
  ASSUME NEW s, NEW d \in Nat, NEW n \in Nat, NEW g \in Nat, NEW m \in Nat, 4 <= d, d <= g,
         g + m = n - 2,
         NEW x, NEW y, Holds(x, s, d, n, g), x.body \in Seq(Piece),
         NEW front, Stands(front, s, g, m),
         y.from_ = x.from_, y.to = x.to, y.body = x.body \o front
  PROVE  Holds(y, s, d, n, n - 1)
<1>1. /\ g >= 2 /\ ~(g < 2) /\ ~(g < d) /\ g < n - 1 /\ g >= d
      /\ n - 1 >= 2 /\ ~(n - 1 < 2) /\ ~(n - 1 < d) /\ ~(n - 1 <= d) /\ ~(n - 1 < n - 1)
      /\ (g - d) + m = n - 2 - d
      /\ g <= d => g - d = 0
  OBVIOUS
<1>2. /\ x.from_ = s[2].addr
      /\ Len(x.to) = d - 3 /\ \A i \in 1..Len(x.to) : x.to[i] = s[i + 2].addr
      /\ Len(x.body) = g - d /\ \A i \in 1..Len(x.body) : x.body[i] = s[i + d]
  BY ONLY <1>1, Holds(x, s, d, n, g), d \in Nat, g \in Nat, n \in Nat DEF Holds
<1>3. Stands(x.body, s, d, g - d)
  <2>1. \A i \in 1..(g - d) : i + d = d + i
    OBVIOUS
  <2> QED
    BY <1>2, <2>1 DEF Stands
<1>4. Stands(x.body \o front, s, d, (g - d) + m)
  <2>1. g - d \in Nat /\ d + (g - d) = g
    OBVIOUS
  <2> QED
    BY <1>3, <2>1, Extended
<1>5. /\ Len(y.body) = n - 2 - d
      /\ \A i \in 1..Len(y.body) : y.body[i] = s[i + d]
  <2>1. Stands(y.body, s, d, n - 2 - d)
    BY <1>1, <1>4
  <2>2. \A i \in 1..(n - 2 - d) : i + d = d + i
    OBVIOUS
  <2> QED
    BY <2>1, <2>2 DEF Stands
<1>6. /\ y.from_ = s[2].addr
      /\ Len(y.to) = d - 3 /\ \A i \in 1..Len(y.to) : y.to[i] = s[i + 2].addr
  BY <1>2
<1> QED
  BY ONLY <1>1, <1>5, <1>6 DEF Holds

(* A part of the message is heard: the body grows by it, up to the dot. *)
LEMMA EndFields ==
  ASSUME TypeOK, NEW c \in Conn, HearsEnd(c)
  PROVE  /\ session'[c].state = "data_end_write"
         /\ session'[c].from_ = session[c].from_ /\ session'[c].to = session[c].to
         /\ session'[c].body = session[c].body \o DATA_end_group(Received(c))
         /\ session'[c].file_path = files + 1
BY HeardFields

LEMMA HoldsMessage ==
  ASSUME TypeOK, TypeOK', NEW c \in Conn, NEW s \in Seq(Piece), NEW d, NEW n, Shape(s, d, n),
         NEW g \in d..(n - 2), Holds(session[c], s, d, n, g),
         NEW line \in Seq(Piece), line = Received(c),
         NEW k \in 1..(n - 1 - g), Len(line) = k,
         \A i \in 1..k : line[i] = s[g + i],
         g + k # n - 1 => HearsMore(c),
         g + k = n - 1 => HearsEnd(c) /\ DATA_end_group(line) = Front(line)
  PROVE  /\ session'[c].state = IF g + k = n - 1 THEN "data_end_write" ELSE "data"
         /\ Holds(session'[c], s, d, n, g + k)
<1>0. /\ d \in Nat /\ n \in Nat /\ d >= 4 /\ d <= n - 2
      /\ g \in Nat /\ d <= g /\ g <= n - 2
  BY DEF Shape
<1>1. session[c] \in SessionType
  BY DEF TypeOK
<1>2. session[c].body \in Seq(Piece)
  BY <1>1 DEF SessionType
<1>3. k \in Nat /\ k - 1 \in Nat /\ k = (k - 1) + 1 /\ g + k <= n - 1
  BY <1>0
<1>4. Holds(session[c], s, d, n, g)
  OBVIOUS
<1>5. CASE g + k # n - 1
  <2>1. /\ session'[c].state = "data"
        /\ session'[c].data_start_already_matched = session[c].data_start_already_matched
        /\ session'[c].from_ = session[c].from_ /\ session'[c].to = session[c].to
        /\ session'[c].body = session[c].body \o line
        /\ session'[c].file_path = session[c].file_path
    <3>1. HearsMore(c)
      BY <1>5
    <3> QED
      BY <3>1, HeardFields
  <2>2. 4 <= d /\ d <= g /\ 1 <= k /\ g + k < n - 1
    BY ONLY <1>0, <1>3, <1>5
  <2>3. Holds(session'[c], s, d, n, g + k)
    <3>1. Stands(line, s, g, k)
      BY DEF Stands
    <3> QED
      BY ONLY <1>0, <1>2, <1>3, <1>4, <2>1, <2>2, <3>1, HoldsMore
  <2> QED
    BY <1>5, <2>1, <2>3
<1>6. CASE g + k = n - 1
  <2>1. /\ session'[c].state = "data_end_write"
        /\ session'[c].from_ = session[c].from_ /\ session'[c].to = session[c].to
        /\ session'[c].body = session[c].body \o Front(line)
    <3>1. HearsEnd(c) /\ DATA_end_group(Received(c)) = Front(line)
      BY <1>6
    <3>2. /\ session'[c].state = "data_end_write"
          /\ session'[c].from_ = session[c].from_ /\ session'[c].to = session[c].to
          /\ session'[c].body = session[c].body \o DATA_end_group(Received(c))
      BY <3>1, EndFields
    <3> QED
      BY <3>1, <3>2
  <2> DEFINE front == Front(line)
             m == k - 1
  <2>2. m \in Nat /\ k = m + 1 /\ 4 <= d /\ d <= g /\ g + m = n - 2
    BY ONLY <1>0, <1>3, <1>6
  <2> HIDE DEF m
  <2>3. /\ front \in Seq(Piece) /\ Len(front) = m
        /\ \A i \in 1..m : front[i] = line[i]
    BY <2>2, FrontPieces
  <2>4. \A i \in 1..m : front[i] = s[g + i]
    <3>1. \A i \in 1..m : i \in 1..k
      BY <2>2
    <3> QED
      BY <2>3, <3>1
  <2>5. session'[c].body = session[c].body \o front
    BY <2>1
  <2> HIDE DEF front
  <2>6. Holds(session'[c], s, d, n, n - 1)
    <3>1. Stands(front, s, g, m)
      BY <2>3, <2>4 DEF Stands
    <3> QED
      BY ONLY <1>0, <1>2, <1>4, <2>1, <2>2, <2>5, <3>1, HoldsEnd
  <2> QED
    BY <1>6, <2>1, <2>6
<1> QED
  BY <1>5, <1>6

-----------------------------------------------------------------------------
(* What a step does to a dialog.                                           *)

(* The mail of a session, as to_file writes it. *)
SameMail(x, y) ==
  y.from_ = x.from_ /\ y.to = x.to /\ y.body = x.body /\ y.file_path = x.file_path

(* A read makes the dialog go on; it writes the mail just when the message *)
(* has come to its end.                                                    *)
ReadOutcome(c) ==
  \/ /\ UNCHANGED <<store, files>> /\ got'[c] >= got[c]
     /\ got[c] >= Len(script[c]) - 1 => SameMail(session[c], session'[c])
     /\ session'[c].file_path = session[c].file_path
  \/ got[c] < Len(script[c]) - 1 /\ got'[c] = Len(script[c]) - 1 /\ HearsEnd(c)

LEMMA DialogCommand ==
  ASSUME TypeOK, TypeOK', NEW c \in Conn, IsDialog(script[c]), InDialog(c),
         handle_client_read(c), NEW d, d = DataAt(script[c]), got[c] < d,
         sent[c] = got[c] + 1, Len(outbox[c]) = got[c] + 1, session[c].state = HeardAt(got[c])
  PROVE  InDialog(c)' /\ ReadOutcome(c)
<1> DEFINE s == script[c]
           n == Len(s)
           g == got[c]
           line == Received(c)
<1>1. /\ s \in Seq(Piece) /\ Shape(s, d, n) /\ g \in Nat
      /\ outbox[c] \in Seq(ReplyType) /\ Len(outbox[c]) \in Nat /\ seen[c] \in Nat
  BY DialogTyped
<1>2. d \in Nat /\ n \in Nat /\ d >= 4 /\ d <= n - 2 /\ g \in 0..(d - 1) /\ g < n - 1
  BY <1>1 DEF Shape
<1>3. line \in Seq(Piece) /\ Len(line) = 1 /\ line[1] = s[g + 1]
  <2>1. got[c] < sent[c] /\ sent[c] - got[c] = 1
    BY <1>1
  <2>2. line \in Seq(Piece) /\ Len(line) \in 1..1
    BY <2>1, ReceivedTyped
  <2>3. \A i \in 1..Len(line) : line[i] = s[g + i]
    BY <2>1, ReceivedPieces
  <2> HIDE DEF line, g, s
  <2>4. Len(line) = 1
    BY <2>2
  <2> QED
    BY <2>2, <2>3, <2>4
<1>4. Holds(session[c], s, d, n, g) /\ ~session[c].data_start_already_matched
  <2>1. Holds(session[c], s, d, n, g)
    BY DEF InDialog, Spoken
  <2>2. g < n - 1 /\ ~(g >= d)
    BY <1>2
  <2> QED
    BY ONLY <2>1, <2>2 DEF Holds
<1>5. /\ ~Undecodable(line)
      /\ ReadTrigger(session[c], line) = CommandAt(d, g)
      /\ g = 1 => Path_group(line, "MAIL") = s[g + 1].addr
      /\ g \in 2..(d - 2) => Path_group(line, "RCPT") = s[g + 1].addr
      /\ g = d - 1 => DATA_start_group(line) = <<>>
  <2>1. session[c].state = HeardAt(g) /\ g \in 0..(d - 1)
    BY <1>2
  <2> HIDE DEF line, g, n, s
  <2> QED
    BY ONLY <1>1, <1>3, <1>4, <2>1, CommandHeard
<1>6. /\ got' = [got EXCEPT ![c] = g + 1]
      /\ g = 0 => HearsCommand(c) /\ session'[c].state = "helo_write"
      /\ g = 1 => HearsSender(c)
      /\ g \in 2..(d - 2) => HearsRecipient(c)
      /\ g = d - 1 => HearsStart(c)
  <2> DEFINE u == CommandAt(d, g)
  <2>1. /\ g = 0 => u = "HELO"
        /\ g = 1 => u = "MAIL_FROM"
        /\ g \in 2..(d - 2) => u \in {"RCPT_TO", "ANOTHER_RECEPIENT"}
        /\ g = d - 1 => u = "DATA_start"
        /\ u # "none"
    BY <1>2 DEF CommandAt
  <2>2. got[c] < sent[c] /\ ReadTrigger(session[c], Received(c)) = u
    BY <1>1, <1>5
  <2> HIDE DEF u
  <2> QED
    BY <1>3, <1>5, <2>1, <2>2, ReadTold
<1>7. UNCHANGED <<script, sent, outbox, seen>> /\ got'[c] = g + 1
  <2>1. UNCHANGED <<script, sent, outbox, seen>>
    BY ReadNet
  <2>2. got'[c] = g + 1
    BY <1>6 DEF TypeOK
  <2> QED
    BY <2>1, <2>2
<1>8. /\ session'[c].state = OwedAt(d, g + 1)
      /\ Holds(session'[c], s, d, n, g + 1)
  <2>1. /\ g = 1 => HearsSender(c) /\ Path_group(Received(c), "MAIL") = s[2].addr
        /\ g \in 2..(d - 2) =>
             HearsRecipient(c) /\ Path_group(Received(c), "RCPT") = s[g + 1].addr
        /\ g = d - 1 => HearsStart(c) /\ DATA_start_group(Received(c)) = <<>>
    BY <1>5, <1>6
  <2>2. /\ s \in Seq(Piece) /\ Shape(s, d, n) /\ g \in 0..(d - 1)
        /\ session[c].state = HeardAt(g) /\ Holds(session[c], s, d, n, g)
        /\ g = 0 => HearsCommand(c) /\ session'[c].state = "helo_write"
    BY <1>1, <1>2, <1>4, <1>6
  <2> HIDE DEF s, n, g
  <2> QED
    BY ONLY TypeOK, TypeOK', c \in Conn, <2>1, <2>2, HoldsCommand
<1>9. Talk(session'[c].state, d, n, g + 1, Len(outbox[c]), sent[c])
  BY <1>1, <1>2, <1>8 DEF Talk
<1>10. InDialog(c)'
  BY <1>7, <1>8, <1>9 DEF InDialog, Spoken
<1>11. UNCHANGED <<store, files>> /\ session'[c].file_path = session[c].file_path
  <2>1. g = 0 \/ g = 1 \/ g \in 2..(d - 2) \/ g = d - 1
    BY <1>2
  <2>2. HearsCommand(c) \/ HearsSender(c) \/ HearsRecipient(c) \/ HearsStart(c)
    BY <1>6, <2>1
  <2>3. session'[c].file_path = session[c].file_path
    BY <2>2, HeardFields
  <2> QED
    BY <2>2, <2>3 DEF HearsCommand, HearsSender, HearsRecipient, HearsStart
<1> QED
  BY <1>2, <1>7, <1>10, <1>11 DEF ReadOutcome

LEMMA DialogMessage ==
  ASSUME TypeOK, TypeOK', NEW c \in Conn, IsDialog(script[c]), InDialog(c),
         handle_client_read(c), NEW d, d = DataAt(script[c]),
         got[c] \in d..(Len(script[c]) - 2), sent[c] \in (got[c] + 1)..(Len(script[c]) - 1),
         Len(outbox[c]) = d + 1, session[c].state = "data"
  PROVE  InDialog(c)' /\ ReadOutcome(c)
<1> DEFINE s == script[c]
           n == Len(s)
           g == got[c]
           line == Received(c)
           k == Len(line)
<1>1. /\ s \in Seq(Piece) /\ Shape(s, d, n) /\ g \in Nat /\ sent[c] \in Nat
      /\ outbox[c] \in Seq(ReplyType) /\ Len(outbox[c]) \in Nat /\ seen[c] \in Nat
  BY DialogTyped
<1>2. d \in Nat /\ n \in Nat /\ d >= 4 /\ d <= n - 2 /\ g >= d /\ g < n - 1
  BY <1>1 DEF Shape
<1>3. /\ line \in Seq(Piece) /\ k \in 1..(n - 1 - g) /\ g + k <= sent[c]
      /\ \A i \in 1..k : line[i] = s[g + i]
  <2>1. got[c] < sent[c] /\ sent[c] <= n - 1
    BY <1>1
  <2>2. line \in Seq(Piece) /\ k \in 1..(sent[c] - got[c])
    BY <2>1, ReceivedTyped
  <2>3. \A i \in 1..k : line[i] = s[g + i]
    BY <2>1, ReceivedPieces
  <2>4. k \in 1..(n - 1 - g) /\ g + k <= sent[c]
    <3>1. sent[c] \in Nat /\ g \in Nat /\ n \in Nat /\ sent[c] <= n - 1 /\ k \in 1..(sent[c] - g)
      BY <1>1, <1>2, <2>1, <2>2
    <3> HIDE DEF k, n, g
    <3> QED
      BY ONLY <3>1
  <2> QED
    BY <2>2, <2>3, <2>4
<1>4. Holds(session[c], s, d, n, g) /\ session[c].data_start_already_matched
  BY <1>2 DEF InDialog, Spoken, Holds
<1>5. /\ ~Undecodable(line)
      /\ ReadTrigger(session[c], line) = IF g + k = n - 1 THEN "DATA_end" ELSE "DATA_additional"
      /\ g + k = n - 1 => DATA_end_group(line) = Front(line)
  <2>1. g \in d..(n - 2) /\ session[c].state = "data"
    OBVIOUS
  <2>2. /\ Shape(s, d, n) /\ line \in Seq(Piece) /\ Len(line) = k
        /\ Len(line) \in 1..(n - 1 - g)
        /\ \A i \in 1..Len(line) : line[i] = s[g + i]
    BY <1>1, <1>3
  <2> HIDE DEF line, g, n, s, k
  <2>3. \A x : x.state = "data" /\ x.data_start_already_matched =>
          /\ ~Undecodable(line)
          /\ ReadTrigger(x, line) =
               IF g + Len(line) = n - 1 THEN "DATA_end" ELSE "DATA_additional"
          /\ g + Len(line) = n - 1 => DATA_end_group(line) = Front(line)
    BY ONLY <2>1, <2>2, MessageHeard
  <2> QED
    BY ONLY <1>4, <2>1, <2>2, <2>3
<1>6. /\ got' = [got EXCEPT ![c] = g + k]
      /\ g + k # n - 1 => HearsMore(c)
      /\ g + k = n - 1 => HearsEnd(c)
  <2> DEFINE u == IF g + k = n - 1 THEN "DATA_end" ELSE "DATA_additional"
  <2>1. u # "none" /\ got[c] < sent[c] /\ ReadTrigger(session[c], Received(c)) = u
    BY <1>1, <1>5
  <2> HIDE DEF u
  <2>2. /\ got' = [got EXCEPT ![c] = g + k]
        /\ u = "DATA_additional" => HearsMore(c)
        /\ u = "DATA_end" => HearsEnd(c)
    BY <1>5, <2>1, ReadTold
  <2> QED
    BY <2>2 DEF u
<1>7. UNCHANGED <<script, sent, outbox, seen>> /\ got'[c] = g + k
  <2>1. UNCHANGED <<script, sent, outbox, seen>>
    BY ReadNet
  <2>2. got'[c] = g + k
    BY <1>6 DEF TypeOK
  <2> QED
    BY <2>1, <2>2
<1>8. /\ session'[c].state = IF g + k = n - 1 THEN "data_end_write" ELSE "data"
      /\ Holds(session'[c], s, d, n, g + k)
  <2>1. g \in d..(n - 2)
    OBVIOUS
  <2>2. /\ g + k # n - 1 => HearsMore(c)
        /\ g + k = n - 1 => HearsEnd(c) /\ DATA_end_group(line) = Front(line)
    BY <1>5, <1>6
  <2> QED
    <3>1. line = Received(c)
      OBVIOUS
    <3>2. /\ k \in 1..(n - 1 - g) /\ Len(line) = k /\ line \in Seq(Piece)
          /\ \A i \in 1..k : line[i] = s[g + i]
          /\ s \in Seq(Piece) /\ Shape(s, d, n) /\ Holds(session[c], s, d, n, g)
      BY <1>1, <1>3, <1>4
    <3> HIDE DEF line, g, n, s, k
    <3>3. \A h, l, t : /\ h \in d..(n - 2) /\ t \in Seq(Piece) /\ Shape(t, d, n)
                       /\ Holds(session[c], t, d, n, h)
                       /\ line \in Seq(Piece) /\ line = Received(c)
                       /\ l \in 1..(n - 1 - h) /\ Len(line) = l
                       /\ \A i \in 1..l : line[i] = t[h + i]
                       /\ h + l # n - 1 => HearsMore(c)
                       /\ h + l = n - 1 => HearsEnd(c) /\ DATA_end_group(line) = Front(line)
             => /\ session'[c].state = IF h + l = n - 1 THEN "data_end_write" ELSE "data"
                /\ Holds(session'[c], t, d, n, h + l)
      BY ONLY TypeOK, TypeOK', c \in Conn, HoldsMessage
    <3> QED
      BY ONLY <2>1, <2>2, <3>1, <3>2, <3>3
<1>9. Talk(session'[c].state, d, n, g + k, Len(outbox[c]), sent[c])
  <2>1. sent[c] <= n - 1 /\ g + k <= n - 1
    BY <1>1, <1>2, <1>3
  <2>2. g + k <= sent[c] /\ Len(outbox[c]) = d + 1 /\ sent[c] \in Nat
    BY <1>1, <1>3
  <2> DEFINE h == g + k
             t == sent[c]
  <2>3. h \in Nat /\ h >= d /\ h <= t /\ t <= n - 1
    <3> HIDE DEF k, n
    <3>1. k \in Nat /\ g \in Nat
      BY ONLY <1>1, <1>2, <1>3
    <3> QED
      BY ONLY <1>2, <2>1, <2>2, <3>1 DEF h, t
  <2>4. session'[c].state = IF h = n - 1 THEN "data_end_write" ELSE "data"
    BY <1>8
  <2> HIDE DEF h, t, n
  <2>5. Talk(session'[c].state, d, n, h, d + 1, t)
    BY ONLY <1>2, <2>2, <2>3, <2>4 DEF Talk, t
  <2> QED
    BY <2>2, <2>5 DEF h, t
<1>10. InDialog(c)'
  BY <1>7, <1>8, <1>9 DEF InDialog, Spoken
<1>11. CASE g + k # n - 1
  <2>1. HearsMore(c)
    BY <1>6, <1>11
  <2>2. session'[c].file_path = session[c].file_path /\ UNCHANGED <<store, files>>
    BY <2>1, HeardFields DEF HearsMore
  <2>3. g + k >= g
    BY <1>1, <1>3
  <2> QED
    BY <1>2, <1>7, <1>10, <2>2, <2>3 DEF ReadOutcome
<1>12. CASE g + k = n - 1
  BY <1>2, <1>6, <1>7, <1>10, <1>12 DEF ReadOutcome
<1> QED
  BY <1>11, <1>12

LEMMA DialogQuit ==
  ASSUME TypeOK, TypeOK', NEW c \in Conn, IsDialog(script[c]), InDialog(c),
         handle_client_read(c), NEW d, d = DataAt(script[c]),
         got[c] = Len(script[c]) - 1, sent[c] = Len(script[c]),
         Len(outbox[c]) = d + 2, session[c].state = "quit"
  PROVE  InDialog(c)' /\ ReadOutcome(c)
<1> DEFINE s == script[c]
           n == Len(s)
           line == Received(c)
<1>1. /\ s \in Seq(Piece) /\ Shape(s, d, n)
      /\ outbox[c] \in Seq(ReplyType) /\ Len(outbox[c]) \in Nat /\ seen[c] \in Nat
  BY DialogTyped
<1>2. d \in Nat /\ n \in Nat /\ d >= 4 /\ d <= n - 2 /\ (n - 1) + 1 = n
  BY <1>1 DEF Shape
<1>3. line \in Seq(Piece) /\ Len(line) = 1 /\ line[1] = s[n] /\ got[c] < sent[c]
  <2>1. got[c] < sent[c] /\ sent[c] - got[c] = 1
    BY <1>2
  <2>2. line \in Seq(Piece) /\ Len(line) \in 1..1
    BY <2>1, ReceivedTyped
  <2>3. \A i \in 1..Len(line) : line[i] = s[(n - 1) + i]
    BY <2>1, ReceivedPieces
  <2>4. Len(line) = 1
    BY <2>2
  <2> HIDE DEF line, n
  <2> QED
    BY <1>2, <2>1, <2>2, <2>3, <2>4
<1>4. ~Undecodable(line) /\ ReadTrigger(session[c], line) = "QUIT"
  BY <1>1, <1>3, QuitHeard
<1>5. /\ got' = [got EXCEPT ![c] = (n - 1) + 1]
      /\ HearsCommand(c) /\ session'[c].state = "quit_write"
  BY <1>3, <1>4, ReadTold
<1>6. UNCHANGED <<script, sent, outbox, seen>> /\ got'[c] = n
  <2>1. UNCHANGED <<script, sent, outbox, seen>>
    BY ReadNet
  <2>2. got'[c] = n
    BY <1>2, <1>5 DEF TypeOK
  <2> QED
    BY <2>1, <2>2
<1>7. /\ session'[c].data_start_already_matched = session[c].data_start_already_matched
      /\ SameMail(session[c], session'[c])
  BY <1>5, HeardFields DEF SameMail
<1>8. Holds(session'[c], s, d, n, n)
  <2>1. Holds(session[c], s, d, n, n - 1)
    BY DEF InDialog, Spoken
  <2>2. /\ n >= 2 /\ ~(n < 2) /\ ~(n < d) /\ ~(n <= d) /\ ~(n < n - 1)
        /\ n - 1 >= 2 /\ ~(n - 1 < 2) /\ ~(n - 1 < d) /\ ~(n - 1 <= d) /\ ~(n - 1 < n - 1)
    <3> HIDE DEF n
    <3> QED
      BY ONLY <1>2
  <2> HIDE DEF n, s
  <2> QED
    BY ONLY <1>7, <2>1, <2>2 DEF Holds, SameMail
<1>9. Talk(session'[c].state, d, n, n, Len(outbox[c]), sent[c])
  BY <1>2, <1>5 DEF Talk
<1>10. InDialog(c)'
  BY <1>6, <1>8, <1>9 DEF InDialog, Spoken
<1>11. UNCHANGED <<store, files>>
  BY <1>5 DEF HearsCommand
<1> QED
  BY <1>2, <1>6, <1>7, <1>10, <1>11 DEF ReadOutcome, SameMail

LEMMA DialogRead ==
  ASSUME TypeOK, TypeOK', NEW c \in Conn, IsDialog(script[c]), InDialog(c),
         handle_client_read(c)
  PROVE  InDialog(c)' /\ ReadOutcome(c)
<1> DEFINE s == script[c]
           n == Len(s)
           d == DataAt(s)
           r == Len(outbox[c])
<1>1. /\ s \in Seq(Piece) /\ Shape(s, d, n) /\ r \in Nat
      /\ got[c] \in Nat /\ sent[c] \in Nat
  BY DialogTyped
<1>2. d \in Nat /\ n \in Nat /\ d >= 4 /\ d <= n - 2
  BY <1>1 DEF Shape
<1>3. Talk(session[c].state, d, n, got[c], r, sent[c])
  BY DEF InDialog, Spoken
<1> HIDE DEF d, n, r
<1>4. CASE ~(got[c] < sent[c])
  <2>1. UNCHANGED <<session, store, files, got, script, sent, outbox, seen>>
    BY <1>4, ReadNothing, ReadNet
  <2> QED
    BY <1>1, <2>1 DEF InDialog, ReadOutcome, SameMail
<1>5. CASE got[c] < sent[c]
  <2>1. \/ got[c] < d /\ r = got[c] + 1 /\ sent[c] = got[c] + 1 /\ session[c].state = HeardAt(got[c])
        \/ /\ got[c] \in d..(n - 2) /\ r = d + 1 /\ sent[c] \in (got[c] + 1)..(n - 1)
           /\ session[c].state = "data"
        \/ got[c] = n - 1 /\ r = d + 2 /\ sent[c] = n /\ session[c].state = "quit"
    BY <1>1, <1>2, <1>3, <1>5, TalkArrived
  <2> USE DEF d, n, r
  <2>2. CASE got[c] < d /\ r = got[c] + 1 /\ sent[c] = got[c] + 1 /\ session[c].state = HeardAt(got[c])
    BY <2>2, DialogCommand
  <2>3. CASE /\ got[c] \in d..(n - 2) /\ r = d + 1 /\ sent[c] \in (got[c] + 1)..(n - 1)
             /\ session[c].state = "data"
    BY <2>3, DialogMessage
  <2>4. CASE got[c] = n - 1 /\ r = d + 2 /\ sent[c] = n /\ session[c].state = "quit"
    BY <2>4, DialogQuit
  <2> QED
    BY <2>1, <2>2, <2>3, <2>4
<1> QED
  BY <1>4, <1>5

LEMMA ReadOthers ==
  ASSUME TypeOK, NEW c \in Conn, handle_client_read(c)
  PROVE  \A e \in Conn \ {c} : session'[e] = session[e] /\ got'[e] = got[e]
<1>1. \A e \in Conn \ {c} : session'[e] = session[e]
  BY ReadEffect, HeardOthers
<1>2. UNCHANGED got \/ got' = [got EXCEPT ![c] = @ + Len(Received(c))]
  BY DEF handle_client_read, ReadCommand, ReadMailFrom, ReadRecipient, ReadDataStart,
         ReadDataAdditional, ReadDataEnd, ReadDropped, ReadEof, ReadFails, ReadingLine
<1> QED
  BY <1>1, <1>2 DEF TypeOK

LEMMA DialogSent ==
  ASSUME TypeOK, NEW c \in Conn, IsDialog(script[c]), InDialog(c), DialogSend(c)
  PROVE  InDialog(c)'
<1> DEFINE s == script[c]
           n == Len(s)
           d == DataAt(s)
           r == Len(outbox[c])
           t == sent[c]
<1>1. /\ Shape(s, d, n) /\ r \in Nat /\ got[c] \in Nat /\ t \in Nat /\ seen[c] \in Nat
  BY DialogTyped
<1>2. /\ Talk(session[c].state, d, n, got[c], r, t) /\ seen[c] <= r
      /\ t < n /\ seen[c] >= Awaited(s, t + 1)
  BY DEF InDialog, Spoken, DialogSend, ClientSend
<1>3. Talk(session[c].state, d, n, got[c], r, t + 1)
  <2>1. d = DataAt(s)
    OBVIOUS
  <2> HIDE DEF d, n, r, s, t
  <2> QED
    BY <1>1, <1>2, <2>1, TalkSent
<1>4. UNCHANGED <<script, session, got, outbox, seen>> /\ sent'[c] = t + 1
  BY DEF DialogSend, ClientSend, local, TypeOK
<1> QED
  BY <1>3, <1>4 DEF InDialog, Spoken

LEMMA DialogReplied ==
  ASSUME TypeOK, NEW c \in Conn, IsDialog(script[c]), InDialog(c), WriteReply(c)
  PROVE  /\ InDialog(c)'
         /\ SameMail(session[c], session'[c])
         /\ \A e \in Conn \ {c} : session'[e] = session[e] /\ outbox'[e] = outbox[e]
         /\ UNCHANGED <<store, files, script, got, sent, seen>>
<1> DEFINE s == script[c]
           n == Len(s)
           d == DataAt(s)
           o == outbox[c]
           r == Len(o)
<1>1. /\ Shape(s, d, n) /\ r \in Nat /\ got[c] \in Nat /\ sent[c] \in Nat /\ seen[c] \in Nat
      /\ o \in Seq(ReplyType) /\ session[c] \in SessionType
  BY DialogTyped
<1>2. d \in Nat /\ n \in Nat /\ d >= 4 /\ d <= n - 2
  BY <1>1 DEF Shape
<1>3. PICK trigger, dest :
        /\ Reply(session[c].state, trigger, dest)
        /\ trigger \in {WriteTrigger[x] : x \in State}
        /\ session' = [session EXCEPT ![c] = [session[c] EXCEPT !.state = dest]]
        /\ outbox' = [outbox EXCEPT ![c] =
             Append(o, [trigger |-> trigger, file_path |-> session[c].file_path])]
  BY ReplyEffect
<1>4. UNCHANGED <<store, files, script, sent, got, seen>>
  BY ReplyEffect
<1>5. \A e \in Conn \ {c} : session'[e] = session[e] /\ outbox'[e] = outbox[e]
  BY <1>3 DEF TypeOK
<1> DEFINE reply == [trigger |-> trigger, file_path |-> session[c].file_path]
<1>6. session'[c] = [session[c] EXCEPT !.state = dest] /\ outbox'[c] = Append(o, reply)
  BY <1>3 DEF TypeOK
<1>7. /\ session'[c].state = dest /\ SameMail(session[c], session'[c])
      /\ session'[c].data_start_already_matched = session[c].data_start_already_matched
  BY <1>1, <1>6 DEF SessionType, SameMail
<1>8. reply \in ReplyType /\ reply.trigger = trigger
  BY <1>1, <1>3 DEF ReplyType, SessionType
<1>9. /\ Talk(session[c].state, d, n, got[c], r, sent[c]) /\ seen[c] <= r
      /\ Holds(session[c], s, d, n, got[c])
      /\ \A i \in 1..r : o[i].trigger = ReplyAt(d, i)
  BY DEF InDialog, Spoken
<1>10. /\ Len(outbox'[c]) = r + 1 /\ outbox'[c][r + 1] = reply
       /\ \A i \in 1..r : outbox'[c][i] = o[i]
  <2> HIDE DEF o, reply
  <2> QED
    BY <1>1, <1>6, <1>8, AppendProperties
<1> HIDE DEF d, n, s, o, r, reply
<1>11. trigger = ReplyAt(d, r + 1) /\ Talk(dest, d, n, got[c], r + 1, sent[c])
  <2>1. /\ Reply(session[c].state, trigger, dest)
        /\ Talk(session[c].state, d, n, got[c], r, sent[c])
        /\ got[c] \in Nat /\ r \in Nat /\ sent[c] \in Nat
    BY <1>1, <1>3, <1>9
  <2>2. \A state, h, k, t : h \in Nat /\ k \in Nat /\ t \in Nat /\ Talk(state, d, n, h, k, t)
                            /\ Reply(state, trigger, dest) =>
          trigger = ReplyAt(d, k + 1) /\ Talk(dest, d, n, h, k + 1, t)
    BY ONLY <1>2, TalkReplied
  <2> QED
    BY <2>1, <2>2
<1>12. \A i \in 1..(r + 1) : outbox'[c][i].trigger = ReplyAt(d, i)
  <2>1. \A i \in 1..(r + 1) : i \in 1..r \/ i = r + 1
    BY <1>1
  <2> QED
    BY <1>8, <1>9, <1>10, <1>11, <2>1
<1>13. Holds(session'[c], s, d, n, got[c])
  BY ONLY <1>7, <1>9 DEF Holds, SameMail
<1>14. seen[c] <= r + 1
  BY <1>1, <1>9
<1>15. InDialog(c)'
  BY <1>4, <1>7, <1>10, <1>11, <1>12, <1>13, <1>14 DEF InDialog, Spoken, d, n, s
<1> QED
  BY <1>4, <1>5, <1>7, <1>15

(* A connection is accepted before anything was said on it. *)
LEMMA DialogAccepted ==
  ASSUME SpokenInv, NEW c \in Conn, IsDialog(script[c]), InDialog(c), Accept
  PROVE  /\ InDialog(c)'
         /\ UNCHANGED <<store, files, script, got, sent, seen, outbox>>
         /\ got[c] >= Len(script[c]) - 1 => SameMail(session[c], session'[c])
         /\ session'[c].file_path = session[c].file_path
<1>0. TypeOK
  BY DEF SpokenInv, ListInv
<1>1. UNCHANGED <<store, files, script, got, sent, seen, outbox>>
  BY DEF Accept
<1>2. /\ Head(backlog) \in Conn
      /\ session' = [session EXCEPT ![Head(backlog)] = NewSession]
  BY <1>0, AcceptEffect
<1>3. CASE c # Head(backlog)
  BY <1>0, <1>1, <1>2, <1>3 DEF TypeOK, InDialog, SameMail
<1>4. CASE c = Head(backlog)
  <2> DEFINE s == script[c]
             n == Len(s)
             d == DataAt(s)
  <2>1. Shape(s, d, n) /\ got[c] \in Nat /\ sent[c] \in Nat /\ Len(outbox[c]) \in Nat
    BY <1>0, DialogTyped
  <2>2. d \in Nat /\ n \in Nat /\ d >= 4 /\ d <= n - 2
    BY <2>1 DEF Shape
  <2>3. outbox[c] = <<>>
    <3>1. backlog # <<>> /\ backlog' = Tail(backlog)
      BY DEF Accept
    <3> QED
      BY <1>4, <3>1, Taken DEF Fresh
  <2>4. Len(outbox[c]) = 0
    BY <2>3
  <2>5. session'[c] = NewSession
    BY <1>0, <1>2, <1>4 DEF TypeOK
  <2>6. Talk(session[c].state, d, n, got[c], 0, sent[c]) /\ seen[c] <= 0
        /\ Holds(session[c], s, d, n, got[c])
    BY <2>4 DEF InDialog, Spoken
  <2> HIDE DEF s, d, n
  <2>7. /\ got[c] = 0 /\ sent[c] = 0 /\ session[c].state = "greeting_write"
        /\ Holds(NewSession, s, d, n, got[c])
    BY <2>1, <2>2, <2>6, TalkAccepted
  <2>8. NewSession.state = "greeting_write" /\ NewSession.file_path = 0
    BY DEF NewSession
  <2>9. session[c].file_path = 0 /\ ~(got[c] >= n - 1)
    BY <2>2, <2>6, <2>7 DEF Holds
  <2>10. InDialog(c)'
    <3>1. Talk(NewSession.state, d, n, got[c], 0, sent[c])
      BY <2>6, <2>7, <2>8
    <3>2. \A i \in 1..0 : FALSE
      OBVIOUS
    <3> QED
      BY <1>1, <2>4, <2>5, <2>6, <2>7, <3>1, <3>2 DEF InDialog, Spoken, s, d, n
  <2> QED
    BY <1>1, <2>5, <2>8, <2>9, <2>10 DEF n, s
<1> QED
  BY <1>3, <1>4

(* A step that writes no mail and leaves alone what is complete, and one   *)
(* that writes the mail of a client.                                       *)
Steady ==
  /\ UNCHANGED <<store, files>>
  /\ \A c \in Calm :
       /\ got'[c] >= got[c]
       /\ got[c] >= Len(script[c]) - 1 => SameMail(session[c], session'[c])
       /\ session'[c].file_path = session[c].file_path

Ends(c) ==
  /\ HearsEnd(c)
  /\ c \in Calm => got[c] < Len(script[c]) - 1 /\ got'[c] = Len(script[c]) - 1
  /\ \A e \in Conn \ {c} : session'[e] = session[e] /\ got'[e] = got[e]

(* Every step is one of the two; only a reply adds to what was told.       *)
LEMMA DialogMoves ==
  ASSUME SpokenInv, TypeOK', \A c \in Calm : IsDialog(script[c]) /\ InDialog(c),
         [DialogNext]_vars
  PROVE  /\ \A c \in Calm : InDialog(c)'
         /\ UNCHANGED script
         /\ \/ Steady /\ (UNCHANGED outbox \/ \E c \in Conn : WriteReply(c))
            \/ pc = "reads" /\ UNCHANGED outbox /\ \E c \in Conn : Ends(c)
<1>0. TypeOK /\ ListInv /\ (\A c \in Conn : got[c] \in Nat) /\ Calm \subseteq Conn
  BY CalmAssumption DEF SpokenInv, ListInv, TypeOK
<1>1. ASSUME UNCHANGED <<session, store, files, script, got, sent, outbox, seen>>
      PROVE  /\ \A c \in Calm : InDialog(c)'
             /\ UNCHANGED script /\ Steady /\ UNCHANGED outbox
  BY <1>0, <1>1 DEF InDialog, Steady, SameMail
<1>2. ASSUME NEW c \in Conn, Connect(c)
      PROVE  UNCHANGED <<session, store, files, script, got, sent, outbox, seen>>
  BY <1>2 DEF Connect, local
<1>3. ASSUME NEW c \in Conn, DialogSend(c)
      PROVE  /\ \A e \in Calm : InDialog(e)'
             /\ UNCHANGED script /\ Steady /\ UNCHANGED outbox
  <2>1. /\ UNCHANGED <<session, store, files, script, got, outbox, seen>>
        /\ \A e \in Conn \ {c} : sent'[e] = sent[e]
    BY <1>0, <1>3 DEF DialogSend, ClientSend, local, TypeOK
  <2>2. c \in Calm => InDialog(c)'
    BY <1>0, <1>3, DialogSent
  <2>3. \A e \in Calm \ {c} : InDialog(e)'
    BY <1>0, <2>1 DEF InDialog
  <2> QED
    BY <1>0, <2>1, <2>2, <2>3 DEF Steady, SameMail
<1>4. ASSUME NEW c \in Conn, ClientRecv(c)
      PROVE  /\ \A e \in Calm : InDialog(e)'
             /\ UNCHANGED script /\ Steady /\ UNCHANGED outbox
  <2>1. /\ UNCHANGED <<session, store, files, script, got, sent, outbox>>
        /\ seen' = [seen EXCEPT ![c] = Len(outbox[c])]
    BY <1>4 DEF ClientRecv, local
  <2>2. \A e \in Calm : seen'[e] <= Len(outbox[e])
    <3>1. c \in Calm => Len(outbox[c]) \in Nat /\ seen'[c] = Len(outbox[c])
      BY <1>0, <2>1, DialogTyped DEF TypeOK
    <3>2. \A e \in Calm \ {c} : seen'[e] = seen[e] /\ seen[e] <= Len(outbox[e])
      BY <1>0, <2>1 DEF TypeOK, InDialog, Spoken
    <3> QED
      BY <3>1, <3>2
  <2> QED
    BY <1>0, <2>1, <2>2 DEF InDialog, Spoken, Steady, SameMail
<1>5. CASE Select \/ AcceptTimeout \/ ReadsDone \/ WritesDone \/ UNCHANGED vars
  <2>1. UNCHANGED <<session, store, files, script, got, sent, outbox, seen>>
    BY <1>5 DEF Select, AcceptTimeout, ReadsDone, WritesDone, net, vars, local
  <2> QED
    BY <1>1, <2>1
<1>6. CASE Accept
  <2>1. \A c \in Calm :
          /\ InDialog(c)'
          /\ UNCHANGED <<store, files, script, got, sent, seen, outbox>>
          /\ got[c] >= Len(script[c]) - 1 => SameMail(session[c], session'[c])
          /\ session'[c].file_path = session[c].file_path
    BY <1>0, <1>6, DialogAccepted
  <2>2. UNCHANGED <<store, files, script, got, outbox>>
    BY <1>6 DEF Accept
  <2> QED
    BY <1>0, <2>1, <2>2 DEF Steady
<1>7. ASSUME NEW c \in Conn, handle_client_read(c), pc = "reads"
      PROVE  /\ \A e \in Calm : InDialog(e)'
             /\ UNCHANGED script
             /\ (Steady \/ Ends(c)) /\ UNCHANGED outbox
  <2>1. c \in Calm => InDialog(c)' /\ ReadOutcome(c)
    BY <1>0, <1>7, DialogRead
  <2>2. /\ UNCHANGED <<script, sent, outbox, seen>>
        /\ \A e \in Conn \ {c} : session'[e] = session[e] /\ got'[e] = got[e]
    BY <1>0, <1>7, ReadNet, ReadOthers
  <2>3. \A e \in Calm \ {c} : InDialog(e)'
    BY <1>0, <2>2 DEF InDialog
  <2>4. HearsEnd(c) \/ UNCHANGED <<store, files>>
    BY <1>0, <1>7, ReadEffect DEF HearsCommand, HearsSender, HearsRecipient, HearsStart,
                                  HearsMore, HearsNothing
  <2>5. \A e \in Calm \ {c} :
          /\ got'[e] >= got[e]
          /\ got[e] >= Len(script[e]) - 1 => SameMail(session[e], session'[e])
          /\ session'[e].file_path = session[e].file_path
    BY <1>0, <2>2 DEF SameMail
  <2>6. ASSUME c \in Calm
        PROVE  Steady \/ Ends(c)
    <3>1. CASE /\ UNCHANGED <<store, files>> /\ got'[c] >= got[c]
               /\ got[c] >= Len(script[c]) - 1 => SameMail(session[c], session'[c])
               /\ session'[c].file_path = session[c].file_path
      BY <2>5, <3>1 DEF Steady
    <3>2. CASE got[c] < Len(script[c]) - 1 /\ got'[c] = Len(script[c]) - 1 /\ HearsEnd(c)
      BY <2>2, <3>2 DEF Ends
    <3> QED
      BY <2>1, <2>6, <3>1, <3>2 DEF ReadOutcome
  <2>7. ASSUME c \notin Calm
        PROVE  Steady \/ Ends(c)
    BY <2>2, <2>4, <2>5, <2>7 DEF Steady, Ends
  <2> QED
    BY <2>1, <2>2, <2>3, <2>6, <2>7
<1>8. ASSUME NEW c \in Conn, WriteReply(c)
      PROVE  /\ \A e \in Calm : InDialog(e)'
             /\ UNCHANGED script /\ Steady
  <2>1. /\ UNCHANGED <<store, files, script, got, sent, seen>>
        /\ \A e \in Conn \ {c} : session'[e] = session[e] /\ outbox'[e] = outbox[e]
    <3>1. /\ UNCHANGED <<store, files, script, got, sent, seen>>
          /\ \E x, y : session' = [session EXCEPT ![c] = x] /\ outbox' = [outbox EXCEPT ![c] = y]
      BY <1>0, <1>8, ReplyEffect
    <3> QED
      BY <1>0, <3>1 DEF TypeOK
  <2>2. c \in Calm => InDialog(c)' /\ SameMail(session[c], session'[c])
    BY <1>0, <1>8, DialogReplied
  <2>3. \A e \in Calm \ {c} : InDialog(e)'
    BY <1>0, <2>1 DEF InDialog
  <2> QED
    BY <1>0, <2>1, <2>2, <2>3 DEF Steady, SameMail
<1>9. CASE Handle
  <2>1. ASSUME pc = "reads", NEW c \in rfds, Lookup(c, handle_client_read(c))
        PROVE  c \in Conn /\ handle_client_read(c)
    BY <1>0, <2>1 DEF ListInv, TypeOK, Lookup
  <2>2. ASSUME pc = "writes", NEW c \in wfds, Lookup(c, handle_client_write(c))
        PROVE  /\ c \in Conn
               /\ \/ WriteReply(c)
                  \/ UNCHANGED <<session, store, files, script, got, sent, outbox, seen>>
    <3>1. c \in Conn /\ handle_client_write(c)
      BY <1>0, <2>2 DEF ListInv, TypeOK, Lookup
    <3>2. CASE WriteNothing(c) \/ WriteFails(c)
      BY <3>1, <3>2 DEF WriteNothing, WriteFails, Writing
    <3> QED
      BY <3>1, <3>2 DEF handle_client_write
  <2>3. CASE pc = "reads" /\ \E c \in rfds : Lookup(c, handle_client_read(c))
    BY <1>7, <2>1, <2>3
  <2>4. CASE pc = "writes" /\ \E c \in wfds : Lookup(c, handle_client_write(c))
    <3>1. PICK c \in wfds : Lookup(c, handle_client_write(c))
      BY <2>4
    <3> QED
      BY <1>1, <1>8, <2>2, <2>4, <3>1
  <2> QED
    BY <1>9, <2>3, <2>4 DEF Handle
<1>10. CASE \E c \in Conn : ClientStep(c)
  BY <1>1, <1>2, <1>3, <1>4, <1>10 DEF ClientStep
<1> QED
  BY <1>5, <1>6, <1>9, <1>10 DEF DialogNext, run

LEMMA DialogIsNext == [DialogNext]_vars => [Next]_vars
BY DEF DialogNext, ClientStep, DialogSend, Next, Outside

LEMMA DialogStarts == DialogInit => DialogInv
<1> SUFFICES ASSUME DialogInit
             PROVE  DialogInv
  OBVIOUS
<1>0. /\ Init /\ Calm \subseteq Conn
      /\ \A c \in Calm : IsCalm(script[c]) /\ IsDialog(script[c])
  BY CalmAssumption DEF DialogInit, IsCalm
<1>1. StoreInv /\ SpokenInv /\ TypeOK
  BY <1>0, StoreInit, SpokenInit DEF SpokenInv, ListInv
<1>2. ASSUME NEW c \in Calm
      PROVE  InDialog(c)
  <2>1. Shape(script[c], DataAt(script[c]), Len(script[c]))
    BY <1>0, <1>1, DialogTyped
  <2> DEFINE d == DataAt(script[c])
             n == Len(script[c])
  <2>2. d \in Nat /\ n \in Nat /\ d >= 4 /\ d <= n - 2
    BY <2>1 DEF Shape
  <2>3. /\ session[c] = NewSession /\ got[c] = 0 /\ sent[c] = 0 /\ seen[c] = 0
        /\ outbox[c] = <<>>
    BY <1>0 DEF Init
  <2>4. Len(outbox[c]) = 0
    BY <2>3
  <2>5. /\ NewSession.state = "greeting_write" /\ NewSession.file_path = 0
        /\ NewSession.data_start_already_matched = FALSE
        /\ Len(NewSession.to) = 0 /\ Len(NewSession.body) = 0
    BY DEF NewSession
  <2> HIDE DEF d, n
  <2>6. Talk("greeting_write", d, n, 0, 0, 0)
    BY <2>2 DEF Talk, OwedAt
  <2>7. Holds(NewSession, script[c], d, n, 0)
    BY <2>2, <2>5 DEF Holds
  <2> QED
    BY <2>3, <2>4, <2>5, <2>6, <2>7 DEF InDialog, Spoken, d, n
<1>3. store = {}
  BY <1>0 DEF Init
<1>4. \A c \in Calm : Kept(script[c], session[c], store, got[c], exc)
  BY <1>3 DEF Kept, Mine
<1> QED
  BY <1>0, <1>1, <1>2, <1>3, <1>4 DEF DialogInv

(* The files that the end of the message x leaves: whole, and broken off.  *)
Whole(x, b) == Copy(x, x.file_path, x.body, b)
Torn(x, b)  == Copy(x, x.file_path, Broken, b)

Wrote(x, out) == {Whole(x, b) : b \in out.boxes} \cup {Torn(x, b) : b \in out.torn}

LEMMA WroteLetters ==
  ASSUME NEW x, NEW b
  PROVE  /\ Letter(Whole(x, b)) = Letter(x) /\ Whole(x, b).box = b
         /\ Whole(x, b).file = x.file_path
         /\ Letter(Torn(x, b)) = FragmentOf(Letter(x)) /\ Torn(x, b).box = b
         /\ Torn(x, b).file = x.file_path
BY DEF Whole, Torn, Copy, Broken, Letter, FragmentOf

(* The mail a client has ended is in the boxes under its own name; no      *)
(* other client's is changed by it.                                        *)
LEMMA EndsStored ==
  ASSUME TypeOK, NEW c \in Conn, Ends(c),
         \A f \in store : f.file > 0 /\ f.file <= files,
         \A e \in Conn : session[e].file_path <= files
  PROVE  /\ session'[c].to = session[c].to /\ session'[c].file_path = files + 1
         /\ \A f \in store' : f \in store \/ f.file = files + 1
         /\ \A e \in Conn \ {c} : Mine(session'[e], store') = Mine(session[e], store)
         /\ \E out \in to_file(session[c].to) :
              /\ exc' = IF out.exc = "none" THEN exc ELSE out.exc
              /\ Mine(session'[c], store') = Wrote(session'[c], out)
<1> DEFINE x == session'[c]
<1>0. /\ files \in Nat /\ \A e \in Conn : session[e].file_path \in Nat
      /\ \A f \in store : f.file \in Nat
  BY DEF TypeOK, SessionType, FileType
<1>1. PICK out \in to_file(session[c].to) :
        /\ store' = store
             \cup {Copy(session[c], files + 1, session[c].body \o DATA_end_group(Received(c)), b) :
                     b \in out.boxes}
             \cup {Copy(session[c], files + 1, Broken, b) : b \in out.torn}
        /\ exc' = IF out.exc = "none" THEN exc ELSE out.exc
  BY DEF Ends, HearsEnd
<1>2. /\ x.from_ = session[c].from_ /\ x.to = session[c].to
      /\ x.body = session[c].body \o DATA_end_group(Received(c))
      /\ x.file_path = files + 1
  <2>1. HearsEnd(c)
    BY DEF Ends
  <2> QED
    BY <2>1, EndFields
<1> HIDE DEF x
<1>3. store' = store \cup Wrote(x, out)
  BY <1>1, <1>2 DEF Wrote, Whole, Torn, Copy
<1>4. \A f \in Wrote(x, out) : f.file = files + 1
  BY <1>2, WroteLetters DEF Wrote
<1>5. \A e \in Conn \ {c} : session'[e] = session[e]
  BY DEF Ends
<1>6. \A e \in Conn \ {c} : Mine(session'[e], store') = Mine(session[e], store)
  <2> SUFFICES ASSUME NEW e \in Conn \ {c}
               PROVE  Mine(session'[e], store') = Mine(session[e], store)
    OBVIOUS
  <2>1. session'[e].file_path # files + 1
    BY <1>0, <1>5
  <2> QED
    BY <1>3, <1>4, <1>5, <2>1 DEF Mine
<1>7. Mine(x, store') = Wrote(x, out)
  <2>1. \A f \in store : f.file # files + 1
    BY <1>0
  <2> QED
    BY <1>2, <1>3, <1>4, <2>1 DEF Mine
<1>8. \A f \in store' : f \in store \/ f.file = files + 1
  BY <1>3, <1>4
<1> QED
  BY <1>1, <1>2, <1>6, <1>7, <1>8 DEF x

(* What ends the process is an exception, and nothing happens after it.    *)
LEMMA EndsByException ==
  ASSUME [DialogNext]_vars
  PROVE  /\ pc = "ended" => UNCHANGED <<pc, exc>>
         /\ pc # "ended" /\ pc' = "ended" => exc' # "none"
<1>1. CASE UNCHANGED <<pc, exc>>
  BY <1>1
<1>2. ASSUME NEW c, \/ pc = "reads" /\ Lookup(c, handle_client_read(c))
                    \/ pc = "writes" /\ Lookup(c, handle_client_write(c))
      PROVE  pc # "ended" /\ (UNCHANGED <<pc, exc>> \/ exc' # "none")
  <2>1. ASSUME NEW t, NEW s, NEW e, Fire(c, t, s, e)
        PROVE  UNCHANGED <<pc, exc>> \/ exc' # "none"
    BY <2>1 DEF Fire, Raise
  <2>2. CASE handle_client_read(c)
    BY <1>2, <2>1, <2>2 DEF handle_client_read, ReadCommand, ReadMailFrom, ReadRecipient,
         ReadDataStart, ReadDataAdditional, ReadDataEnd, ReadDropped, ReadEof, ReadFails, Raise
  <2>3. CASE handle_client_write(c)
    BY <1>2, <2>1, <2>3 DEF handle_client_write, WriteNothing, WriteFails, WriteReply, Raise
  <2> QED
    BY <1>2, <2>2, <2>3 DEF Lookup, Raise
<1>3. CASE run
  BY <1>2, <1>3 DEF run, Select, Accept, AcceptTimeout, ReadsDone, WritesDone, Handle, Raise
<1>4. CASE \E c \in Conn : ClientStep(c)
  BY <1>4 DEF ClientStep, Connect, DialogSend, ClientSend, ClientRecv, local
<1> QED
  BY <1>1, <1>3, <1>4 DEF DialogNext, vars, local

(* How the boxes of a client in Calm go on.                                *)
LEMMA KeptSteady ==
  ASSUME DialogInv, Steady, UNCHANGED script, NEW c \in Calm,
         got[c] \in Nat, got'[c] \in Nat, Len(script[c]) \in Nat,
         exc = "OSError" => exc' = exc
  PROVE  Kept(script[c], session[c], store, got[c], exc)'
<1>1. Kept(script[c], session[c], store, got[c], exc)
  BY DEF DialogInv
<1>2. /\ Mine(session'[c], store') = Mine(session[c], store)
      /\ got'[c] >= got[c]
      /\ got[c] >= Len(script[c]) - 1 => Letter(session'[c]) = Letter(session[c])
  BY DEF Steady, Mine, SameMail, Letter
<1>3. CASE Mine(session[c], store) = {}
  BY <1>2, <1>3 DEF Kept
<1>4. CASE Mine(session[c], store) # {}
  <2>1. got[c] >= Len(script[c]) - 1 /\ got'[c] >= Len(script[c]) - 1
    BY <1>1, <1>2, <1>4 DEF Kept
  <2> QED
    BY <1>1, <1>2, <2>1 DEF Kept
<1> QED
  BY <1>3, <1>4

LEMMA KeptOther ==
  ASSUME DialogInv, exc = "none", UNCHANGED script, NEW c \in Calm, NEW g,
         session'[c] = session[c], got'[c] = got[c],
         Mine(session'[c], store') = Mine(session[c], store)
  PROVE  Kept(script[c], session[c], store, got[c], exc)'
<1>1. Kept(script[c], session[c], store, got[c], exc)
  BY DEF DialogInv
<1> QED
  BY <1>1 DEF Kept

LEMMA KeptEnds ==
  ASSUME DialogInv, UNCHANGED script, NEW c \in Calm, Len(script[c]) \in Nat, Ends(c),
         session[c].to \in Seq(Path),
         NEW out \in to_file(session[c].to),
         exc' = IF out.exc = "none" THEN exc ELSE out.exc,
         Mine(session'[c], store') = Wrote(session'[c], out)
  PROVE  Kept(script[c], session[c], store, got[c], exc)'
<1> DEFINE x == session'[c]
<1>1. got'[c] >= Len(script'[c]) - 1
  BY DEF Ends
<1>2. out.torn = {} \/ (out.exc = "OSError" /\ \E b : out.torn = {b})
  BY ToFileWhole
<1> HIDE DEF x
<1>3. Mine(x, store') = Wrote(x, out)
  BY DEF x
<1>4. \A b \in out.boxes : Letter(Whole(x, b)) = Letter(x)
  BY WroteLetters
<1>5. CASE out.torn = {}
  <2>1. \A f \in Mine(x, store') : Letter(f) = Letter(x)
    BY <1>3, <1>4, <1>5 DEF Wrote
  <2> QED
    BY <1>1, <2>1 DEF Kept, x
<1>6. ASSUME out.exc = "OSError", NEW b, out.torn = {b}
      PROVE  Kept(script'[c], x, store', got'[c], exc')
  <2>1. exc' = "OSError"
    BY <1>6
  <2>2. Torn(x, b) \in Mine(x, store') /\ Letter(Torn(x, b)) = FragmentOf(Letter(x))
    BY <1>3, <1>6, WroteLetters DEF Wrote
  <2>3. \A f \in Mine(x, store') \ {Torn(x, b)} : Letter(f) = Letter(x)
    BY <1>3, <1>4, <1>6 DEF Wrote
  <2> QED
    BY <1>1, <2>1, <2>2, <2>3 DEF Kept
<1> QED
  BY <1>2, <1>5, <1>6 DEF x

LEMMA DialogStep == DialogInv /\ [DialogNext]_vars => DialogInv'
<1> SUFFICES ASSUME DialogInv, [DialogNext]_vars
             PROVE  DialogInv'
  OBVIOUS
<1>1. StoreInv' /\ SpokenInv'
  BY DialogIsNext, StoreStep, SpokenStep DEF DialogInv
<1>2. /\ TypeOK /\ TypeOK' /\ SpokenInv /\ StoreInv /\ Calm \subseteq Conn
      /\ files \in Nat /\ \A c \in Calm : IsCalm(script[c]) /\ IsDialog(script[c])
  BY <1>1, CalmAssumption DEF DialogInv, SpokenInv, ListInv, IsCalm, TypeOK
<1>3. \A c \in Calm : Len(script[c]) \in Nat /\ got[c] \in Nat /\ got'[c] \in Nat
  <2>1. \A c \in Calm : Len(script[c]) \in Nat
    BY <1>2, DialogTyped DEF Shape
  <2> QED
    BY <1>2, <2>1 DEF TypeOK
<1>4. /\ \A c \in Calm : InDialog(c)'
      /\ UNCHANGED script
      /\ Steady \/ (pc = "reads" /\ \E c \in Conn : Ends(c))
  <2>1. \A c \in Calm : IsDialog(script[c]) /\ InDialog(c)
    BY <1>2 DEF DialogInv
  <2> QED
    BY <1>2, <2>1, DialogMoves
<1>5. CASE Steady
  <2>1. exc = "OSError" => exc' = exc
    BY <1>2, EndsByException DEF StoreInv
  <2>2. \A c \in Calm : Kept(script[c], session[c], store, got[c], exc)'
    BY <1>3, <1>4, <1>5, <2>1, KeptSteady
  <2>3. \A f \in store' : f.file > 0
    BY <1>5 DEF Steady, DialogInv
  <2> QED
    BY <1>1, <1>2, <1>4, <2>2, <2>3 DEF DialogInv
<1>6. ASSUME NEW c \in Conn, pc = "reads", Ends(c)
      PROVE  DialogInv'
  <2>1. exc = "none"
    BY <1>2, <1>6 DEF StoreInv
  <2>2. /\ \A f \in store' : f \in store \/ f.file = files + 1
        /\ \A e \in Conn \ {c} : Mine(session'[e], store') = Mine(session[e], store)
        /\ \E out \in to_file(session[c].to) :
             /\ exc' = IF out.exc = "none" THEN exc ELSE out.exc
             /\ Mine(session'[c], store') = Wrote(session'[c], out)
    <3>1. /\ \A f \in store : f.file > 0 /\ f.file <= files
          /\ \A e \in Conn : session[e].file_path <= files
      BY <1>2 DEF DialogInv, StoreInv
    <3> QED
      BY <1>2, <1>6, <3>1, EndsStored
  <2>3. \A f \in store' : f.file > 0
    BY <1>2, <2>2 DEF DialogInv
  <2>4. \A e \in Calm \ {c} : Kept(script[e], session[e], store, got[e], exc)'
    <3> SUFFICES ASSUME NEW e \in Calm \ {c}
                 PROVE  Kept(script[e], session[e], store, got[e], exc)'
      OBVIOUS
    <3>1. session'[e] = session[e] /\ got'[e] = got[e]
      BY <1>2, <1>6 DEF Ends
    <3> QED
      BY <1>2, <1>4, <2>1, <2>2, <3>1, KeptOther
  <2>5. c \in Calm => Kept(script[c], session[c], store, got[c], exc)'
    <3>1. session[c].to \in Seq(Path)
      BY <1>2 DEF TypeOK, SessionType
    <3> QED
      BY <1>3, <1>4, <1>6, <2>2, <3>1, KeptEnds
  <2> QED
    BY <1>1, <1>2, <1>4, <2>3, <2>4, <2>5 DEF DialogInv
<1> QED
  BY <1>4, <1>5, <1>6

-----------------------------------------------------------------------------
(* What the clients get, and what lies in the boxes.                       *)

LEMMA InOrder == DialogInv => RepliesInOrder
<1> SUFFICES ASSUME DialogInv, NEW c \in Calm
             PROVE  IsPrefix([i \in DOMAIN outbox[c] |-> outbox[c][i].trigger],
                             ExpectedReplies(script[c]))
  BY DEF RepliesInOrder
<1> DEFINE s == script[c]
           d == DataAt(s)
           n == Len(s)
           o == outbox[c]
           r == Len(o)
           told == [i \in DOMAIN o |-> o[i].trigger]
           all == ExpectedReplies(s)
<1>1. TypeOK /\ c \in Conn /\ IsDialog(script[c])
  BY CalmAssumption DEF DialogInv, SpokenInv, ListInv, IsCalm
<1>2. Shape(s, d, n) /\ r \in Nat /\ o \in Seq(ReplyType) /\ got[c] \in Nat /\ sent[c] \in Nat
  BY <1>1, DialogTyped
<1>3. d \in Nat /\ n \in Nat /\ d >= 4 /\ d <= n - 2
  BY <1>2 DEF Shape
<1>4. all \in Seq(Replies) /\ Len(all) = d + 3 /\ \A i \in 1..(d + 3) : all[i] = ReplyAt(d, i)
  BY <1>2, RepliesOfDialog
<1>5. /\ Talk(session[c].state, d, n, got[c], r, sent[c])
      /\ \A i \in 1..r : o[i].trigger = ReplyAt(d, i)
  BY DEF DialogInv, InDialog, Spoken
<1>6. DOMAIN o = 1..r
  BY <1>2, LenProperties
<1> HIDE DEF s, d, n, o, r, all
<1>7. r <= d + 3
  BY <1>2, <1>3, <1>5 DEF Talk
<1>8. told = [i \in 1..r |-> all[i]]
  <2>1. \A i \in 1..r : o[i].trigger = all[i]
    BY <1>3, <1>2, <1>4, <1>5, <1>7
  <2> QED
    BY <1>6, <2>1
<1>9. /\ told \in Seq(Replies) /\ Len(told) = r /\ \A i \in 1..r : told[i] = all[i]
  <2>1. \A i \in 1..r : all[i] \in Replies
    BY <1>2, <1>3, <1>4, <1>7, ElementOfSeq
  <2> QED
    BY <1>2, <1>8, <2>1
<1> HIDE DEF told
<1>10. SubSeq(told, 1, r) = SubSeq(all, 1, r)
  <2>1. \A i \in 1..r : told[i] \in Replies /\ all[i] \in Replies
    BY <1>2, <1>3, <1>4, <1>7, <1>9, ElementOfSeq
  <2>2. /\ SubSeq(told, 1, r) \in Seq(Replies) /\ SubSeq(all, 1, r) \in Seq(Replies)
        /\ Len(SubSeq(told, 1, r)) = r /\ Len(SubSeq(all, 1, r)) = r
        /\ \A i \in 1..r : SubSeq(told, 1, r)[i] = told[i] /\ SubSeq(all, 1, r)[i] = all[i]
    BY <1>2, <2>1, SubSeqProperties
  <2> QED
    BY <1>9, <2>2, SeqEqual
<1>11. IsPrefix(told, all)
  BY <1>4, <1>7, <1>9, <1>10 DEF IsPrefix
<1> QED
  BY <1>11 DEF told, all, o, s

(* Whatever is sent on the other connections, and however they are cut: a  *)
(* client whose dialog is not cut at a wrong place gets the replies to its *)
(* own commands, in their order, and none besides.                         *)
THEOREM DialogsAreAnsweredInOrder == DialogSpec => []RepliesInOrder
BY InOrder, DialogStarts, DialogStep, PTL DEF DialogSpec

(* The session of a dialog whose message has ended holds the letter.       *)
LEMMA LetterHeld ==
  ASSUME NEW s \in Seq(Piece), IsDialog(s), NEW x \in SessionType, NEW g \in Nat,
         Holds(x, s, DataAt(s), Len(s), g), g >= Len(s) - 1
  PROVE  LetterOf(s) = Letter(x)
<1> DEFINE d == DataAt(s)
           n == Len(s)
<1>2. Shape(s, d, n)
  BY DialogShape
<1>3. d \in Nat /\ n \in Nat /\ d >= 4 /\ d <= n - 2
  BY <1>2 DEF Shape
<1>4. x.to \in Seq(Path) /\ x.body \in Seq(Piece)
  BY <1>2 DEF SessionType
<1>5. Holds(x, s, d, n, g) /\ g >= n - 1
  OBVIOUS
<1> HIDE DEF d, n
<1>6. /\ x.from_ = s[2].addr
      /\ Len(x.to) = d - 3 /\ \A i \in 1..(d - 3) : x.to[i] = s[i + 2].addr
      /\ Len(x.body) = n - 2 - d /\ \A i \in 1..(n - 2 - d) : x.body[i] = s[i + d]
  <2>1. /\ g >= 2 /\ ~(g < 2) /\ ~(g < d) /\ ~(g <= d) /\ ~(g < n - 1)
    BY <1>3, <1>5
  <2> QED
    BY ONLY <1>5, <2>1 DEF Holds
<1>7. x.to = [i \in 1..(d - 3) |-> s[i + 2].addr]
  <2>1. x.to \in [1..(d - 3) -> Path]
    BY <1>4, <1>6, LenProperties
  <2> QED
    BY <1>6, <2>1
<1>8. x.body = SubSeq(s, d + 1, n - 2)
  <2> DEFINE t == SubSeq(s, d + 1, n - 2)
  <2>1. \A i \in (d + 1)..(n - 2) : s[i] \in Piece
    <3>1. \A i \in (d + 1)..(n - 2) : i \in 1..n
      BY <1>3
    <3> QED
      BY <3>1, ElementOfSeq DEF n
  <2>2. /\ t \in Seq(Piece)
        /\ Len(t) = IF d + 1 <= n - 2 THEN n - 2 - (d + 1) + 1 ELSE 0
        /\ \A i \in 1..(n - 2 - (d + 1) + 1) : t[i] = s[d + 1 + i - 1]
    BY <1>3, <2>1, SubSeqProperties
  <2> HIDE DEF t
  <2>3. Len(t) = n - 2 - d /\ \A i \in 1..(n - 2 - d) : t[i] = s[i + d]
    <3>1. /\ n - 2 - (d + 1) + 1 = n - 2 - d
          /\ d + 1 <= n - 2 \/ n - 2 - d = 0
          /\ \A i \in 1..(n - 2 - d) : d + 1 + i - 1 = i + d
      BY <1>3
    <3> QED
      BY <2>2, <3>1
  <2>4. x.body = t
    <3>1. Len(x.body) = Len(t) /\ \A i \in 1..Len(x.body) : x.body[i] = t[i]
      BY ONLY <1>6, <2>3
    <3>2. x.body \in Seq(Piece) /\ t \in Seq(Piece)
      BY ONLY <1>4, <2>2
    <3> QED
      BY ONLY <3>1, <3>2, SeqEqual
  <2> QED
    BY <2>4 DEF t
<1>9. LetterOf(s) = [from_ |-> s[2].addr, to |-> [i \in 1..(d - 3) |-> s[i + 2].addr],
                     body |-> SubSeq(s, d + 1, n - 2)]
  BY DEF LetterOf, d, n
<1> QED
  BY <1>6, <1>7, <1>8, <1>9 DEF Letter

LEMMA LetterOfSession ==
  ASSUME DialogInv, NEW c \in Calm, got[c] >= Len(script[c]) - 1
  PROVE  LetterOf(script[c]) = Letter(session[c])
<1>1. TypeOK /\ IsDialog(script[c]) /\ c \in Conn
  BY CalmAssumption DEF DialogInv, SpokenInv, ListInv, IsCalm
<1>2. /\ script[c] \in Seq(Piece) /\ session[c] \in SessionType /\ got[c] \in Nat
      /\ Holds(session[c], script[c], DataAt(script[c]), Len(script[c]), got[c])
  BY <1>1, DialogTyped DEF DialogInv, InDialog, Spoken
<1> QED
  BY <1>1, <1>2, LetterHeld

(* Whatever is sent on the other connections, and though the disk may fail *)
(* at any time: what lies in a box under the name of the mail of a client  *)
(* whose dialog is not cut at a wrong place is its letter, whole and       *)
(* unmixed, but for at most one file, of the write() that ended the        *)
(* process.                                                                *)
THEOREM LettersAreIntact == DialogSpec => []StoredIntact
<1>1. DialogInv => StoredIntact
  <2> SUFFICES ASSUME DialogInv, NEW c \in Calm,
                      NEW mine, mine = Mine(session[c], store),
                      NEW l, l = LetterOf(script[c]),
                      NEW torn, torn = {f \in mine : Letter(f) # l}
               PROVE  \/ torn = {}
                      \/ /\ exc = "OSError" /\ Cardinality(torn) = 1
                         /\ \A f \in torn : Letter(f) = FragmentOf(l)
    BY DEF StoredIntact, Mine
  <2>1. Kept(script[c], session[c], store, got[c], exc)
    BY DEF DialogInv
  <2>2. CASE mine = {}
    BY <2>2
  <2>3. CASE mine # {}
    <3>1. l = Letter(session[c])
      BY <2>1, <2>3, LetterOfSession DEF Kept
    <3>2. CASE \A f \in mine : Letter(f) = Letter(session[c])
      BY <3>1, <3>2
    <3>3. CASE /\ exc = "OSError"
               /\ \E t \in mine : /\ Letter(t) = FragmentOf(Letter(session[c]))
                                  /\ \A f \in mine \ {t} : Letter(f) = Letter(session[c])
      <4>1. PICK t \in mine : /\ Letter(t) = FragmentOf(l)
                              /\ \A f \in mine \ {t} : Letter(f) = l
        BY <3>1, <3>3
      <4>2. torn = {} \/ torn = {t}
        BY <4>1
      <4>3. Cardinality({t}) = 1
        BY FS_Singleton
      <4> QED
        BY <3>3, <4>1, <4>2, <4>3
    <3> QED
      BY <2>1, <3>2, <3>3 DEF Kept
  <2> QED
    BY <2>2, <2>3
<1> QED
  BY <1>1, DialogStarts, DialogStep, PTL DEF DialogSpec

-----------------------------------------------------------------------------
(* The refinement of MailTransfer, step by step.                           *)

(* A letter that the server takes enters its boxes, all of them unless the *)
(* disk fails.                                                             *)
LEMMA Stored ==
  ASSUME NEW to \in Seq(Path), Storable(to), NEW out \in to_file(to)
  PROVE  /\ out.boxes \subseteq AllBoxes(to) /\ out.torn \subseteq AllBoxes(to)
         /\ out.torn = {} \/ \E b : out.torn = {b}
         /\ out.exc \in {"none", "OSError"}
         /\ out.exc = "none" => out.boxes = AllBoxes(to) /\ out.torn = {}
<1>1. Splittable(to) = Len(to) /\ Len(to) \in Nat
  <2>1. {i \in 1..Len(to) : to[i] = NullPath} = {}
    BY DEF Storable
  <2>2. Len(to) \in Nat
    BY LenProperties
  <2> QED
    BY <2>1, <2>2 DEF Splittable, SelectInSeq
<1> DEFINE n == Len(to)
<1>2. \/ out = End(AllBoxes(to), {}, "none")
      \/ \E i \in {k \in 1..n : DiskMayFail /\ Written(to, k)} : \E torn \in {{}, {Box(to[i])}} :
           out = End(Boxes(to, i - 1), torn, "OSError")
  BY <1>1 DEF to_file, Storable, AllBoxes
<1>3. \A i \in 1..n : Written(to, i) => Box(to[i]) \in AllBoxes(to)
  BY DEF AllBoxes, Boxes
<1>4. \A i \in 1..n : Boxes(to, i - 1) \subseteq AllBoxes(to)
  <2>1. \A i \in 1..n : \A k \in 1..(i - 1) : k \in 1..n
    BY <1>1
  <2> HIDE DEF n
  <2>2. AllBoxes(to) = {Box(to[i]) : i \in {k \in 1..n : Written(to, k)}}
    BY DEF AllBoxes, Boxes, n
  <2> QED
    BY <2>1, <2>2 DEF Boxes
<1>5. out.torn = {} \/ (out.exc = "OSError" /\ \E b : out.torn = {b})
  BY ToFileWhole
<1> HIDE DEF n
<1>6. CASE out = End(AllBoxes(to), {}, "none")
  BY <1>6 DEF End
<1>7. ASSUME NEW i \in 1..n, Written(to, i), NEW torn \in {{}, {Box(to[i])}},
             out = End(Boxes(to, i - 1), torn, "OSError")
      PROVE  /\ out.boxes \subseteq AllBoxes(to) /\ out.torn \subseteq AllBoxes(to)
             /\ out.exc = "OSError"
  BY <1>3, <1>4, <1>7 DEF End
<1> QED
  BY <1>2, <1>5, <1>6, <1>7

(* The replies of a dialog say "queued" when they are that many.           *)
LEMMA ToldWhen ==
  ASSUME NEW o \in Seq(ReplyType), NEW d \in Nat, d >= 4, Len(o) <= d + 3,
         \A i \in 1..Len(o) : o[i].trigger = ReplyAt(d, i)
  PROVE  Count(o, "DATA_end_write") > 0 <=> Len(o) >= d + 2
<1> DEFINE T == {i \in DOMAIN o : o[i].trigger = "DATA_end_write"}
<1>1. DOMAIN o = 1..Len(o) /\ Len(o) \in Nat
  BY LenProperties
<1>2. \A i \in 1..(d + 3) : ReplyAt(d, i) = "DATA_end_write" <=> i = d + 2
  <2>1. \A i \in 1..(d + 3) : i = 1 \/ i = 2 \/ i = 3 \/ i \in 4..d \/ i = d + 1 \/ i = d + 2
                              \/ i = d + 3
    OBVIOUS
  <2> QED
    BY <2>1 DEF ReplyAt
<1>3. T # {} <=> Len(o) >= d + 2
  <2>1. \A i \in 1..Len(o) : i \in 1..(d + 3)
    BY <1>1
  <2>2. \A i : i \in T <=> i \in 1..Len(o) /\ i = d + 2
    BY <1>1, <1>2, <2>1
  <2> HIDE DEF T
  <2>3. Len(o) >= d + 2 <=> d + 2 \in 1..Len(o)
    BY <1>1
  <2> QED
    BY ONLY <2>2, <2>3
<1>4. /\ IsFiniteSet(T) /\ Count(o, "DATA_end_write") \in Nat
      /\ Count(o, "DATA_end_write") = Cardinality(T)
  BY ONLY o \in Seq(ReplyType), CountTyped DEF Count
<1> HIDE DEF T
<1>5. Cardinality(T) > 0 <=> T # {}
  BY ONLY <1>4, FS_EmptySet
<1> QED
  BY ONLY <1>3, <1>4, <1>5

(* The state of MailTransfer that a state stands for. *)
Delivery(f, c) == [client |-> c, box |-> f.box, letter |-> Letter(f)]

Delivered(sessions, mails) ==
  UNION {{Delivery(f, c) : f \in Mine(sessions[c], mails)} : c \in Calm}

ToldSet(replies) == {c \in Calm : Count(replies[c], "DATA_end_write") > 0}

Letters(scripts) == [c \in Calm |-> LetterOf(scripts[c])]

CopiesOf(l, c) == {[client |-> c, box |-> b, letter |-> l] : b \in AllBoxes(l.to)}

FragmentsOf(l, c) == {[client |-> c, box |-> b, letter |-> FragmentOf(l)] : b \in AllBoxes(l.to)}

LEMMA InDelivered ==
  ASSUME NEW sessions, NEW mails
  PROVE  \A p : p \in Delivered(sessions, mails) <=>
           \E c \in Calm : \E f \in Mine(sessions[c], mails) : p = Delivery(f, c)
BY DEF Delivered

(* The steps of MailTransfer in these terms. *)
LEMMA Stutters ==
  ASSUME UNCHANGED <<Letters(script), Delivered(session, store), ToldSet(outbox)>>,
         pc = "ended" <=> pc' = "ended"
  PROVE  UNCHANGED Transfer!vars
BY DEF Transfer!vars, Letters, Delivered, Mine, Delivery, ToldSet, Told, Count

LEMMA Stops ==
  ASSUME UNCHANGED <<Letters(script), Delivered(session, store), ToldSet(outbox)>>,
         pc # "ended", pc' = "ended"
  PROVE  Transfer!Next
<1>1. Transfer!Stop
  BY DEF Transfer!Stop, Letters, Delivered, Mine, Delivery, ToldSet, Told, Count
<1> QED
  BY <1>1 DEF Transfer!Next

(* The step delivers nothing and tells nobody. *)
LEMMA Idles ==
  ASSUME UNCHANGED <<Letters(script), Delivered(session, store), ToldSet(outbox)>>,
         pc = "ended" => pc' = "ended"
  PROVE  [Transfer!Next]_(Transfer!vars)
<1>1. CASE pc = "ended" <=> pc' = "ended"
  BY <1>1, Stutters
<1>2. CASE pc # "ended" /\ pc' = "ended"
  BY <1>2, Stops
<1> QED
  BY <1>1, <1>2

LEMMA Delivers ==
  ASSUME NEW c \in Calm, pc # "ended", pc' # "ended",
         \A p \in Delivered(session, store) : p.client # c,
         Delivered(session', store') =
           Delivered(session, store) \cup CopiesOf(LetterOf(script[c]), c),
         UNCHANGED <<Letters(script), ToldSet(outbox)>>
  PROVE  Transfer!Next
<1>1. Transfer!Deliver(c)
  BY DEF Transfer!Deliver, Transfer!Copies, Transfer!In, CopiesOf, Letters, Delivered, Mine,
         Delivery, ToldSet, Told, Count
<1> QED
  BY <1>1 DEF Transfer!Next

LEMMA BreaksOff ==
  ASSUME NEW c \in Calm, pc # "ended", pc' = "ended",
         \A p \in Delivered(session, store) : p.client # c,
         NEW whole \in SUBSET CopiesOf(LetterOf(script[c]), c),
         NEW torn \in {{}} \cup {{p} : p \in FragmentsOf(LetterOf(script[c]), c)},
         Delivered(session', store') = Delivered(session, store) \cup whole \cup torn,
         UNCHANGED <<Letters(script), ToldSet(outbox)>>
  PROVE  Transfer!Next
<1>1. /\ CopiesOf(LetterOf(script[c]), c) = Transfer!Copies(c)
      /\ FragmentsOf(LetterOf(script[c]), c) = Transfer!Fragments(c)
  BY DEF Transfer!Copies, Transfer!Fragments, Transfer!In, CopiesOf, FragmentsOf
<1>2. /\ whole \in SUBSET Transfer!Copies(c)
      /\ torn \in {{}} \cup {{p} : p \in Transfer!Fragments(c)}
  BY <1>1
<1>3. \E w \in SUBSET Transfer!Copies(c), u \in {{}} \cup {{p} : p \in Transfer!Fragments(c)} :
        Delivered(session', store') = Delivered(session, store) \cup w \cup u
  BY <1>2
<1>4. Transfer!BreakOff(c)
  BY ONLY <1>3, pc # "ended", pc' = "ended", UNCHANGED <<Letters(script), ToldSet(outbox)>>,
          \A p \in Delivered(session, store) : p.client # c
  DEF Transfer!BreakOff, Letters, Delivered, Mine, Delivery, ToldSet, Told, Count
<1> QED
  BY <1>4 DEF Transfer!Next

LEMMA Tells ==
  ASSUME NEW c \in Calm, pc # "ended", pc' # "ended",
         CopiesOf(LetterOf(script[c]), c) \subseteq Delivered(session, store),
         c \notin ToldSet(outbox), ToldSet(outbox)' = ToldSet(outbox) \cup {c},
         UNCHANGED <<Letters(script), Delivered(session, store)>>
  PROVE  Transfer!Next
<1>1. Transfer!Tell(c)
  BY DEF Transfer!Tell, Transfer!Copies, Transfer!In, CopiesOf, Letters, Delivered, Mine,
         Delivery, ToldSet, Told, Count
<1> QED
  BY <1>1 DEF Transfer!Next

(* A reply tells its client, if it is the one that says "queued".          *)
LEMMA ReplyTransfers ==
  ASSUME DialogInv, DialogInv', Steady, UNCHANGED script, NEW c \in Calm, WriteReply(c)
  PROVE  [Transfer!Next]_(Transfer!vars)
<1> DEFINE s == script[c]
           n == Len(s)
           d == DataAt(s)
           r == Len(outbox[c])
<1>0. TypeOK /\ TypeOK' /\ c \in Conn /\ IsCalm(s) /\ IsDialog(s)
  BY CalmAssumption DEF DialogInv, SpokenInv, ListInv, IsCalm
<1>1. /\ Shape(s, d, n) /\ r \in Nat /\ got[c] \in Nat /\ sent[c] \in Nat
      /\ outbox[c] \in Seq(ReplyType) /\ session[c] \in SessionType /\ session[c].state \in State
  BY <1>0, DialogTyped DEF SessionType
<1>2. d \in Nat /\ n \in Nat /\ d >= 4 /\ d <= n - 2
  BY <1>1 DEF Shape
<1>3. PICK trigger, dest :
        /\ Reply(session[c].state, trigger, dest)
        /\ outbox' = [outbox EXCEPT ![c] =
             Append(outbox[c], [trigger |-> trigger, file_path |-> session[c].file_path])]
  BY <1>0, ReplyEffect
<1>4. /\ Talk(session[c].state, d, n, got[c], r, sent[c])
      /\ \A i \in 1..r : outbox[c][i].trigger = ReplyAt(d, i)
  BY DEF DialogInv, InDialog, Spoken
<1>5. /\ \A e \in Conn \ {c} : outbox'[e] = outbox[e]
      /\ outbox'[c] \in Seq(ReplyType) /\ Len(outbox'[c]) = r + 1
      /\ \A i \in 1..(r + 1) : outbox'[c][i].trigger = ReplyAt(d, i)
      /\ r + 1 <= d + 3
  <2>1. \A e \in Conn \ {c} : outbox'[e] = outbox[e]
    BY <1>0, <1>3 DEF TypeOK
  <2>2. outbox'[c] \in Seq(ReplyType)
    BY <1>0 DEF TypeOK
  <2>3. Len(outbox'[c]) = r + 1
    <3>1. outbox'[c] = Append(outbox[c], [trigger |-> trigger, file_path |-> session[c].file_path])
      BY <1>0, <1>3 DEF TypeOK
    <3> QED
      BY <1>1, <2>2, <3>1
  <2>4. Spoken(s, session'[c], got'[c], sent'[c], outbox'[c], seen'[c])
    BY DEF DialogInv, InDialog
  <2>5. /\ Talk(session'[c].state, d, n, got'[c], r + 1, sent'[c])
        /\ \A i \in 1..(r + 1) : outbox'[c][i].trigger = ReplyAt(d, i)
    BY <2>3, <2>4 DEF Spoken
  <2>6. r + 1 <= d + 3
    <3>1. got'[c] \in Nat /\ sent'[c] \in Nat
      BY <1>0 DEF TypeOK
    <3> HIDE DEF s, d, n, r
    <3> QED
      BY <1>1, <1>2, <2>5, <3>1 DEF Talk
  <2> QED
    BY <2>1, <2>2, <2>3, <2>5, <2>6
<1>6. /\ c \in ToldSet(outbox) <=> r >= d + 2
      /\ c \in ToldSet(outbox)' <=> r + 1 >= d + 2
  <2>1. Count(outbox[c], "DATA_end_write") > 0 <=> r >= d + 2
    <3>1. r <= d + 3
      BY <1>1, <1>2, <1>5
    <3> QED
      BY <1>1, <1>2, <1>4, <3>1, ToldWhen
  <2>2. Count(outbox'[c], "DATA_end_write") > 0 <=> r + 1 >= d + 2
    BY <1>2, <1>5, ToldWhen
  <2> QED
    BY <2>1, <2>2 DEF ToldSet
<1>7. \A e \in Calm \ {c} : e \in ToldSet(outbox) <=> e \in ToldSet(outbox)'
  BY <1>5, CalmAssumption DEF ToldSet
<1>8. /\ UNCHANGED <<Letters(script), Delivered(session, store)>>
      /\ pc # "ended" /\ pc' # "ended"
  <2>1. UNCHANGED <<Letters(script), Delivered(session, store)>>
    BY DEF Steady, Letters, Delivered, Delivery, Mine
  <2>2. pc = "writes" /\ pc' = pc
    BY <1>0, ReplyEffect
  <2> QED
    BY <2>1, <2>2
<1>9. CASE r # d + 1
  <2>1. ToldSet(outbox)' = ToldSet(outbox)
    <3>1. c \in ToldSet(outbox)' <=> c \in ToldSet(outbox)
      BY <1>1, <1>2, <1>6, <1>9
    <3>2. ToldSet(outbox) \subseteq Calm /\ ToldSet(outbox)' \subseteq Calm
      BY DEF ToldSet
    <3> QED
      BY <1>7, <3>1, <3>2
  <2> QED
    BY <1>8, <2>1, Stutters
<1>10. CASE r = d + 1
  <2>1. c \notin ToldSet(outbox) /\ ToldSet(outbox)' = ToldSet(outbox) \cup {c}
    <3>1. c \notin ToldSet(outbox) /\ c \in ToldSet(outbox)'
      BY <1>1, <1>2, <1>6, <1>10
    <3>2. ToldSet(outbox) \subseteq Calm /\ ToldSet(outbox)' \subseteq Calm
      BY DEF ToldSet
    <3> QED
      BY <1>7, <3>1, <3>2
  <2>2. session[c].state = "data_end_write" /\ got[c] >= n - 1
    <3>1. Talk(session[c].state, d, n, got[c], r, sent[c]) /\ Reply(session[c].state, trigger, dest)
      BY <1>3, <1>4
    <3>2. \A state, g, t : g \in Nat /\ Talk(state, d, n, g, d + 1, t) /\ state \notin {"data"} =>
            state = "data_end_write" /\ g >= n - 1
      BY ONLY <1>2 DEF Talk
    <3>3. session[c].state # "data"
      BY <3>1 DEF Reply
    <3> QED
      BY <1>1, <1>10, <3>1, <3>2, <3>3
  <2>3. LetterOf(s) = Letter(session[c])
    BY <2>2, LetterOfSession
  <2>4. exc = "none"
    BY DEF WriteReply, Writing, DialogInv, StoreInv
  <2>5. ~Refused(session[c].to)
    <3>1. LetterOf(s).to = session[c].to
      BY <2>3 DEF Letter
    <3> QED
      BY <1>0, <3>1 DEF IsCalm, Storable
  <2>6. AllBoxes(session[c].to) = Copies(session[c], store)
    BY <1>0, <2>2, <2>4, <2>5, QueuedEach DEF QueuedStored, DialogInv, StoreInv
  <2>7. \A b \in AllBoxes(session[c].to) : \E f \in store :
          f.file = session[c].file_path /\ f.box = b /\ Letter(f) = Letter(session[c])
    BY <2>6 DEF Copies, Letter
  <2>8. CopiesOf(LetterOf(s), c) \subseteq Delivered(session, store)
    <3>1. \A b \in AllBoxes(session[c].to) :
            [client |-> c, box |-> b, letter |-> Letter(session[c])] \in Delivered(session, store)
      BY <2>7, InDelivered DEF Delivery, Mine
    <3>2. LetterOf(s).to = session[c].to
      BY <2>3 DEF Letter
    <3> QED
      BY <2>3, <3>1, <3>2 DEF CopiesOf
  <2> QED
    BY <1>8, <2>1, <2>8, Tells
<1> QED
  BY <1>9, <1>10

(* The end of a message delivers it, or breaks off.                        *)
LEMMA Grows ==
  ASSUME NEW c \in Calm, Mine(session[c], store) = {},
         \A e \in Calm \ {c} : Mine(session'[e], store') = Mine(session[e], store)
  PROVE  /\ \A p \in Delivered(session, store) : p.client # c
         /\ Delivered(session', store') =
              Delivered(session, store) \cup {Delivery(f, c) : f \in Mine(session'[c], store')}
<1>1. \A p : p \in Delivered(session, store) <=>
        \E e \in Calm \ {c} : \E f \in Mine(session[e], store) : p = Delivery(f, e)
  BY InDelivered
<1>2. \A p : p \in Delivered(session', store') <=>
        \/ \E f \in Mine(session'[c], store') : p = Delivery(f, c)
        \/ \E e \in Calm \ {c} : \E f \in Mine(session[e], store) : p = Delivery(f, e)
  <2>1. \A p : p \in Delivered(session', store') <=>
          \E e \in Calm : \E f \in Mine(session'[e], store') : p = Delivery(f, e)
    BY InDelivered
  <2> QED
    BY <2>1
<1>3. \A p \in Delivered(session, store) : p.client # c
  BY <1>1 DEF Delivery
<1> QED
  BY <1>1, <1>2, <1>3

LEMMA EndTransfers ==
  ASSUME DialogInv, DialogInv', [DialogNext]_vars, pc = "reads",
         UNCHANGED <<script, outbox>>, NEW c \in Calm, Ends(c)
  PROVE  Transfer!Next
<1> DEFINE s == script[c]
           n == Len(s)
           x == session'[c]
           l == LetterOf(s)
<1>0. /\ TypeOK /\ TypeOK' /\ c \in Conn /\ Calm \subseteq Conn
      /\ IsCalm(s) /\ IsDialog(s) /\ session[c].to \in Seq(Path)
  BY CalmAssumption DEF DialogInv, SpokenInv, ListInv, IsCalm, TypeOK, SessionType
<1>1. /\ \A f \in store : f.file > 0 /\ f.file <= files
      /\ \A e \in Conn : session[e].file_path <= files
      /\ exc = "none"
  BY DEF DialogInv, StoreInv
<1>2. /\ x.to = session[c].to
      /\ \A e \in Conn \ {c} : Mine(session'[e], store') = Mine(session[e], store)
  BY <1>0, <1>1, EndsStored
<1>3. PICK out \in to_file(session[c].to) :
        /\ exc' = IF out.exc = "none" THEN exc ELSE out.exc
        /\ Mine(x, store') = Wrote(x, out)
  BY <1>0, <1>1, EndsStored
<1>4. l = Letter(x) /\ l.to = x.to
  <2>1. s \in Seq(Piece) /\ n \in Nat
    BY <1>0, DialogTyped DEF Shape
  <2>2. x \in SessionType /\ got'[c] \in Nat /\ got'[c] = n - 1
    BY <1>0 DEF TypeOK, Ends
  <2>3. Holds(x, s, DataAt(s), n, got'[c])
    BY DEF DialogInv, InDialog, Spoken
  <2>4. got'[c] >= n - 1
    BY <2>1, <2>2
  <2> HIDE DEF s, x
  <2>5. l = Letter(x)
    BY <1>0, <2>1, <2>2, <2>3, <2>4, LetterHeld
  <2> QED
    BY <2>5 DEF Letter
<1>5. /\ out.boxes \subseteq AllBoxes(l.to) /\ out.torn \subseteq AllBoxes(l.to)
      /\ out.torn = {} \/ \E b : out.torn = {b}
      /\ out.exc \in {"none", "OSError"}
      /\ out.exc = "none" => out.boxes = AllBoxes(l.to) /\ out.torn = {}
  <2>1. Storable(session[c].to) /\ l.to = session[c].to
    BY <1>0, <1>2, <1>4 DEF IsCalm
  <2> QED
    BY <1>0, <2>1, Stored
<1>6. Mine(session[c], store) = {}
  <2>1. Kept(s, session[c], store, got[c], exc) /\ got[c] < n - 1
    BY DEF DialogInv, Ends
  <2>2. got[c] \in Nat /\ n \in Nat
    BY <1>0, DialogTyped DEF Shape
  <2> HIDE DEF n
  <2>3. ~(got[c] >= n - 1)
    BY <2>1, <2>2
  <2> QED
    BY <2>1, <2>3 DEF Kept, n
<1> DEFINE whole == {Delivery(Whole(x, b), c) : b \in out.boxes}
           torn  == {Delivery(Torn(x, b), c) : b \in out.torn}
<1>7. /\ \A p \in Delivered(session, store) : p.client # c
      /\ Delivered(session', store') = Delivered(session, store) \cup whole \cup torn
  <2>1. /\ \A p \in Delivered(session, store) : p.client # c
        /\ Delivered(session', store') =
             Delivered(session, store) \cup {Delivery(f, c) : f \in Mine(x, store')}
    BY <1>0, <1>2, <1>6, Grows
  <2>2. {Delivery(f, c) : f \in Mine(x, store')} = whole \cup torn
    <3> HIDE DEF x
    <3> QED
      BY <1>3 DEF Wrote
  <2> QED
    BY <2>1, <2>2
<1> HIDE DEF x
<1>8. \A b : /\ Delivery(Whole(x, b), c) = [client |-> c, box |-> b, letter |-> l]
             /\ Delivery(Torn(x, b), c) = [client |-> c, box |-> b, letter |-> FragmentOf(l)]
  BY <1>4, WroteLetters DEF Delivery
<1> HIDE DEF l
<1>9. /\ whole \subseteq CopiesOf(l, c) /\ torn \subseteq FragmentsOf(l, c)
      /\ out.boxes = AllBoxes(l.to) => whole = CopiesOf(l, c)
  BY <1>5, <1>8 DEF CopiesOf, FragmentsOf
<1>10. UNCHANGED <<Letters(script), ToldSet(outbox)>>
  BY DEF Letters, ToldSet
<1>11. CASE out.exc = "none"
  <2>1. torn = {} /\ whole = CopiesOf(l, c)
    BY <1>5, <1>9, <1>11
  <2>2. pc # "ended" /\ pc' # "ended"
    BY <1>1, <1>3, <1>11, EndsByException
  <2> HIDE DEF whole, torn
  <2>3. Delivered(session', store') = Delivered(session, store) \cup CopiesOf(LetterOf(script[c]), c)
    BY <1>7, <2>1 DEF l
  <2> QED
    BY <1>7, <1>10, <2>2, <2>3, Delivers
<1>12. CASE out.exc = "OSError"
  <2>1. pc' = "ended"
    <3>1. exc' = "OSError"
      BY <1>3, <1>12
    <3> QED
      BY <3>1 DEF DialogInv, StoreInv
  <2>2. torn = {} \/ \E p : torn = {p}
    BY <1>5
  <2> HIDE DEF whole, torn
  <2>3. /\ whole \in SUBSET CopiesOf(LetterOf(script[c]), c)
        /\ torn \in {{}} \cup {{p} : p \in FragmentsOf(LetterOf(script[c]), c)}
    BY <1>9, <2>2 DEF l
  <2> QED
    BY <1>7, <1>10, <2>1, <2>3, BreaksOff
<1> QED
  BY <1>5, <1>11, <1>12

LEMMA TransferStep == DialogInv /\ [DialogNext]_vars => [Transfer!Next]_(Transfer!vars)
<1> SUFFICES ASSUME DialogInv, [DialogNext]_vars
             PROVE  [Transfer!Next]_(Transfer!vars)
  OBVIOUS
<1>1. /\ DialogInv' /\ TypeOK /\ TypeOK' /\ SpokenInv /\ Calm \subseteq Conn
      /\ \A c \in Calm : IsDialog(script[c]) /\ InDialog(c)
  BY DialogStep, CalmAssumption DEF DialogInv, SpokenInv, ListInv, IsCalm
<1>2. /\ UNCHANGED script
      /\ \/ Steady /\ (UNCHANGED outbox \/ \E c \in Conn : WriteReply(c))
         \/ pc = "reads" /\ UNCHANGED outbox /\ \E c \in Conn : Ends(c)
  BY <1>1, DialogMoves
<1>3. pc = "ended" => pc' = "ended"
  BY EndsByException
<1>4. UNCHANGED Letters(script)
  BY <1>2 DEF Letters
<1>5. Steady => UNCHANGED Delivered(session, store)
  BY DEF Steady, Delivered, Delivery, Mine
<1>6. CASE Steady /\ UNCHANGED outbox
  BY <1>3, <1>4, <1>5, <1>6, Idles DEF ToldSet
<1>7. ASSUME NEW c \in Conn, Steady, WriteReply(c)
      PROVE  [Transfer!Next]_(Transfer!vars)
  <2>1. CASE c \in Calm
    BY <1>1, <1>2, <1>7, <2>1, ReplyTransfers
  <2>2. CASE c \notin Calm
    <3>1. \A e \in Calm : outbox'[e] = outbox[e]
      BY <1>1, <1>7, <2>2, ReplyEffect DEF TypeOK
    <3>2. UNCHANGED ToldSet(outbox)
      BY <3>1 DEF ToldSet
    <3> QED
      BY <1>3, <1>4, <1>5, <1>7, <3>2, Idles
  <2> QED
    BY <2>1, <2>2
<1>8. ASSUME NEW c \in Conn, pc = "reads", UNCHANGED outbox, Ends(c)
      PROVE  [Transfer!Next]_(Transfer!vars)
  <2>1. CASE c \in Calm
    BY <1>1, <1>2, <1>8, <2>1, EndTransfers
  <2>2. CASE c \notin Calm
    <3>1. /\ \A f \in store : f.file > 0 /\ f.file <= files
          /\ \A e \in Conn : session[e].file_path <= files
      BY DEF DialogInv, StoreInv
    <3>2. \A e \in Calm : Mine(session'[e], store') = Mine(session[e], store)
      BY <1>1, <1>8, <2>2, <3>1, EndsStored
    <3>3. UNCHANGED <<Delivered(session, store), ToldSet(outbox)>>
      BY <1>8, <3>2 DEF Delivered, ToldSet
    <3> QED
      BY <1>3, <1>4, <3>3, Idles
  <2> QED
    BY <2>1, <2>2
<1> QED
  BY <1>2, <1>6, <1>7, <1>8

LEMMA TransferInit == DialogInit => Transfer!Init
<1> SUFFICES ASSUME DialogInit
             PROVE  Transfer!Init
  OBVIOUS
<1>0. Init /\ \A c \in Calm : c \in Conn /\ IsCalm(script[c])
  BY CalmAssumption DEF DialogInit
<1>1. [c \in Calm |-> LetterOf(script[c])]
        \in [Calm -> {LetterOf(s) : s \in {x \in Script : IsCalm(x)}}]
  BY <1>0 DEF Init
<1>2. Delivered(session, store) = {}
  BY <1>0 DEF Init, Delivered, Mine
<1>3. ToldSet(outbox) = {}
  <2>1. \A c \in Calm : outbox[c] = <<>>
    BY <1>0 DEF Init
  <2>2. {i \in DOMAIN <<>> : <<>>[i].trigger = "DATA_end_write"} = {}
    OBVIOUS
  <2>3. Count(<<>>, "DATA_end_write") = 0
    BY <2>2, FS_EmptySet DEF Count
  <2> QED
    BY <2>1, <2>3 DEF ToldSet
<1>4. (pc = "ended") = FALSE
  BY <1>0 DEF Init
<1> QED
  BY <1>1, <1>2, <1>3, <1>4
  DEF Transfer!Init, Delivered, Mine, Delivery, ToldSet, Told, Count

(* The process and its clients do what MailTransfer says, whatever is sent *)
(* on the other connections and though the disk may fail: the mail of a    *)
(* client whose dialog is not cut at a wrong place enters all of its boxes *)
(* in one step, complete, and before its sender is told; one that breaks   *)
(* off ends the server, and its sender is not told.                        *)
THEOREM DialogsTransferMail ==
  DialogSpec => Transfer!Init /\ [][Transfer!Next]_(Transfer!vars)
BY DialogStarts, DialogStep, TransferInit, TransferStep, PTL DEF DialogSpec
=============================================================================
