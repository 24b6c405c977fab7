------------------------------ MODULE SmtpLine ------------------------------
(***************************************************************************)
(* What one recv() returns, and how the patterns of server/state.py read   *)
(* it.  A piece is a stretch of what the client sends, up to the next place*)
(* where TCP may cut it; the text that recv() returns, which               *)
(* handle_client_read calls "line", is a non-empty sequence of pieces,     *)
(* because TCP may also join what was sent apart.                          *)
(*                                                                         *)
(* The pieces that are a whole line, or any stretch of one that reads like *)
(* it (a TEXT may be one of the stretches a longer line is cut into, and a *)
(* stretch of a message may begin with "data"):                            *)
(*   HELO            HELO or EHLO and a domain                             *)
(*   MAIL, RCPT      MAIL FROM:<addr>, RCPT TO:<addr>; "<>" is NullPath    *)
(*   DATA, QUIT, RSET   the bare commands                                  *)
(*   DATATEXT        DATA with words behind it                             *)
(*   TEXT            anything else without a dot among its last characters *)
(*   SHORT           a line of at most three characters, or of none        *)
(*   DOTTED          text with a dot in its last eight characters, which   *)
(*                   does not end the line ("see v1.2 now")                *)
(*   SENTENCE        a line whose last character is a dot ("Bye.")         *)
(*   DOT             a line that is a single dot                           *)
(*   RCPTWORD        text that begins with "rcpt" and is not the command   *)
(*   DATAWORD        text that begins with "data" and is not the command   *)
(*   TORN            text that stops inside a multi-byte character         *)
(*   CLIPPED         text that lacks a part: a SENTENCE without its dot,   *)
(*                   the words behind DATA, what a broken write() leaves   *)
(* The pieces of a line that is cut where it matters:                      *)
(*   Part(p)         the line p up to a place behind its first word: it    *)
(*                   lacks its line end at least ("Bye.", ".", "RCPT TO:<a")*)
(*   Stub(p)         the line p up to a place inside its first word        *)
(*   REST            what follows a Part or a Stub, up to the line end     *)
(*   LF              the line feed of a line that was cut before it: the   *)
(*                   patterns take a line that ends with "\r" (but QUIT and*)
(*                   RSET, compared with their line end, are a Part then)  *)
(* The addresses have no dot among the last eight characters of their line *)
(* (SERVER_DOMAIN has none there).                                         *)
(***************************************************************************)
EXTENDS SequencesExt

CONSTANTS
  Address,    (* the addresses clients name                                *)
  Local,      (* those whose domain is SERVER_DOMAIN                       *)
  NullPath    (* group(1) of the patterns when "<>" matched: None          *)

ASSUME AddressAssumption ==
  /\ Local \subseteq Address
  /\ NullPath \notin Address

Path == Address \cup {NullPath}

PlainKind == { "HELO", "DATA", "DATATEXT", "QUIT", "RSET", "TEXT", "SHORT",
               "DOTTED", "SENTENCE", "DOT", "RCPTWORD", "DATAWORD", "TORN",
               "CLIPPED", "REST", "LF" }

Plain(kind) == [kind |-> kind]
MailFrom(a) == [kind |-> "MAIL", addr |-> a]
RcptTo(a)   == [kind |-> "RCPT", addr |-> a]

Line == {Plain(k) : k \in PlainKind} \cup {MailFrom(a) : a \in Path}
                                     \cup {RcptTo(a) : a \in Path}

Part(p) == [kind |-> "PART", of |-> p]
Stub(p) == [kind |-> "STUB", of |-> p]

Piece == Line \cup {Part(p) : p \in Line} \cup {Stub(p) : p \in Line}

IsNull(piece) == piece \in {MailFrom(NullPath), RcptTo(NullPath)}

(* The line a piece belongs to.                                            *)
LineOf(piece) == IF piece.kind \in {"PART", "STUB"} THEN piece.of ELSE piece

(* Is the line at piece i of the text continued by the next piece?         *)
Continued(line, i) == i < Len(line) /\ line[i + 1].kind \in {"REST", "LF"}

(* The first and the last line of a text, joined from their pieces.        *)
FirstLine(line) == IF Continued(line, 1) THEN LineOf(Head(line)) ELSE Head(line)

LastLine(line) ==
  LET n == Len(line)
  IN  IF n > 1 /\ Continued(line, n - 1) THEN LineOf(line[n - 1]) ELSE Last(line)

(* What comes before the last line.                                        *)
BeforeLast(line) ==
  LET n == Len(line)
  IN  SubSeq(line, 1, IF n > 1 /\ Continued(line, n - 1) THEN n - 2 ELSE n - 1)

OneLine(line) == BeforeLast(line) = <<>>

(* The last half of a character is missing: decode() raises.               *)
Undecodable(line) == Last(line).kind = "TORN"

(* "^(HELO|EHLO) (.+)" is anchored at the start only.                      *)
HELO_matched(line) == FirstLine(line).kind = "HELO"

(* "^MAIL FROM: ?<(.+@.+)>|<>\r(\n)?$": either the text begins with the    *)
(* command and an address, or it ends with an empty path, whatever came    *)
(* before it.  RCPT_TO_pattern is built alike.                             *)
Path_matched(line, kind) ==
  \/ FirstLine(line).kind = kind /\ ~IsNull(FirstLine(line))
  \/ IsNull(LastLine(line))

Path_group(line, kind) ==
  IF FirstLine(line).kind = kind THEN FirstLine(line).addr ELSE NullPath

(* The first four characters are there even if the line is cut later.      *)
FirstFour(line, kinds) ==
  \/ FirstLine(line).kind \in kinds
  \/ Head(line).kind = "PART" /\ Head(line).of.kind \in kinds

FirstFourRcpt(line) == FirstFour(line, {"RCPT", "RCPTWORD"})
FirstFourData(line) == FirstFour(line, {"DATA", "DATATEXT", "DATAWORD"})

EndsWithDot(line) ==
  \/ LastLine(line).kind \in {"SENTENCE", "DOT"}
  \/ Last(line).kind = "PART" /\ Last(line).of.kind \in {"SENTENCE", "DOT"}

(* '.' in line[-8:]: in the last line, or behind a short one in the line   *)
(* before it.                                                              *)
DotNear(line) ==
  \/ LastLine(line).kind = "DOTTED"
  \/ EndsWithDot(line)
  \/ LastLine(line).kind = "SHORT" /\ ~OneLine(line) /\ EndsWithDot(BeforeLast(line))

(* DATA_end_pattern: any text, a dot and a line end.  The dot may be on a   *)
(* line of its own or not; the group is everything before it.              *)
DATA_end_matched(line) == LastLine(line).kind \in {"SENTENCE", "DOT"}

DATA_end_group(line) ==
  IF LastLine(line).kind = "DOT" THEN BeforeLast(line)
  ELSE Append(BeforeLast(line), Plain("CLIPPED"))

(* DATA_start_pattern is anchored at both ends and '.' matches no line     *)
(* end, so the command must be the whole text; the group is its words.     *)
DATA_start_matched(line) == OneLine(line) /\ LastLine(line).kind \in {"DATA", "DATATEXT"}

DATA_start_group(line) ==
  IF LastLine(line).kind = "DATATEXT" THEN <<Plain("CLIPPED")>> ELSE <<>>

(* The comparisons with 'quit\r\n' and 'rset\r\n'.                         *)
IsCommand(line, kind) ==
  OneLine(line) /\ LastLine(line).kind = kind /\ Last(line).kind # "LF"

IsQuit(line) == IsCommand(line, "QUIT")
IsRset(line) == IsCommand(line, "RSET")

=============================================================================
