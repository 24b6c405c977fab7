----------------------------- MODULE LineBuffer -----------------------------
(***************************************************************************)
(* process_input() and process_nonblock() of log_lib: what is read comes   *)
(* in pieces, and is cut into lines in a buffer that is too small for      *)
(* some of them.                                                           *)
(***************************************************************************)
EXTENDS Integers, Sequences, FiniteSets

CONSTANTS
  InputSize, (* bound: characters of the input                             *)
  buf_size   (* size of the buffer, with the null at its end               *)

ASSUME LineAssumption == InputSize \in Nat /\ buf_size \in Nat \ {0}

Char == {"x", "\n"}
OVERRUN == <<".", ".", ".">>

VARIABLES
  read,     (* what was read so far                                        *)
  line_buf, (* the characters in the buffer                                *)
  messages  (* the lines that were processed                               *)

line_vars == <<read, line_buf, messages>>

-----------------------------------------------------------------------------
(* process_buffer(): the lines of a buffer, and what remains. *)
Newlines(s) == {k \in 1..Len(s) : s[k] = "\n"}

(* Where the k-th line of a buffer ends. *)
LineEnds(s, k) == {e \in Newlines(s) : Cardinality({j \in Newlines(s) : j <= e}) = k}
line_end(s, k) == IF k = 0 THEN 0 ELSE CHOOSE e \in LineEnds(s, k) : TRUE

process_buffer(s) ==
  LET n == Cardinality(Newlines(s))
  IN  [lines |-> [k \in 1..n |-> SubSeq(s, line_end(s, k - 1) + 1, line_end(s, k))],
       rest  |-> SubSeq(s, line_end(s, n) + 1, Len(s))]

(* Mutant of Started: the buffer is emptied when it is full.               *)
Started_empty(s) == IF Len(s) = buf_size - 1 THEN <<>> ELSE s

(* A buffer that is full has no end of a line: it becomes the overrun.     *)
Started(s) == IF Len(s) = buf_size - 1 THEN OVERRUN ELSE s

(* A turn of process_input(): read() returns any part of what fits. *)
process_input ==
  LET s == Started(line_buf)
  IN  \E n \in 1..(buf_size - 1 - Len(s)) : \E piece \in [1..n -> Char] :
        /\ Len(read) + n <= InputSize
        /\ read' = read \o piece
        /\ line_buf' = process_buffer(s \o piece).rest
        /\ messages' = messages \o process_buffer(s \o piece).lines

LineInit == read = <<>> /\ line_buf = <<>> /\ messages = <<>>

LineNext == process_input

LineSpec == LineInit /\ [][LineNext]_line_vars

-----------------------------------------------------------------------------
(* The reference, character by character: a line that would not fit begins *)
(* anew after the overrun.                                                 *)
Turn(r, c) ==
  LET line == Append(IF Len(r.line) = buf_size - 1 THEN OVERRUN ELSE r.line, c)
  IN  IF c = "\n" THEN [lines |-> Append(r.lines, line), line |-> <<>>]
                  ELSE [lines |-> r.lines, line |-> line]

Cut(s) ==
  LET after[k \in 0..Len(s)] ==
        IF k = 0 THEN [lines |-> <<>>, line |-> <<>>] ELSE Turn(after[k - 1], s[k])
  IN  after[Len(s)]

(* The lines that are logged do not depend on the pieces in which the      *)
(* input came, not even those that are too long.                           *)
PiecesDontMatter == messages = Cut(read).lines /\ line_buf = Cut(read).line
=============================================================================
