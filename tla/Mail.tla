-------------------------------- MODULE Mail --------------------------------
(***************************************************************************)
(* Mail.to_file of common/mail.py: which maildirs one mail is written to,  *)
(* in which order, and where the writing can break off.                    *)
(***************************************************************************)
EXTENDS SmtpLine

CONSTANTS
  Maildir,        (* DEFAULT_USER_DIR: one box for all foreign addresses   *)
  MaxRecipients,  (* MAX_RECIPIENTS                                        *)
  DiskMayFail     (* may makedirs(), open() or write() raise OSError?      *)

ASSUME MailAssumption ==
  /\ Maildir \notin Path
  /\ MaxRecipients \in Nat
  /\ DiskMayFail \in BOOLEAN

(* A local address has a directory of its own.                             *)
Box(target) == IF target \in Local THEN target ELSE Maildir

(* The early returns: duplicates (432), then too many recipients (452).    *)
HasDuplicates(to) == ~IsInjective(to)
Refused(to) == HasDuplicates(to) \/ Len(to) > MaxRecipients

(* Every local target is written, and of the others the first one.         *)
Written(to, i) ==
  \/ to[i] \in Local
  \/ \A j \in 1..(i - 1) : to[j] \in Local

(* The boxes written once the first n targets have been handled.           *)
Boxes(to, n) == {Box(to[i]) : i \in {k \in 1..n : Written(to, k)}}

AllBoxes(to) == Boxes(to, Len(to))

(* split() of a None raises at the first null path.                        *)
Splittable(to) ==
  LET n == SelectInSeq(to, LAMBDA a : a = NullPath)
  IN  IF n = 0 THEN Len(to) ELSE n - 1

(* How to_file may end: the boxes it wrote, those in which it left a file  *)
(* that is broken off, and the exception it raised.                        *)
End(boxes, torn, exc) == [boxes |-> boxes, torn |-> torn, exc |-> exc]

(* Mutants of to_file: an OSError is swallowed; the loop returns too early.*)
to_file_swallow(to) ==
  {End(IF Refused(to) THEN {} ELSE Boxes(to, i), {}, "none") : i \in 0..Len(to)}

to_file_first(to) ==
  {End(IF Refused(to) THEN {} ELSE Boxes(to, 1), {}, "none")}

(* makedirs() and open() fail before there is a file in the box, write()   *)
(* and the close() of its buffer leave one that is broken off.             *)
to_file(to) ==
  LET n == Splittable(to)
      Whole == End(Boxes(to, n), {}, IF n = Len(to) THEN "none" ELSE "AttributeError")
      Broken == UNION { {End(Boxes(to, i - 1), torn, "OSError") : torn \in {{}, {Box(to[i])}}} :
                          i \in {k \in 1..n : DiskMayFail /\ Written(to, k)} }
  IN  IF Refused(to) THEN {End({}, {}, "none")} ELSE {Whole} \cup Broken

=============================================================================
