---------------------------- MODULE MailTransfer ----------------------------
(***************************************************************************)
(* What the server promises to the clients that send one mail each, wait   *)
(* for every reply and are not cut at a wrong place: a mail enters all of  *)
(* its boxes at once, complete, before its sender is told so; every sender *)
(* is told in the end.  Where the disk or another client can end the       *)
(* server, it does so once: at most one mail is then left in some of its   *)
(* boxes only, its sender is not told of it, and nothing happens any more. *)
(***************************************************************************)
CONSTANTS
  Client,        (* the senders                                            *)
  Letters,       (* what a letter may be                                   *)
  BoxesOf(_),    (* the boxes a letter has to enter                        *)
  FragmentOf(_)  (* what a failing disk leaves of a letter                 *)

VARIABLES
  letter,    (* the letter of each client                                  *)
  delivered, (* the pairs of a client and a box its letter lies in         *)
  told,      (* the clients that were told of the delivery                 *)
  broken     (* has the server ended?                                      *)

vars == <<letter, delivered, told, broken>>

In(c, l, box) == [client |-> c, box |-> box, letter |-> l]

Copies(c)    == {In(c, letter[c], b) : b \in BoxesOf(letter[c])}
Fragments(c) == {In(c, FragmentOf(letter[c]), b) : b \in BoxesOf(letter[c])}

Deliver(c) ==
  /\ ~broken
  /\ \A p \in delivered : p.client # c
  /\ delivered' = delivered \cup Copies(c)
  /\ UNCHANGED <<letter, told, broken>>

(* The disk fails while the letter of c is written.                        *)
BreakOff(c) ==
  /\ ~broken
  /\ \A p \in delivered : p.client # c
  /\ \E whole \in SUBSET Copies(c), torn \in {{}} \cup {{p} : p \in Fragments(c)} :
       delivered' = delivered \cup whole \cup torn
  /\ broken' = TRUE
  /\ UNCHANGED <<letter, told>>

(* Something else ends the server.                                         *)
Stop ==
  /\ ~broken
  /\ broken' = TRUE
  /\ UNCHANGED <<letter, delivered, told>>

Tell(c) ==
  /\ ~broken
  /\ Copies(c) \subseteq delivered
  /\ c \notin told
  /\ told' = told \cup {c}
  /\ UNCHANGED <<letter, delivered, broken>>

Init ==
  /\ letter \in [Client -> Letters]
  /\ delivered = {}
  /\ told = {}
  /\ broken = FALSE

Next == Stop \/ \E c \in Client : Deliver(c) \/ BreakOff(c) \/ Tell(c)

Spec == Init /\ [][Next]_vars /\ WF_vars(\E c \in Client : Deliver(c) \/ Tell(c))

=============================================================================
