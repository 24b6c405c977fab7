------------------------------ MODULE VdbCalls ------------------------------
(***************************************************************************)
(* The calls of `struct vdb' that a server makes: the n-th call of a       *)
(* caller is a geta(), or a set() with a value or with NULL.               *)
(***************************************************************************)
EXTENDS Naturals

CONSTANTS Caller, Key, Value, Null,
          Calls    (* bound: calls that each caller makes                   *)

MaxCalls == CHOOSE n \in {Calls[c] : c \in Caller} : \A c \in Caller : Calls[c] <= n

Get == [kind : {"get"}, by : Caller, n : 1..MaxCalls, key : Key]
Set == [kind : {"set"}, by : Caller, n : 1..MaxCalls, key : Key, value : Value \cup {Null}]

Call(c, n) == {o \in Get \cup Set : o.by = c /\ o.n = n}
=============================================================================
