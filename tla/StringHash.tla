----------------------------- MODULE StringHash -----------------------------
(***************************************************************************)
(* string_hash(): which of the N_SUBS parts of a database a key lives in.  *)
(* A key is the sequence of its characters.  The code masks the sum with   *)
(* 0x0ff, which is the same number as N_SUBS; so does the model, whose     *)
(* N_SUBS is a smaller power of two less one.                              *)
(***************************************************************************)
EXTENDS Integers, Sequences

CONSTANT N_SUBS

MAX_HASH == 16

Smaller(a, b) == IF a < b THEN a ELSE b

(* string[n] >> (n >> 1), for n from 0; >> of a char keeps its sign.       *)
Term(string, n) == string[n + 1] \div (2 ^ (n \div 2))

string_hash(string) ==
  LET sum[n \in 0..Len(string)] ==
        IF n = 0 THEN 0 ELSE sum[n - 1] + Term(string, n - 1)
  IN  sum[Smaller(Len(string), MAX_HASH)] % (N_SUBS + 1)
=============================================================================
