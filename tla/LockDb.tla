------------------------------- MODULE LockDb -------------------------------
(***************************************************************************)
(* db_lock: a simple database per part, each behind a read-write lock.     *)
(* The threads of a server call set() and geta(); what they do inside a    *)
(* lock is modelled in the steps that another thread would see: a value    *)
(* that is replaced is freed before the new one is there, and a key that   *)
(* is found is not yet copied.                                             *)
(***************************************************************************)
EXTENDS VdbCalls, StringHash

(* A node without a value: it was just inserted, or its value just freed.  *)
HOLE == "HOLE"
NOBODY == "NOBODY"

(* What stands for no thread and for no value is none; the calls that a    *)
(* thread makes have a bound.                                              *)
ASSUME LockAssumption ==
  /\ NOBODY \notin Caller /\ HOLE \notin Value \cup {Null}
  /\ MaxCalls \in Nat /\ \A c \in Caller : Calls[c] \in 0..MaxCalls

VARIABLES
  store,    (* the nodes of all parts: the value of each key               *)
  readers,  (* the threads that hold each lock for reading                 *)
  writer,   (* the thread that holds it for writing                        *)
  pc,       (* where each thread is                                        *)
  call,     (* the call it is in                                           *)
  copied,   (* `value' in geta()                                           *)
  calls,    (* calls it has made                                           *)
  answers   (* what async_result() was called with                         *)

lock_vars == <<store, readers, writer, pc, call, copied, calls, answers>>

Sub == {string_hash(k) : k \in Key}
sub(c) == string_hash(call[c].key)

Place == {"idle", "rdlock", "find", "copy", "rdunlock", "result",
          "wrlock", "insert", "value", "wrunlock"}

goto(c, place) == pc' = [pc EXCEPT ![c] = place]
at(c, place) == pc[c] = place

-----------------------------------------------------------------------------
enter(c) ==
  /\ at(c, "idle") /\ calls[c] < Calls[c]
  /\ calls' = [calls EXCEPT ![c] = @ + 1]
  /\ \E o \in Call(c, calls'[c]) :
       /\ call' = [call EXCEPT ![c] = o]
       /\ goto(c, IF o.kind = "get" THEN "rdlock" ELSE "wrlock")
  /\ UNCHANGED <<store, readers, writer, copied, answers>>

get_rdlock(c) ==
  /\ at(c, "rdlock") /\ writer[sub(c)] = NOBODY
  /\ readers' = [readers EXCEPT ![sub(c)] = @ \cup {c}]
  /\ goto(c, "find")
  /\ UNCHANGED <<store, writer, call, copied, calls, answers>>

get_find(c) ==
  /\ at(c, "find")
  /\ copied' = [copied EXCEPT ![c] = Null]
  /\ goto(c, IF store[call[c].key] = Null THEN "rdunlock" ELSE "copy")
  /\ UNCHANGED <<store, readers, writer, call, calls, answers>>

get_copy(c) ==
  /\ at(c, "copy")
  /\ copied' = [copied EXCEPT ![c] = store[call[c].key]]
  /\ goto(c, "rdunlock")
  /\ UNCHANGED <<store, readers, writer, call, calls, answers>>

get_unlock(c) ==
  /\ at(c, "rdunlock")
  /\ readers' = [readers EXCEPT ![sub(c)] = @ \ {c}]
  /\ goto(c, "result")
  /\ UNCHANGED <<store, writer, call, copied, calls, answers>>

(* geta() gives what get() has returned to async_result().                 *)
geta(c) ==
  /\ at(c, "result")
  /\ answers' = answers \cup {<<call[c], copied[c]>>}
  /\ goto(c, "idle")
  /\ UNCHANGED <<store, readers, writer, call, copied, calls>>

-----------------------------------------------------------------------------
(* Mutant of set_wrlock: the lock is taken for reading.                    *)
set_wrlock_shared(c) ==
  /\ at(c, "wrlock") /\ writer[sub(c)] = NOBODY
  /\ writer' = [writer EXCEPT ![sub(c)] = c]
  /\ goto(c, "insert")
  /\ UNCHANGED <<store, readers, call, copied, calls, answers>>

set_wrlock(c) ==
  /\ at(c, "wrlock") /\ writer[sub(c)] = NOBODY /\ readers[sub(c)] = {}
  /\ writer' = [writer EXCEPT ![sub(c)] = c]
  /\ goto(c, "insert")
  /\ UNCHANGED <<store, readers, call, copied, calls, answers>>

(* NULL drops the node; otherwise the node is inserted or its value freed. *)
set_insert(c) ==
  /\ at(c, "insert")
  /\ store' = [store EXCEPT ![call[c].key] = IF call[c].value = Null THEN Null ELSE HOLE]
  /\ goto(c, IF call[c].value = Null THEN "wrunlock" ELSE "value")
  /\ UNCHANGED <<readers, writer, call, copied, calls, answers>>

set_value(c) ==
  /\ at(c, "value")
  /\ store' = [store EXCEPT ![call[c].key] = call[c].value]
  /\ goto(c, "wrunlock")
  /\ UNCHANGED <<readers, writer, call, copied, calls, answers>>

set_unlock(c) ==
  /\ at(c, "wrunlock")
  /\ writer' = [writer EXCEPT ![sub(c)] = NOBODY]
  /\ goto(c, "idle")
  /\ UNCHANGED <<store, readers, call, copied, calls, answers>>

get(c) == get_rdlock(c) \/ get_find(c) \/ get_copy(c) \/ get_unlock(c)
set(c) == set_wrlock(c) \/ set_insert(c) \/ set_value(c) \/ set_unlock(c)

-----------------------------------------------------------------------------
NoCall == [kind |-> "none"]

LockInit ==
  /\ store = [k \in Key |-> Null]
  /\ readers = [t \in Sub |-> {}] /\ writer = [t \in Sub |-> NOBODY]
  /\ pc = [c \in Caller |-> "idle"] /\ call = [c \in Caller |-> NoCall]
  /\ copied = [c \in Caller |-> Null]
  /\ calls = [c \in Caller |-> 0] /\ answers = {}

(* The assertion of get() and set(): a part of that number exists.  When it *)
(* fails the program ends.                                                 *)
InRange(t) == t \in 0..N_SUBS - 1
AssertFails(c) == pc[c] \in {"rdlock", "wrlock"} /\ ~InRange(sub(c))

LockNext ==
  /\ ~\E c \in Caller : AssertFails(c)
  /\ \E c \in Caller : enter(c) \/ get(c) \/ geta(c) \/ set(c)

LockSpec == LockInit /\ [][LockNext]_lock_vars

-----------------------------------------------------------------------------
(* The variables keep their types. *)
LockTypeOK ==
  /\ store \in [Key -> Value \cup {Null, HOLE}]
  /\ readers \in [Sub -> SUBSET Caller]
  /\ writer \in [Sub -> Caller \cup {NOBODY}]
  /\ pc \in [Caller -> Place]
  /\ call \in [Caller -> Get \cup Set \cup {NoCall}]
  /\ copied \in [Caller -> Value \cup {Null, HOLE}]
  /\ calls \in [Caller -> 0..MaxCalls]
  /\ answers \subseteq Get \X (Value \cup {Null, HOLE})

(* A thread that reads a part and one that writes it exclude each other,   *)
(* so that no value is copied that was freed or is not there yet.          *)
Exclusive == \A t \in Sub : writer[t] # NOBODY => readers[t] = {}

NoHoleRead == Exclusive /\ \A c \in Caller : copied[c] # HOLE

-----------------------------------------------------------------------------
(* As `struct vdb' shows it.  A set() takes effect when it touches the     *)
(* node, a get() when it has looked it up or copied it.                    *)

Store == [k \in Key |-> IF store[k] = HOLE THEN call[writer[string_hash(k)]].value
                        ELSE store[k]]

Waiting == {call[c] : c \in {d \in Caller :
              pc[d] \in {"rdlock", "find", "copy", "wrlock", "insert"}}}

Found == {<<call[c], copied[c]>> : c \in {d \in Caller :
              pc[d] \in {"rdunlock", "result"}}}
=============================================================================
