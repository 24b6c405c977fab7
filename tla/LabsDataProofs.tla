--------------------------- MODULE LabsDataProofs ---------------------------
(***************************************************************************)
(* Proofs about the databases and the queues of posix-programming_labs     *)
(* that several threads use: LockDb and ParallelDb, for any threads, keys  *)
(* and values, any number of calls and whatever part string_hash() puts a  *)
(* key in; CndQueue and SemQueue, for any threads that push and any number *)
(* of requests, the latter with a ring of any size; and LineBuffer, for any *)
(* input and a buffer of any size.                                         *)
(***************************************************************************)
EXTENDS LockDb, CndQueue, LineBuffer, SequenceTheorems, FiniteSetTheorems, TLAPS

Reads == {"find", "copy", "rdunlock"}
Writes == {"insert", "value", "wrunlock"}

(* A thread that is not idle is in a call, to read in a geta(), to write   *)
(* in a set().                                                             *)
InCall ==
  \A c \in Caller :
    /\ pc[c] \in Reads \cup {"rdlock", "result"} => call[c] \in Get
    /\ pc[c] \in Writes \cup {"wrlock"} => call[c] \in Set

(* The locks are held by those threads that are between taking and giving  *)
(* them back, each for the part of its key.                                *)
LocksHeld ==
  \A c \in Caller : \A t \in Sub :
    /\ c \in readers[t] <=> pc[c] \in Reads /\ t = sub(c)
    /\ writer[t] = c <=> pc[c] \in Writes /\ t = sub(c)

(* A node without a value is seen only while its writer is about to give   *)
(* it one.                                                                 *)
HolesFilled ==
  \A k \in Key : store[k] = HOLE => \E c \in Caller : pc[c] = "value" /\ call[c].key = k

(* NoHoleRead is not inductive: that a lock is held says nothing of where  *)
(* its holder is, nor of which nodes it has left without a value.          *)
LockInv == LockTypeOK /\ InCall /\ LocksHeld /\ HolesFilled /\ NoHoleRead

-----------------------------------------------------------------------------
(* A thread in a call locks a part that exists. *)
LEMMA SubTyped == ASSUME NEW c \in Caller, call[c] \in Get \cup Set
                  PROVE  call[c].key \in Key /\ sub(c) \in Sub
BY DEF Get, Set, sub, Sub

LEMMA InitHolds == LockInit => LockInv
<1> SUFFICES ASSUME LockInit
             PROVE  LockInv
  OBVIOUS
<1>1. LockTypeOK
  BY LockAssumption DEF LockInit, LockTypeOK, Place
<1>2. InCall /\ LocksHeld
  BY LockAssumption DEF LockInit, InCall, LocksHeld, Reads, Writes
<1>3. HolesFilled /\ NoHoleRead
  BY LockAssumption DEF LockInit, HolesFilled, NoHoleRead, Exclusive
<1> QED
  BY <1>1, <1>2, <1>3 DEF LockInv

(* A thread begins a call. *)
LEMMA EnterKeeps == ASSUME LockInv, NEW c \in Caller, enter(c)
                    PROVE  LockInv'
<1> USE DEF LockInv, enter, goto, at
<1>1. /\ pc[c] = "idle" /\ pc' \in [Caller -> Place]
      /\ \A d \in Caller \ {c} : pc'[d] = pc[d] /\ call'[d] = call[d]
      /\ \/ pc'[c] = "rdlock" /\ call'[c] \in Get
         \/ pc'[c] = "wrlock" /\ call'[c] \in Set
      /\ call' \in [Caller -> Get \cup Set \cup {NoCall}]
  BY DEF LockTypeOK, Place, Call, Get, Set
<1>2. calls' \in [Caller -> 0..MaxCalls]
  BY LockAssumption DEF LockTypeOK
<1>3. LockTypeOK' /\ InCall'
  BY <1>1, <1>2 DEF LockTypeOK, InCall, Reads, Writes
<1>4. LocksHeld'
  BY <1>1 DEF LocksHeld, Reads, Writes, sub
<1>5. HolesFilled' /\ NoHoleRead'
  BY <1>1 DEF HolesFilled, NoHoleRead, Exclusive
<1> QED
  BY <1>3, <1>4, <1>5

(* The steps of get() and geta(). *)
LEMMA GetKeeps == ASSUME LockInv, NEW c \in Caller, get(c) \/ geta(c)
                  PROVE  LockInv'
<1> USE DEF LockInv, goto, at
<1>0. /\ pc[c] # "idle" => sub(c) \in Sub /\ call[c].key \in Key
      /\ \A d \in Caller : sub(d)' = sub(d) \/ call'[d] # call[d]
  BY SubTyped DEF LockTypeOK, InCall, Place, Reads, Writes, sub
<1>1. CASE get_rdlock(c)
  <2>1. /\ pc[c] = "rdlock" /\ writer[sub(c)] = NOBODY
        /\ pc' = [pc EXCEPT ![c] = "find"]
        /\ readers' = [readers EXCEPT ![sub(c)] = @ \cup {c}]
        /\ UNCHANGED <<store, writer, call, copied, calls, answers>>
    BY <1>1 DEF get_rdlock
  <2>2. LockTypeOK' /\ InCall'
    BY <1>0, <2>1 DEF LockTypeOK, InCall, Place, Reads, Writes
  <2>3. LocksHeld'
    BY <1>0, <2>1 DEF LockTypeOK, LocksHeld, Reads, Writes, sub
  <2>4. HolesFilled'
    BY <2>1 DEF LockTypeOK, HolesFilled
  <2>5. NoHoleRead'
    BY <1>0, <2>1 DEF LockTypeOK, NoHoleRead, Exclusive
  <2> QED
    BY <2>2, <2>3, <2>4, <2>5
<1>2. CASE get_find(c)
  <2>1. /\ pc[c] = "find" /\ pc'[c] \in {"rdunlock", "copy"}
        /\ pc' \in [Caller -> Place]
        /\ \A d \in Caller \ {c} : pc'[d] = pc[d]
        /\ copied' = [copied EXCEPT ![c] = Null]
        /\ UNCHANGED <<store, readers, writer, call, calls, answers>>
    BY <1>2 DEF get_find, LockTypeOK, Place
  <2>2. LockTypeOK' /\ InCall'
    BY <1>0, <2>1 DEF LockTypeOK, InCall, Place, Reads, Writes
  <2>3. LocksHeld'
    BY <2>1 DEF LockTypeOK, LocksHeld, Reads, Writes, sub
  <2>4. HolesFilled' /\ NoHoleRead'
    BY <2>1, LockAssumption DEF LockTypeOK, HolesFilled, NoHoleRead, Exclusive
  <2> QED
    BY <2>2, <2>3, <2>4
<1>3. CASE get_copy(c)
  <2>1. /\ pc[c] = "copy" /\ pc' = [pc EXCEPT ![c] = "rdunlock"]
        /\ copied' = [copied EXCEPT ![c] = store[call[c].key]]
        /\ UNCHANGED <<store, readers, writer, call, calls, answers>>
    BY <1>3 DEF get_copy
  <2>2. store[call[c].key] # HOLE
    (* Its writer would hold the lock that c holds for reading. *)
    <3>1. SUFFICES ASSUME NEW d \in Caller, pc[d] = "value", call[d].key = call[c].key
                   PROVE  FALSE
      BY <1>0, <2>1 DEF HolesFilled
    <3>2. sub(d) = sub(c) /\ sub(c) \in Sub
      BY <1>0, <2>1, <3>1 DEF sub
    <3>3. writer[sub(c)] = d /\ c \in readers[sub(c)]
      BY <2>1, <3>1, <3>2 DEF LocksHeld, Reads, Writes
    <3> QED
      BY <3>2, <3>3, LockAssumption DEF NoHoleRead, Exclusive
  <2>3. LockTypeOK' /\ InCall'
    BY <1>0, <2>1 DEF LockTypeOK, InCall, Place, Reads, Writes
  <2>4. LocksHeld'
    BY <2>1 DEF LockTypeOK, LocksHeld, Reads, Writes, sub
  <2>5. HolesFilled' /\ NoHoleRead'
    BY <2>1, <2>2 DEF LockTypeOK, HolesFilled, NoHoleRead, Exclusive
  <2> QED
    BY <2>3, <2>4, <2>5
<1>4. CASE get_unlock(c)
  <2>1. /\ pc[c] = "rdunlock" /\ pc' = [pc EXCEPT ![c] = "result"]
        /\ readers' = [readers EXCEPT ![sub(c)] = @ \ {c}]
        /\ UNCHANGED <<store, writer, call, copied, calls, answers>>
    BY <1>4 DEF get_unlock
  <2>2. LockTypeOK' /\ InCall'
    BY <1>0, <2>1 DEF LockTypeOK, InCall, Place, Reads, Writes
  <2>3. LocksHeld'
    BY <1>0, <2>1 DEF LockTypeOK, LocksHeld, Reads, Writes, sub
  <2>4. HolesFilled' /\ NoHoleRead'
    BY <1>0, <2>1 DEF LockTypeOK, HolesFilled, NoHoleRead, Exclusive
  <2> QED
    BY <2>2, <2>3, <2>4
<1>5. CASE geta(c)
  <2>1. /\ pc[c] = "result" /\ pc' = [pc EXCEPT ![c] = "idle"]
        /\ answers' = answers \cup {<<call[c], copied[c]>>}
        /\ UNCHANGED <<store, readers, writer, call, copied, calls>>
    BY <1>5 DEF geta
  <2>2. LockTypeOK' /\ InCall'
    BY <1>0, <2>1 DEF LockTypeOK, InCall, Place, Reads, Writes
  <2>3. LocksHeld'
    BY <2>1 DEF LockTypeOK, LocksHeld, Reads, Writes, sub
  <2>4. HolesFilled' /\ NoHoleRead'
    BY <2>1 DEF LockTypeOK, HolesFilled, NoHoleRead, Exclusive
  <2> QED
    BY <2>2, <2>3, <2>4
<1> QED
  BY <1>1, <1>2, <1>3, <1>4, <1>5 DEF get

(* The steps of set(). *)
LEMMA SetKeeps == ASSUME LockInv, NEW c \in Caller, set(c)
                  PROVE  LockInv'
<1> USE DEF LockInv, goto, at
<1>0. pc[c] # "idle" => sub(c) \in Sub /\ call[c].key \in Key
  BY SubTyped DEF LockTypeOK, InCall, Place, Reads, Writes
<1>1. CASE set_wrlock(c)
  <2>1. /\ pc[c] = "wrlock" /\ writer[sub(c)] = NOBODY /\ readers[sub(c)] = {}
        /\ pc' = [pc EXCEPT ![c] = "insert"]
        /\ writer' = [writer EXCEPT ![sub(c)] = c]
        /\ UNCHANGED <<store, readers, call, copied, calls, answers>>
    BY <1>1 DEF set_wrlock
  <2>2. LockTypeOK' /\ InCall'
    BY <1>0, <2>1 DEF LockTypeOK, InCall, Place, Reads, Writes
  <2>3. LocksHeld'
    BY <1>0, <2>1, LockAssumption DEF LockTypeOK, LocksHeld, Reads, Writes, sub
  <2>4. HolesFilled' /\ NoHoleRead'
    BY <1>0, <2>1 DEF LockTypeOK, HolesFilled, NoHoleRead, Exclusive
  <2> QED
    BY <2>2, <2>3, <2>4
<1>2. CASE set_insert(c)
  <2>1. /\ pc[c] = "insert" /\ call[c] \in Set
        /\ store' = [store EXCEPT ![call[c].key] =
                        IF call[c].value = Null THEN Null ELSE HOLE]
        /\ pc' = [pc EXCEPT ![c] = IF call[c].value = Null THEN "wrunlock" ELSE "value"]
        /\ UNCHANGED <<readers, writer, call, copied, calls, answers>>
    BY <1>2 DEF set_insert, InCall, Writes
  <2>2. LockTypeOK' /\ InCall'
    BY <1>0, <2>1 DEF LockTypeOK, InCall, Place, Reads, Writes
  <2>3. LocksHeld'
    BY <2>1 DEF LockTypeOK, LocksHeld, Reads, Writes, sub
  <2>4. HolesFilled'
    BY <1>0, <2>1, LockAssumption DEF LockTypeOK, HolesFilled
  <2>5. NoHoleRead'
    BY <2>1 DEF NoHoleRead, Exclusive
  <2> QED
    BY <2>2, <2>3, <2>4, <2>5
<1>3. CASE set_value(c)
  <2>1. /\ pc[c] = "value" /\ call[c] \in Set /\ call[c].value \in Value \cup {Null}
        /\ store' = [store EXCEPT ![call[c].key] = call[c].value]
        /\ pc' = [pc EXCEPT ![c] = "wrunlock"]
        /\ UNCHANGED <<readers, writer, call, copied, calls, answers>>
    BY <1>3 DEF set_value, InCall, Writes, Set
  <2>2. LockTypeOK' /\ InCall'
    BY <1>0, <2>1 DEF LockTypeOK, InCall, Place, Reads, Writes
  <2>3. LocksHeld'
    BY <2>1 DEF LockTypeOK, LocksHeld, Reads, Writes, sub
  <2>4. HolesFilled'
    (* The hole of another node is that of another thread. *)
    BY <1>0, <2>1, LockAssumption DEF LockTypeOK, HolesFilled
  <2>5. NoHoleRead'
    BY <2>1 DEF NoHoleRead, Exclusive
  <2> QED
    BY <2>2, <2>3, <2>4, <2>5
<1>4. CASE set_unlock(c)
  <2>1. /\ pc[c] = "wrunlock" /\ pc' = [pc EXCEPT ![c] = "idle"]
        /\ writer' = [writer EXCEPT ![sub(c)] = NOBODY]
        /\ UNCHANGED <<store, readers, call, copied, calls, answers>>
    BY <1>4 DEF set_unlock
  <2>2. LockTypeOK' /\ InCall'
    BY <1>0, <2>1 DEF LockTypeOK, InCall, Place, Reads, Writes
  <2>3. LocksHeld'
    BY <1>0, <2>1, LockAssumption DEF LockTypeOK, LocksHeld, Reads, Writes, sub
  <2>4. HolesFilled' /\ NoHoleRead'
    BY <1>0, <2>1 DEF LockTypeOK, HolesFilled, NoHoleRead, Exclusive
  <2> QED
    BY <2>2, <2>3, <2>4
<1> QED
  BY <1>1, <1>2, <1>3, <1>4 DEF set

LEMMA LockStep == LockInv /\ [LockNext]_lock_vars => LockInv'
<1> SUFFICES ASSUME LockInv, [LockNext]_lock_vars
             PROVE  LockInv'
  OBVIOUS
<1>1. CASE UNCHANGED lock_vars
  BY <1>1 DEF lock_vars, LockInv, LockTypeOK, InCall, LocksHeld, HolesFilled, NoHoleRead,
              Exclusive, sub
<1> QED
  BY <1>1, EnterKeeps, GetKeeps, SetKeeps DEF LockNext

-----------------------------------------------------------------------------
(* The variables of db_lock keep their types: what get() returns and       *)
(* geta() reports is a value or NULL, and belongs to a geta().             *)
THEOREM LockTyped == LockSpec => []LockTypeOK
<1>1. LockInv => LockTypeOK
  BY DEF LockInv
<1> QED
  BY <1>1, InitHolds, LockStep, PTL DEF LockSpec

(* However many threads call db_lock, and whatever part their keys are in, *)
(* a thread that reads a part excludes one that writes it, and none copies *)
(* a value that was freed or is not there yet.                             *)
THEOREM NothingHalfWrittenIsRead == LockSpec => []NoHoleRead
<1>1. LockInv => NoHoleRead
  BY DEF LockInv
<1> QED
  BY <1>1, InitHolds, LockStep, PTL DEF LockSpec

-----------------------------------------------------------------------------
(* What a caller of `struct vdb' sees of db_lock. *)
Db == INSTANCE Vdb WITH store <- Store, waiting <- Waiting, found <- Found

(* A call belongs to its thread, which makes one after the other. *)
CallsOwn ==
  \A c \in Caller : pc[c] # "idle" => call[c].by = c /\ call[c].n = calls[c]

(* A writer that is about to give a node its value has left it without.    *)
HolesHeld == \A c \in Caller : pc[c] = "value" => store[call[c].key] = HOLE

(* LockInv does not say which call a thread is in.  Two threads in equal   *)
(* calls would be one call for Vdb.                                        *)
VdbInv == LockInv /\ CallsOwn /\ HolesHeld

Waits == {"rdlock", "find", "copy", "wrlock", "insert"}
Finds == {"rdunlock", "result"}

LEMMA VdbInitHolds == LockInit => VdbInv
BY InitHolds DEF LockInit, VdbInv, CallsOwn, HolesHeld

(* What a step does with the place and the call of its thread. *)
LEMMA OwnStep ==
  ASSUME LockInv, NEW c \in Caller, enter(c) \/ get(c) \/ geta(c) \/ set(c)
  PROVE  /\ pc' \in [Caller -> Place] /\ \A d \in Caller \ {c} : pc'[d] = pc[d] /\ call'[d] = call[d]
         /\ ~enter(c) => call' = call /\ calls' = calls
<1> USE DEF LockInv, LockTypeOK, goto, at
<1>1. CASE enter(c)
  BY <1>1, EnterKeeps DEF enter
<1>2. CASE get(c) \/ geta(c)
  <2>1. pc' \in [Caller -> Place]
    BY <1>2, GetKeeps
  <2> QED
    BY <1>2, <2>1 DEF get, get_rdlock, get_find, get_copy, get_unlock, geta
<1>3. CASE set(c)
  <2>1. pc' \in [Caller -> Place]
    BY <1>3, SetKeeps
  <2> QED
    BY <1>3, <2>1 DEF set, set_wrlock, set_insert, set_value, set_unlock
<1> QED
  BY <1>1, <1>2, <1>3

(* Two threads never hold the lock of a part for writing. *)
LEMMA OneWriter ==
  ASSUME LockInv, NEW c \in Caller, NEW d \in Caller, pc[c] \in Writes, pc[d] \in Writes,
         sub(c) = sub(d)
  PROVE  c = d
<1>1. call[c] \in Get \cup Set /\ sub(c) \in Sub
  BY SubTyped DEF LockInv, InCall
<1>2. writer[sub(c)] = c /\ writer[sub(c)] = d
  BY <1>1 DEF LockInv, LocksHeld
<1> QED
  BY <1>2

LEMMA VdbStep == VdbInv /\ [LockNext]_lock_vars => VdbInv'
<1> SUFFICES ASSUME VdbInv, [LockNext]_lock_vars
             PROVE  CallsOwn' /\ HolesHeld'
  BY LockStep DEF VdbInv
<1>1. CASE UNCHANGED lock_vars
  BY <1>1 DEF lock_vars, VdbInv, CallsOwn, HolesHeld
<1>2. CASE LockNext
  <2>1. PICK c \in Caller : enter(c) \/ get(c) \/ geta(c) \/ set(c)
    BY <1>2 DEF LockNext
  <2>2. /\ pc' \in [Caller -> Place]
        /\ \A d \in Caller \ {c} : pc'[d] = pc[d] /\ call'[d] = call[d]
        /\ ~enter(c) => call' = call /\ calls' = calls
    BY <2>1, OwnStep DEF VdbInv
  <2>3. CallsOwn'
    <3>1. CASE enter(c)
      <4>1. call'[c].by = c /\ call'[c].n = calls'[c] /\ \A d \in Caller \ {c} : calls'[d] = calls[d]
        BY <3>1 DEF enter, Call, VdbInv, LockInv, LockTypeOK
      <4> QED
        BY <2>2, <4>1 DEF VdbInv, CallsOwn
    <3>2. CASE ~enter(c)
      <4>1. pc[c] # "idle"
        BY <2>1, <3>2 DEF get, get_rdlock, get_find, get_copy, get_unlock, geta,
                          set, set_wrlock, set_insert, set_value, set_unlock, at
      <4> QED
        BY <2>2, <3>2, <4>1 DEF VdbInv, CallsOwn
    <3> QED
      BY <3>1, <3>2
  <2>4. HolesHeld'
    <3>1. CASE enter(c)
      <4>1. store' = store /\ pc'[c] # "value"
        BY <3>1 DEF enter, goto, VdbInv, LockInv, LockTypeOK
      <4> QED
        BY <2>2, <4>1 DEF VdbInv, HolesHeld
    <3>2. CASE get(c) \/ geta(c) \/ set_wrlock(c) \/ set_unlock(c)
      <4>1. store' = store /\ pc'[c] # "value" /\ call' = call
        BY <3>2 DEF get, get_rdlock, get_find, get_copy, get_unlock, geta, set_wrlock, set_unlock,
                    goto, VdbInv, LockInv, LockTypeOK
      <4> QED
        BY <2>2, <4>1 DEF VdbInv, HolesHeld
    <3>3. CASE set_insert(c) \/ set_value(c)
      <4>1. /\ pc[c] \in Writes /\ call' = call
            /\ \A k \in Key : k # call[c].key => store'[k] = store[k]
            /\ pc'[c] = "value" => store'[call[c].key] = HOLE
        <5>1. call[c].key \in Key
          BY <3>3, SubTyped DEF set_insert, set_value, at, VdbInv, LockInv, InCall, Writes
        <5> QED
          BY <3>3, <5>1 DEF set_insert, set_value, at, goto, Writes, VdbInv, LockInv, LockTypeOK
      <4>2. ASSUME NEW d \in Caller \ {c}, pc'[d] = "value"
            PROVE  store'[call'[d].key] = HOLE
        <5>1. pc[d] = "value" /\ store[call[d].key] = HOLE
          BY <2>2, <4>2 DEF VdbInv, HolesHeld
        <5>2. call[d].key \in Key /\ (call[d].key = call[c].key => sub(c) = sub(d))
          BY <5>1, SubTyped DEF VdbInv, LockInv, InCall, Writes, sub
        <5>3. call[d].key # call[c].key
          BY <4>1, <5>1, <5>2, OneWriter DEF VdbInv, Writes
        <5> QED
          BY <4>1, <5>1, <5>2, <5>3
      <4> QED
        BY <4>1, <4>2 DEF HolesHeld
    <3> QED
      BY <2>1, <3>1, <3>2, <3>3 DEF set
  <2> QED
    BY <2>3, <2>4
<1> QED
  BY <1>1, <1>2

-----------------------------------------------------------------------------
(* No call is in two threads. *)
LEMMA CallsDiffer ==
  ASSUME VdbInv, NEW c \in Caller, NEW d \in Caller, pc[c] # "idle", pc[d] # "idle",
         call[c] = call[d]
  PROVE  c = d
BY DEF VdbInv, CallsOwn

(* What the node of a key is to a caller: the writer of a part without a   *)
(* value is the thread that is about to give it one.                       *)
StoreSeen ==
  \A k \in Key :
    /\ store[k] # HOLE => Store[k] = store[k]
    /\ \A c \in Caller : pc[c] = "value" /\ call[c].key = k => Store[k] = call[c].value

LEMMA StoreIs == VdbInv => StoreSeen
<1> SUFFICES ASSUME VdbInv, NEW k \in Key
             PROVE  /\ store[k] # HOLE => Store[k] = store[k]
                    /\ \A c \in Caller : pc[c] = "value" /\ call[c].key = k => Store[k] = call[c].value
  BY DEF StoreSeen
<1>1. Store[k] = IF store[k] = HOLE THEN call[writer[string_hash(k)]].value ELSE store[k]
  BY DEF Store
<1>2. ASSUME NEW c \in Caller, pc[c] = "value", call[c].key = k
      PROVE  Store[k] = call[c].value
  <2>1. store[k] = HOLE
    BY <1>2 DEF VdbInv, HolesHeld
  <2>2. call[c] \in Get \cup Set /\ sub(c) \in Sub /\ sub(c) = string_hash(k)
    BY <1>2, SubTyped DEF VdbInv, LockInv, InCall, Writes, sub
  <2>3. writer[string_hash(k)] = c
    BY <1>2, <2>2 DEF VdbInv, LockInv, LocksHeld, Writes
  <2> QED
    BY <1>1, <2>1, <2>3
<1> QED
  BY <1>1, <1>2

(* A step that leaves the nodes alone, and the threads that are about to   *)
(* fill one, leaves alone what callers see.                                *)
LEMMA StoreStays ==
  ASSUME VdbInv, VdbInv', store' = store,
         \A c \in Caller : pc[c] = "value" => pc'[c] = "value" /\ call'[c] = call[c]
  PROVE  Store' = Store
<1>0. StoreSeen /\ StoreSeen'
  BY StoreIs, PTL
<1>1. ASSUME NEW k \in Key
      PROVE  Store'[k] = Store[k]
  <2>1. CASE store[k] # HOLE
    <3>1. Store[k] = store[k]
      BY <1>0, <2>1 DEF StoreSeen
    <3>2. Store'[k] = store'[k]
      BY <2>1 DEF Store
    <3> QED
      BY <3>1, <3>2
  <2>2. CASE store[k] = HOLE
    <3>1. PICK c \in Caller : pc[c] = "value" /\ call[c].key = k
      BY <2>2 DEF VdbInv, LockInv, HolesFilled
    <3>2. Store[k] = call[c].value
      BY <1>0, <3>1 DEF StoreSeen
    <3>3. pc'[c] = "value" /\ call'[c] = call[c]
      BY <3>1
    <3>4. Store'[k] = call'[c].value
      BY <1>0, <3>1, <3>3 DEF StoreSeen
    <3> QED
      BY <3>2, <3>3, <3>4
  <2> QED
    BY <2>1, <2>2
<1> QED
  BY <1>1 DEF Store


(* A step of one thread that neither begins nor ends its call. *)
LEMMA SetsStay ==
  ASSUME VdbInv, NEW c \in Caller, call' = call, copied' = copied,
         \A d \in Caller \ {c} : pc'[d] = pc[d],
         pc[c] \in Waits <=> pc'[c] \in Waits, pc[c] \in Finds <=> pc'[c] \in Finds
  PROVE  Waiting' = Waiting /\ Found' = Found
<1>1. \A d \in Caller : (pc'[d] \in Waits <=> pc[d] \in Waits) /\ (pc'[d] \in Finds <=> pc[d] \in Finds)
  OBVIOUS
<1>2. {d \in Caller : pc'[d] \in Waits} = {d \in Caller : pc[d] \in Waits}
  BY <1>1
<1>3. {d \in Caller : pc'[d] \in Finds} = {d \in Caller : pc[d] \in Finds}
  BY <1>1
<1> QED
  BY <1>2, <1>3 DEF Waiting, Found, Waits, Finds


(* A call that takes effect waits no more. *)
LEMMA WaitEnds ==
  ASSUME VdbInv, NEW c \in Caller, pc[c] \in Waits, pc'[c] \notin Waits, call' = call,
         \A d \in Caller \ {c} : pc'[d] = pc[d]
  PROVE  Waiting' = Waiting \ {call[c]} /\ call[c] \in Waiting /\ Db!First(call[c])
<1>1. \A d \in Caller : pc[d] \in Waits => pc[d] # "idle"
  BY DEF Waits
<1>2. ASSUME NEW o \in Waiting'
      PROVE  o \in Waiting \ {call[c]}
  <2>1. PICK d \in Caller : pc'[d] \in Waits /\ o = call[d]
    BY DEF Waiting, Waits
  <2>2. d # c /\ pc[d] \in Waits
    BY <2>1
  <2>3. call[d] # call[c]
    BY <1>1, <2>2, CallsDiffer
  <2> QED
    BY <2>1, <2>2, <2>3 DEF Waiting, Waits
<1>3. ASSUME NEW o \in Waiting \ {call[c]}
      PROVE  o \in Waiting'
  <2>1. PICK d \in Caller : pc[d] \in Waits /\ o = call[d]
    BY DEF Waiting, Waits
  <2>2. pc'[d] \in Waits
    BY <1>3, <2>1
  <2> QED
    BY <2>1, <2>2 DEF Waiting, Waits
<1>4. ASSUME NEW e \in Waiting, e.by = call[c].by
      PROVE  call[c].n <= e.n
  <2>1. PICK d \in Caller : pc[d] \in Waits /\ e = call[d]
    BY DEF Waiting, Waits
  <2>2. e.by = d /\ call[c].by = c /\ call[c].n = calls[c] /\ calls[c] \in Nat
    BY <1>1, <2>1 DEF VdbInv, CallsOwn, LockInv, LockTypeOK
  <2> QED
    BY <1>4, <2>1, <2>2
<1>5. call[c] \in Waiting
  BY DEF Waiting, Waits
<1> QED
  BY <1>2, <1>3, <1>4, <1>5 DEF Db!First

(* A thread that calls is a caller of Vdb that asks. *)
LEMMA EnterAsks == ASSUME VdbInv, VdbInv', NEW c \in Caller, enter(c)
                   PROVE  Db!Ask(c)
<1>1. /\ pc[c] = "idle" /\ calls[c] < Calls[c]
      /\ calls' = [calls EXCEPT ![c] = @ + 1]
      /\ call' = [call EXCEPT ![c] = call'[c]] /\ call'[c] \in Call(c, calls'[c])
      /\ pc'[c] \in {"rdlock", "wrlock"} /\ \A d \in Caller \ {c} : pc'[d] = pc[d] /\ call'[d] = call[d]
      /\ UNCHANGED <<store, readers, writer, copied, answers>>
  BY DEF enter, at, goto, VdbInv, LockInv, LockTypeOK
<1>2. Store' = Store
  BY <1>1, StoreStays
<1>3. Waiting' = Waiting \cup {call'[c]}
  <2>1. ASSUME NEW o \in Waiting'
        PROVE  o \in Waiting \cup {call'[c]}
    <3>1. PICK d \in Caller : pc'[d] \in Waits /\ o = call'[d]
      BY DEF Waiting, Waits
    <3> QED
      BY <1>1, <3>1 DEF Waiting, Waits
  <2>2. ASSUME NEW o \in Waiting
        PROVE  o \in Waiting'
    <3>1. PICK d \in Caller : pc[d] \in Waits /\ o = call[d]
      BY DEF Waiting, Waits
    <3>2. d # c
      BY <1>1, <3>1 DEF Waits
    <3> QED
      BY <1>1, <3>1, <3>2 DEF Waiting, Waits
  <2>3. call'[c] \in Waiting'
    BY <1>1 DEF Waiting
  <2> QED
    BY <2>1, <2>2, <2>3
<1>4. Found' = Found
  <2>1. {d \in Caller : pc'[d] \in Finds} = {d \in Caller : pc[d] \in Finds}
    BY <1>1 DEF Finds
  <2>2. \A d \in {e \in Caller : pc[e] \in Finds} : call'[d] = call[d] /\ copied'[d] = copied[d]
    BY <1>1 DEF Finds
  <2>3. {<<call'[d], copied'[d]>> : d \in {e \in Caller : pc[e] \in Finds}}
          = {<<call[d], copied[d]>> : d \in {e \in Caller : pc[e] \in Finds}}
    BY <2>2
  <2> QED
    BY <2>1, <2>3 DEF Found, Finds
<1>5. call'[c] \in Db!Call(c, calls'[c])
  BY <1>1 DEF Call, Get, Set, Db!Call, Db!Get, Db!Set, MaxCalls, Db!MaxCalls
<1> QED
  BY <1>1, <1>2, <1>3, <1>4, <1>5 DEF Db!Ask

(* What a call has found is found by no other one. *)
LEMMA FindBegins ==
  ASSUME VdbInv, NEW c \in Caller, pc[c] \notin Finds, pc'[c] \in Finds, call' = call,
         \A d \in Caller \ {c} : pc'[d] = pc[d] /\ copied'[d] = copied[d]
  PROVE  Found' = Found \cup {<<call[c], copied'[c]>>}
<1>1. ASSUME NEW a \in Found'
      PROVE  a \in Found \cup {<<call[c], copied'[c]>>}
  <2>1. PICK d \in Caller : pc'[d] \in Finds /\ a = <<call[d], copied'[d]>>
    BY DEF Found, Finds
  <2>2. CASE d = c
    BY <2>1, <2>2
  <2>3. CASE d # c
    BY <2>1, <2>3 DEF Found, Finds
  <2> QED
    BY <2>2, <2>3
<1>2. ASSUME NEW a \in Found
      PROVE  a \in Found'
  <2>1. PICK d \in Caller : pc[d] \in Finds /\ a = <<call[d], copied[d]>>
    BY DEF Found, Finds
  <2>2. d # c /\ pc'[d] \in Finds /\ copied'[d] = copied[d]
    BY <2>1
  <2> QED
    BY <2>1, <2>2 DEF Found, Finds
<1>3. <<call[c], copied'[c]>> \in Found'
  BY DEF Found, Finds
<1> QED
  BY <1>1, <1>2, <1>3

LEMMA FindEnds ==
  ASSUME VdbInv, NEW c \in Caller, pc[c] \in Finds, pc'[c] \notin Finds, call' = call,
         copied' = copied, \A d \in Caller \ {c} : pc'[d] = pc[d]
  PROVE  Found' = Found \ {<<call[c], copied[c]>>} /\ <<call[c], copied[c]>> \in Found
<1>1. ASSUME NEW a \in Found'
      PROVE  a \in Found \ {<<call[c], copied[c]>>}
  <2>1. PICK d \in Caller : pc'[d] \in Finds /\ a = <<call[d], copied[d]>>
    BY DEF Found, Finds
  <2>2. d # c /\ pc[d] \in Finds /\ pc[d] # "idle" /\ pc[c] # "idle"
    BY <2>1 DEF Finds
  <2>3. call[d] # call[c]
    BY <2>2, CallsDiffer
  <2>4. a \in Found
    BY <2>1, <2>2 DEF Found, Finds
  <2> QED
    BY <2>1, <2>3, <2>4
<1>2. ASSUME NEW a \in Found \ {<<call[c], copied[c]>>}
      PROVE  a \in Found'
  <2>1. PICK d \in Caller : pc[d] \in Finds /\ a = <<call[d], copied[d]>>
    BY DEF Found, Finds
  <2>2. pc'[d] \in Finds
    BY <1>2, <2>1
  <2> QED
    BY <2>1, <2>2 DEF Found, Finds
<1>3. <<call[c], copied[c]>> \in Found
  BY DEF Found, Finds
<1> QED
  BY <1>1, <1>2, <1>3

(* The steps of get() and geta(): the call takes effect when it finds no   *)
(* node, or when it copies its value; nobody sees the others.              *)
LEMMA GetIsVdb == ASSUME VdbInv, VdbInv', NEW c \in Caller, get(c) \/ geta(c)
                  PROVE  [Db!Next]_(Db!vars)
<1> USE DEF at, goto
<1>0. /\ pc' \in [Caller -> Place] /\ \A d \in Caller \ {c} : pc'[d] = pc[d]
      /\ call' = call /\ calls' = calls
  <2>1. ~enter(c)
    BY DEF get, get_rdlock, get_find, get_copy, get_unlock, geta, enter
  <2> QED
    BY <2>1, OwnStep DEF VdbInv
<1>1. CASE get_rdlock(c) \/ get_unlock(c)
  <2>1. /\ pc[c] \in Waits <=> pc'[c] \in Waits
        /\ pc[c] \in Finds <=> pc'[c] \in Finds
        /\ store' = store /\ copied' = copied /\ answers' = answers /\ pc[c] # "value"
    BY <1>1 DEF get_rdlock, get_unlock, Waits, Finds, VdbInv, LockInv, LockTypeOK
  <2>2. Waiting' = Waiting /\ Found' = Found
    BY <1>0, <2>1, SetsStay
  <2>3. Store' = Store
    BY <1>0, <2>1, StoreStays
  <2> QED
    BY <1>0, <2>1, <2>2, <2>3 DEF Db!vars
<1> DEFINE key == call[c].key
<1>2. CASE get_find(c) /\ store[key] # Null
  <2>1. /\ pc[c] = "find" /\ pc'[c] = "copy" /\ store' = store /\ answers' = answers
        /\ \A d \in Caller \ {c} : copied'[d] = copied[d]
    BY <1>2 DEF get_find, VdbInv, LockInv, LockTypeOK
  <2>2. {d \in Caller : pc'[d] \in Waits} = {d \in Caller : pc[d] \in Waits}
    BY <1>0, <2>1 DEF Waits
  <2>3. Waiting' = Waiting
    BY <1>0, <2>2 DEF Waiting, Waits
  <2>4. Found' = Found
    <3>1. {d \in Caller : pc'[d] \in Finds} = {d \in Caller : pc[d] \in Finds}
      BY <1>0, <2>1 DEF Finds
    <3>2. \A d \in {e \in Caller : pc[e] \in Finds} : copied'[d] = copied[d]
      BY <2>1 DEF Finds
    <3>3. {<<call[d], copied'[d]>> : d \in {e \in Caller : pc[e] \in Finds}}
            = {<<call[d], copied[d]>> : d \in {e \in Caller : pc[e] \in Finds}}
      BY <3>2
    <3> QED
      BY <1>0, <3>1, <3>3 DEF Found, Finds
  <2>5. Store' = Store
    BY <1>0, <2>1, StoreStays
  <2> QED
    BY <1>0, <2>1, <2>3, <2>4, <2>5 DEF Db!vars
<1>3. CASE (get_find(c) /\ store[key] = Null) \/ get_copy(c)
  <2>1. /\ pc[c] \in {"find", "copy"} /\ pc'[c] = "rdunlock"
        /\ store' = store /\ answers' = answers
        /\ copied'[c] = store[key] /\ \A d \in Caller \ {c} : copied'[d] = copied[d]
    BY <1>3 DEF get_find, get_copy, VdbInv, LockInv, LockTypeOK
  <2>2. copied'[c] # HOLE
    BY DEF VdbInv, LockInv, NoHoleRead
  <2>3. call[c] \in Get /\ key \in Key
    BY <2>1, SubTyped DEF VdbInv, LockInv, InCall, Reads
  <2>4. copied'[c] = Store[key]
    BY <2>1, <2>2, <2>3, StoreIs DEF StoreSeen
  <2>5. Waiting' = Waiting \ {call[c]} /\ call[c] \in Waiting /\ Db!First(call[c])
    BY <1>0, <2>1, WaitEnds DEF Waits
  <2>6. Found' = Found \cup {<<call[c], Store[key]>>}
    BY <1>0, <2>1, <2>4, FindBegins DEF Finds
  <2>7. Store' = Store
    BY <1>0, <2>1, StoreStays
  <2>8. call[c].kind = "get"
    BY <2>3 DEF Get
  <2>9. Db!Effect(call[c])
    BY <1>0, <2>1, <2>5, <2>6, <2>7, <2>8 DEF Db!Effect
  <2> QED
    BY <2>5, <2>9 DEF Db!Next
<1>4. CASE geta(c)
  <2>1. /\ pc[c] = "result" /\ pc'[c] = "idle" /\ store' = store /\ copied' = copied
        /\ answers' = answers \cup {<<call[c], copied[c]>>}
    BY <1>4 DEF geta, VdbInv, LockInv, LockTypeOK
  <2>2. Found' = Found \ {<<call[c], copied[c]>>} /\ <<call[c], copied[c]>> \in Found
    BY <1>0, <2>1, FindEnds DEF Finds
  <2>3. Waiting' = Waiting
    <3>1. {d \in Caller : pc'[d] \in Waits} = {d \in Caller : pc[d] \in Waits}
      BY <1>0, <2>1 DEF Waits
    <3> QED
      BY <1>0, <3>1 DEF Waiting, Waits
  <2>4. Store' = Store
    BY <1>0, <2>1, StoreStays
  <2>5. Db!async_result(<<call[c], copied[c]>>)
    BY <1>0, <2>1, <2>2, <2>3, <2>4 DEF Db!async_result
  <2> QED
    BY <2>2, <2>5 DEF Db!Next
<1> QED
  BY <1>1, <1>2, <1>3, <1>4 DEF get

(* The steps of set(): it takes effect when it touches the node, although  *)
(* the value comes later.                                                  *)
LEMMA SetIsVdb == ASSUME VdbInv, VdbInv', NEW c \in Caller, set(c)
                  PROVE  [Db!Next]_(Db!vars)
<1> USE DEF at, goto
<1>0. /\ pc' \in [Caller -> Place] /\ \A d \in Caller \ {c} : pc'[d] = pc[d]
      /\ call' = call /\ calls' = calls
  <2>1. ~enter(c)
    BY DEF set, set_wrlock, set_insert, set_value, set_unlock, enter
  <2> QED
    BY <2>1, OwnStep DEF VdbInv
<1> DEFINE key == call[c].key
<1>1. CASE set_wrlock(c) \/ set_unlock(c)
  <2>1. /\ pc[c] \in Waits <=> pc'[c] \in Waits
        /\ pc[c] \in Finds <=> pc'[c] \in Finds
        /\ store' = store /\ copied' = copied /\ answers' = answers /\ pc[c] # "value"
    BY <1>1 DEF set_wrlock, set_unlock, Waits, Finds, VdbInv, LockInv, LockTypeOK
  <2>2. Waiting' = Waiting /\ Found' = Found
    BY <1>0, <2>1, SetsStay
  <2>3. Store' = Store
    BY <1>0, <2>1, StoreStays
  <2> QED
    BY <1>0, <2>1, <2>2, <2>3 DEF Db!vars
<1>2. CASE set_insert(c) \/ set_value(c)
  <2>1. /\ pc[c] \in {"insert", "value"} /\ pc'[c] \in {"value", "wrunlock"}
        /\ pc[c] = "value" => pc'[c] = "wrunlock" /\ store' = [store EXCEPT ![key] = call[c].value]
        /\ pc'[c] = "value" => store' = [store EXCEPT ![key] = HOLE]
        /\ pc[c] = "insert" /\ pc'[c] = "wrunlock" =>
             call[c].value = Null /\ store' = [store EXCEPT ![key] = Null]
        /\ copied' = copied /\ answers' = answers
    BY <1>2 DEF set_insert, set_value, VdbInv, LockInv, LockTypeOK
  <2>2. /\ call[c] \in Set /\ key \in Key /\ call[c].value \in Value \cup {Null}
        /\ call[c].value # HOLE /\ Null # HOLE /\ store \in [Key -> Value \cup {Null, HOLE}]
    BY <2>1, SubTyped, LockAssumption DEF VdbInv, LockInv, LockTypeOK, InCall, Writes, Set
  <2>3. StoreSeen /\ StoreSeen'
    BY StoreIs, PTL
  <2>4. Store'[key] = call[c].value
    <3>1. CASE pc'[c] = "value"
      BY <1>0, <2>2, <2>3, <3>1 DEF StoreSeen
    <3>2. CASE pc'[c] = "wrunlock"
      <4>1. store'[key] = call[c].value
        BY <2>1, <2>2, <3>2
      <4> QED
        BY <2>2, <2>3, <4>1 DEF StoreSeen
    <3> QED
      BY <2>1, <3>1, <3>2
  <2>5. ASSUME NEW k \in Key, k # key
        PROVE  Store'[k] = Store[k]
    <3>1. store'[k] = store[k]
      <4>1. PICK v : store' = [store EXCEPT ![key] = v]
        BY <2>1
      <4> HIDE DEF key
      <4> QED
        BY <2>2, <2>5, <4>1
    <3>2. CASE store[k] # HOLE
      BY <2>3, <3>1, <3>2 DEF StoreSeen
    <3>3. CASE store[k] = HOLE
      <4>1. PICK d \in Caller : pc[d] = "value" /\ call[d].key = k
        BY <3>3 DEF VdbInv, LockInv, HolesFilled
      <4>2. pc'[d] = "value"
        BY <1>0, <2>5, <4>1
      <4> QED
        BY <1>0, <2>3, <4>1, <4>2 DEF StoreSeen
    <3> QED
      BY <3>2, <3>3
  <2>6. Found' = Found
    <3>1. {d \in Caller : pc'[d] \in Finds} = {d \in Caller : pc[d] \in Finds}
      BY <1>0, <2>1 DEF Finds
    <3> QED
      BY <1>0, <2>1, <3>1 DEF Found, Finds
  <2>7. Store' = [Store EXCEPT ![key] = call[c].value]
    BY <2>2, <2>4, <2>5 DEF Store
  <2>8. CASE pc[c] = "insert"
    <3>1. Waiting' = Waiting \ {call[c]} /\ call[c] \in Waiting /\ Db!First(call[c])
      BY <1>0, <2>1, <2>8, WaitEnds DEF Waits
    <3>2. call[c].kind = "set"
      BY <2>2 DEF Set
    <3>3. Db!Effect(call[c])
      BY <1>0, <2>1, <2>6, <2>7, <3>1, <3>2 DEF Db!Effect
    <3> QED
      BY <3>1, <3>3 DEF Db!Next
  <2>9. CASE pc[c] = "value"
    <3>1. Store[key] = call[c].value
      BY <2>2, <2>3, <2>9 DEF StoreSeen
    <3>2. Store' = Store
      BY <2>4, <2>5, <3>1 DEF Store
    <3>3. {d \in Caller : pc'[d] \in Waits} = {d \in Caller : pc[d] \in Waits}
      BY <1>0, <2>1, <2>9 DEF Waits
    <3>4. Waiting' = Waiting
      BY <1>0, <3>3 DEF Waiting, Waits
    <3> QED
      BY <1>0, <2>1, <2>6, <3>2, <3>4 DEF Db!vars
  <2> QED
    BY <2>1, <2>8, <2>9
<1> QED
  BY <1>1, <1>2 DEF set

LEMMA StepIsVdb == VdbInv /\ VdbInv' /\ [LockNext]_lock_vars => [Db!Next]_(Db!vars)
<1> SUFFICES ASSUME VdbInv, VdbInv', [LockNext]_lock_vars
             PROVE  [Db!Next]_(Db!vars)
  OBVIOUS
<1>1. CASE UNCHANGED lock_vars
  BY <1>1 DEF lock_vars, Db!vars, Store, Waiting, Found
<1>2. ASSUME NEW c \in Caller, enter(c)
      PROVE  Db!Next
  BY <1>2, EnterAsks DEF Db!Next
<1> QED
  BY <1>1, <1>2, GetIsVdb, SetIsVdb DEF LockNext

LEMMA InitIsVdb == LockInit => Db!Init
<1> SUFFICES ASSUME LockInit
             PROVE  Db!Init
  OBVIOUS
<1>1. Store = [k \in Key |-> Null]
  BY LockAssumption DEF LockInit, Store
<1>2. Waiting = {} /\ Found = {}
  BY DEF LockInit, Waiting, Found
<1> QED
  BY <1>1, <1>2 DEF LockInit, Db!Init

(* db_lock implements `struct vdb' for any threads, calls, keys and values,*)
(* and any number of parts: between its call and its return, each set()    *)
(* and each geta() takes effect at one moment, and what get() returns is   *)
(* the value of that moment, although the node is found and its value      *)
(* copied, or freed and replaced, in different steps.  That every geta()   *)
(* is answered is left to the runs.                                        *)
THEOREM LockDbIsVdb == LockSpec => Db!Init /\ [][Db!Next]_(Db!vars)
BY VdbInitHolds, VdbStep, InitIsVdb, StepIsVdb, PTL DEF LockSpec


-----------------------------------------------------------------------------
(* What the thread that pops sees of the queue. *)
Queue == INSTANCE RequestQueue
           WITH contents <- Contents, stopped <- ~running, ended <- cnd_pc = "ended"

(* pop() sleeps only while there is nothing to take and no stop() to see:  *)
(* whoever pushes or stops wakes it.                                       *)
SleepsWithReason == cnd_pc = "wait" => queue = <<>> /\ running

(* What pop() knows of `running' may be old, but it was true: the flag is  *)
(* only cleared.  Who pushes has something left to push, so that nothing   *)
(* comes after stop(), which is called when everyone has ended.            *)
CndInv ==
  /\ TypeOK
  /\ \A p \in Producer : mutex = p => pushed[p] < Count
  /\ mutex = "owner" => running
  /\ ~running \/ mutex = "owner" => \A p \in Producer : pushed[p] = Count
  /\ ~seen => ~running
  /\ cnd_pc = "inside" => seen = running
  /\ SleepsWithReason

LEMMA CndInitHolds == CndAssumption /\ Init => CndInv
BY EmptySeq DEF CndAssumption, Init, CndInv, TypeOK, PopPlace, Requests, SleepsWithReason

(* The thread that pops. *)
LEMMA PopKeeps == ASSUME CndAssumption, CndInv, pop \/ spurious
                  PROVE  CndInv'
<1> USE DEF CndInv, TypeOK, PopPlace, SleepsWithReason
<1>1. CASE pop_local
  <2>1. PICK s \in Requests : s = local /\ s # <<>>
    BY <1>1 DEF pop_local
  <2>2. Head(s) \in Producer \X (1..Count) /\ Tail(s) \in Requests
    BY <2>1, HeadTailProperties DEF Requests
  <2>3. taken' \in Requests /\ local' \in Requests
    BY <1>1, <2>1, <2>2, AppendProperties DEF pop_local, Requests
  <2> QED
    BY <1>1, <2>3 DEF pop_local
<1>2. CASE pop_peek
  BY <1>2 DEF pop_peek
<1>3. CASE pop_lock
  BY <1>3 DEF pop_lock, acquire, CndAssumption
<1>4. CASE pop_wait
  BY <1>4 DEF pop_wait, CndAssumption
<1>5. CASE pop_wake
  BY <1>5 DEF pop_wake, acquire, CndAssumption
<1>6. CASE pop_move
  <2>1. local' \in Requests /\ queue' \in Requests
    BY <1>6, ConcatProperties, EmptySeq DEF pop_move, Requests
  <2> QED
    BY <1>6, <2>1 DEF pop_move, CndAssumption
<1>7. CASE spurious
  BY <1>7 DEF spurious
<1> QED
  BY <1>1, <1>2, <1>3, <1>4, <1>5, <1>6, <1>7 DEF pop

(* The threads that push and stop. *)
LEMMA PushKeeps == ASSUME CndAssumption, CndInv, NEW p \in Producer, push_lock(p) \/ push(p)
                   PROVE  CndInv'
<1> USE DEF CndInv, TypeOK, PopPlace, SleepsWithReason
<1>1. CASE push_lock(p)
  <2>1. running
    BY <1>1 DEF push_lock
  <2> QED
    BY <1>1, <2>1 DEF push_lock, acquire, CndAssumption
<1>2. CASE push(p)
  <2>1. /\ mutex = p /\ pushed[p] < Count /\ running
        /\ pushed' = [pushed EXCEPT ![p] = pushed[p] + 1]
        /\ queue' = Append(queue, <<p, pushed[p] + 1>>)
        /\ mutex' = "nobody" /\ UNCHANGED <<local, running, seen, taken>>
        /\ cnd_pc' = IF cnd_pc = "wait" THEN "woken" ELSE cnd_pc
    BY <1>2 DEF push, signal, CndAssumption
  <2>2. PICK m \in 1..Count : m = pushed[p] + 1
    BY <2>1 DEF CndAssumption
  <2>3. queue' \in Requests
    <3>1. <<p, m>> \in Producer \X (1..Count)
      OBVIOUS
    <3> QED
      BY <2>1, <2>2, <3>1, AppendProperties DEF Requests
  <2>4. pushed' \in [Producer -> 0..Count]
    BY <2>1, <2>2 DEF CndAssumption
  <2>5. mutex # "popper" /\ cnd_pc' \notin {"inside", "move", "wait"}
    BY <2>1 DEF CndAssumption
  <2> QED
    BY <2>1, <2>3, <2>4, <2>5 DEF CndAssumption
<1> QED
  BY <1>1, <1>2

LEMMA StopKeeps == ASSUME CndAssumption, CndInv, stop_lock \/ stop
                   PROVE  CndInv'
<1> USE DEF CndInv, TypeOK, PopPlace, SleepsWithReason, CndAssumption
<1>1. CASE stop_lock
  BY <1>1 DEF stop_lock, acquire
<1>2. CASE stop
  BY <1>2 DEF stop, signal
<1> QED
  BY <1>1, <1>2

LEMMA CndStep == CndAssumption /\ CndInv /\ [Next]_vars => CndInv'
<1> SUFFICES ASSUME CndAssumption, CndInv, [Next]_vars
             PROVE  CndInv'
  OBVIOUS
<1>1. CASE UNCHANGED vars
  BY <1>1 DEF vars, CndInv, TypeOK, SleepsWithReason
<1> QED
  BY <1>1, PopKeeps, PushKeeps, StopKeeps DEF Next

-----------------------------------------------------------------------------
(* The head of the first part is the head of the whole. *)
LEMMA HeadTailOfConcat ==
  ASSUME NEW S, NEW s \in Seq(S), NEW t \in Seq(S), s # <<>>
  PROVE  s \o t # <<>> /\ Head(s \o t) = Head(s) /\ Tail(s \o t) = Tail(s) \o t
<1>1. PICK u \in Seq(S) : u = s \o t
  BY ConcatProperties
<1>2. /\ Len(u) = Len(s) + Len(t) /\ Len(s) \in Nat \ {0} /\ Len(t) \in Nat
      /\ \A i \in 1..Len(u) : u[i] = IF i <= Len(s) THEN s[i] ELSE t[i - Len(s)]
  BY <1>1, ConcatProperties, LenProperties, EmptySeq
<1>3. u # <<>> /\ Head(u) = Head(s)
  <2>1. Len(u) # 0 /\ u[1] = s[1]
    BY <1>2
  <2> QED
    BY <2>1, HeadTailProperties, EmptySeq
<1>4. PICK r \in Seq(S) : r = Tail(s) /\ Len(r) = Len(s) - 1 /\ \A i \in 1..Len(r) : r[i] = s[i + 1]
  BY HeadTailProperties
<1>5. PICK v \in Seq(S) : v = Tail(u) /\ Len(v) = Len(u) - 1 /\ \A i \in 1..Len(v) : v[i] = u[i + 1]
  BY <1>3, HeadTailProperties
<1>6. PICK w \in Seq(S) : /\ w = r \o t /\ Len(w) = Len(r) + Len(t)
                          /\ \A i \in 1..Len(w) : w[i] = IF i <= Len(r) THEN r[i] ELSE t[i - Len(r)]
  <2>1. /\ r \o t \in Seq(S) /\ Len(r \o t) = Len(r) + Len(t)
        /\ \A i \in 1..Len(r) + Len(t) : (r \o t)[i] = IF i <= Len(r) THEN r[i] ELSE t[i - Len(r)]
    BY ConcatProperties
  <2> QED
    BY <2>1
<1>7. Len(v) = Len(w)
  BY <1>2, <1>4, <1>5, <1>6
<1>8. ASSUME NEW i \in 1..Len(v)
      PROVE  v[i] = w[i]
  BY <1>2, <1>4, <1>5, <1>6, <1>7
<1>9. v = w
  BY <1>7, <1>8, SeqEqual
<1> QED
  BY <1>1, <1>3, <1>4, <1>5, <1>6, <1>9

LEMMA AppendOfConcat ==
  ASSUME NEW S, NEW s \in Seq(S), NEW t \in Seq(S), NEW x \in S
  PROVE  s \o Append(t, x) = Append(s \o t, x)
<1>1. PICK u \in Seq(S) : u = <<x>> /\ Append(t, x) = t \o u
  <2>1. <<x>> \in Seq(S)
    OBVIOUS
  <2>2. Append(t, x) = t \o <<x>>
    BY AppendIsConcat
  <2> QED
    BY <2>1, <2>2
<1>2. Append(s \o t, x) = (s \o t) \o u
  BY <1>1, AppendIsConcat, ConcatProperties
<1> QED
  BY <1>1, <1>2, ConcatAssociative

(* A request that was moved or not is in the queue all the same. *)
LEMMA MoveStays == ASSUME CndInv, pop_move
                   PROVE  Contents' = Contents
<1>1. local \o queue \in Requests /\ local' = local \o queue /\ queue' = <<>>
  BY ConcatProperties DEF CndInv, TypeOK, Requests, pop_move
<1> QED
  BY <1>1, ConcatEmptySeq DEF Contents, Requests

LEMMA PopIsQueue == ASSUME CndAssumption, CndInv, pop \/ spurious
                    PROVE  [Queue!Next]_(Queue!vars)
<1>1. CASE pop_local
  <2>1. /\ cnd_pc = "top" /\ local # <<>> /\ local \in Requests /\ queue \in Requests
        /\ taken' = Append(taken, Head(local)) /\ local' = Tail(local)
        /\ UNCHANGED <<queue, running, mutex, cnd_pc, pushed>>
    BY <1>1 DEF pop_local, CndInv, TypeOK
  <2>2. Contents # <<>> /\ Head(Contents) = Head(local) /\ Tail(Contents) = Tail(local) \o queue
    BY <2>1, ConcatProperties, HeadTailOfConcat DEF Contents, Requests
  <2> QED
    BY <2>1, <2>2 DEF Contents, Queue!Next, Queue!pop
<1>2. CASE pop_peek
  <2>1. CASE ~seen /\ queue = <<>>
    <3>1. /\ ~running /\ cnd_pc = "top" /\ cnd_pc' = "ended" /\ local = <<>>
          /\ UNCHANGED <<queue, local, running, pushed, taken>>
      BY <1>2, <2>1 DEF pop_peek, CndInv
    <3>2. Contents = <<>> /\ Contents' = Contents
      BY <2>1, <3>1 DEF Contents
    <3> QED
      BY <3>1, <3>2 DEF Queue!Next, Queue!pop_null
  <2>2. CASE ~(~seen /\ queue = <<>>)
    BY <1>2, <2>2 DEF pop_peek, Queue!vars, Contents
  <2> QED
    BY <2>1, <2>2
<1>3. CASE pop_lock \/ pop_wait \/ pop_wake \/ spurious
  BY <1>3 DEF pop_lock, pop_wait, pop_wake, spurious, Queue!vars, Contents
<1>4. CASE pop_move
  BY <1>4, MoveStays DEF pop_move, Queue!vars
<1> QED
  BY <1>1, <1>2, <1>3, <1>4 DEF pop

LEMMA PushIsQueue == ASSUME CndAssumption, CndInv, NEW p \in Producer, push_lock(p) \/ push(p)
                     PROVE  [Queue!Next]_(Queue!vars)
<1>1. CASE push_lock(p)
  BY <1>1 DEF push_lock, Queue!vars, Contents
<1>2. CASE push(p)
  <2>1. /\ mutex = p /\ pushed[p] < Count /\ running
        /\ pushed' = [pushed EXCEPT ![p] = @ + 1]
        /\ queue' = Append(queue, <<p, pushed'[p]>>)
        /\ UNCHANGED <<local, running, taken>>
        /\ (cnd_pc' = "ended") = (cnd_pc = "ended")
    BY <1>2 DEF push, signal, CndInv, TypeOK, CndAssumption
  <2>2. PICK r : r = <<p, pushed'[p]>>
    OBVIOUS
  <2>3. r \in Producer \X (1..Count)
    BY <2>1, <2>2 DEF CndInv, TypeOK, CndAssumption
  <2>4. Contents' = Append(Contents, r)
    BY <2>1, <2>2, <2>3, AppendOfConcat DEF Contents, CndInv, TypeOK, Requests
  <2> QED
    BY <2>1, <2>2, <2>4 DEF Queue!Next, Queue!push
<1> QED
  BY <1>1, <1>2

LEMMA StopIsQueue == ASSUME CndAssumption, CndInv, stop_lock \/ stop
                     PROVE  [Queue!Next]_(Queue!vars)
<1>1. CASE stop_lock
  BY <1>1 DEF stop_lock, Queue!vars, Contents
<1>2. CASE stop
  BY <1>2 DEF stop, signal, CndInv, Contents, Queue!Next, Queue!stop
<1> QED
  BY <1>1, <1>2

LEMMA StepIsQueue == CndAssumption /\ CndInv /\ [Next]_vars => [Queue!Next]_(Queue!vars)
<1> SUFFICES ASSUME CndAssumption, CndInv, [Next]_vars
             PROVE  [Queue!Next]_(Queue!vars)
  OBVIOUS
<1>1. CASE UNCHANGED vars
  BY <1>1 DEF vars, Queue!vars, Contents
<1> QED
  BY <1>1, PopIsQueue, PushIsQueue, StopIsQueue DEF Next

LEMMA InitIsQueue == Init => Queue!Init
BY ConcatEmptySeq, EmptySeq DEF Init, Queue!Init, Contents

(* However many threads push, the one that pops sleeps only while there is *)
(* no request and stop() was not called: no wake-up is lost between the    *)
(* look at the queue and the wait, which is what its liveness rests on.    *)
THEOREM PopSleepsWithReason ==
  ASSUME CndAssumption
  PROVE  Spec => []SleepsWithReason
<1>1. CndInv => SleepsWithReason
  BY DEF CndInv
<1> QED
  BY <1>1, CndInitHolds, CndStep, PTL DEF Spec

(* req_queue_cnd implements `struct vqueue' for any number of threads that *)
(* push and any number of requests, although it looks at the queue without *)
(* its mutex and with a flag that may be old: requests come out in the     *)
(* order in which they went in, none twice and none lost, and pop() gives  *)
(* NULL only after stop() and when nothing is left.                        *)
THEOREM CndQueueIsQueue ==
  ASSUME CndAssumption
  PROVE  Spec => Queue!Init /\ [][Queue!Next]_(Queue!vars)
BY CndInitHolds, CndStep, InitIsQueue, StepIsQueue, PTL DEF Spec

-----------------------------------------------------------------------------
(* The queue of semaphores.                                                *)

CONSTANTS Single, Size
VARIABLES q, head, tail, full, empty, push_pc, sem_pc, entry, sem_pushed, sem_taken

Sem == INSTANCE SemQueue
         WITH Producer <- Single, pc <- sem_pc, pushed <- sem_pushed, taken <- sem_taken

SemRequest == Single \X (1..Count)

LEMMA NoEmptyRequest == \A r \in SemRequest : r # Sem!NULL
BY DEF SemRequest, Sem!NULL

(* The NULL of stop() takes a slot until pop() has it. *)
AtEnd == sem_pc = "ended" \/ (sem_pc = "post" /\ entry = Sem!NULL)

Stopping == IF push_pc \in {"stopped", "over"} /\ ~AtEnd THEN 1 ELSE 0

Wrapped(k) == IF tail + k < Size THEN tail + k ELSE tail + k - Size

One(b) == IF b THEN 1 ELSE 0

(* The first u slots from the tail on are used, and no other; the          *)
(* semaphores count them, but for the steps that are half done.            *)
Ring(u) ==
  /\ u \in 0..Size
  /\ \A k \in 0..(Size - 1) : Sem!Slot(k) # Sem!NULL <=> k < u
  /\ head = Wrapped(u + Stopping)
  /\ empty + One(sem_pc = "take") + One(push_pc \in {"post", "stopped"}) = u + Stopping
  /\ full + u + Stopping + One(push_pc = "store") + One(sem_pc = "post") = Size
  /\ AtEnd => u = 0

SemInv ==
  /\ Sem!TypeOK
  /\ \E u \in 0..Size : Ring(u)
  /\ push_pc \in {"stopped", "over"} => \A p \in Single : sem_pushed[p] = Count
  /\ AtEnd => push_pc \in {"stopped", "over"}
  /\ sem_pc # "post" => entry = Sem!NULL

LEMMA SemInitHolds == Sem!SemAssumption /\ Sem!Init => SemInv
<1> SUFFICES ASSUME Sem!SemAssumption, Sem!Init
             PROVE  SemInv
  OBVIOUS
<1> USE DEF Sem!SemAssumption
<1>1. Sem!TypeOK
  BY EmptySeq DEF Sem!Init, Sem!TypeOK
<1>2. Ring(0)
  BY DEF Sem!Init, Ring, Stopping, AtEnd, One, Wrapped, Sem!Slot
<1> QED
  BY <1>1, <1>2 DEF Sem!Init, SemInv, AtEnd

(* How many slots are used is what the ring says, before a step and after. *)
LEMMA ContentsAre ==
  ASSUME Sem!SemAssumption, NEW u
  PROVE  /\ Ring(u) => Sem!Contents = [k \in 1..u |-> Sem!Slot(k - 1)]
         /\ Ring(u)' => Sem!Contents' = [k \in 1..u |-> Sem!Slot(k - 1)']
<1>1. ASSUME Ring(u)
      PROVE  Sem!Contents = [k \in 1..u |-> Sem!Slot(k - 1)]
  <2>1. u \in 0..Size /\ \A n \in 0..Size : Sem!Filled(n) <=> n = u
    BY <1>1 DEF Sem!SemAssumption, Ring, Sem!Filled
  <2>2. (CHOOSE n \in 0..Size : Sem!Filled(n)) = u
    BY <2>1
  <2> QED
    BY <2>2 DEF Sem!Contents
<1>2. ASSUME Ring(u)'
      PROVE  Sem!Contents' = [k \in 1..u |-> Sem!Slot(k - 1)']
  <2>1. u \in 0..Size /\ \A n \in 0..Size : Sem!Filled(n)' <=> n = u
    BY <1>2 DEF Sem!SemAssumption, Ring, Sem!Filled
  <2>2. (CHOOSE n \in 0..Size : Sem!Filled(n)') = u
    BY <2>1
  <2> QED
    BY <2>2 DEF Sem!Contents
<1> QED
  BY <1>1, <1>2

(* A step of a semaphore leaves the ring as it is. *)
LEMMA WaitKeeps ==
  ASSUME Sem!SemAssumption, SemInv,
         Sem!push_wait \/ Sem!push_post \/ Sem!stop_post \/ Sem!pop_wait \/ Sem!pop_post
  PROVE  SemInv'
<1>1. PICK u \in 0..Size : Ring(u)
  BY DEF SemInv
<1>2. /\ AtEnd' <=> AtEnd
      /\ AtEnd' => push_pc' \in {"stopped", "over"}
      /\ sem_pc' # "post" => entry' = Sem!NULL
      /\ push_pc' \in {"stopped", "over"} <=> push_pc \in {"stopped", "over"}
      /\ UNCHANGED <<q, head, tail, sem_pushed, sem_taken>>
  BY DEF SemInv, AtEnd, Sem!push_wait, Sem!push_post, Sem!stop_post, Sem!pop_wait, Sem!pop_post
<1>3. Stopping' = Stopping /\ Stopping \in {0, 1}
  BY <1>2 DEF Stopping
<1>4. \A k : Sem!Slot(k)' = Sem!Slot(k) /\ Wrapped(k)' = Wrapped(k)
  BY <1>2 DEF Sem!Slot, Wrapped
<1>5. /\ full \in Nat /\ empty \in Nat /\ Size \in Nat /\ u \in Nat
      /\ empty + One(sem_pc = "take") + One(push_pc \in {"post", "stopped"}) = u + Stopping
      /\ full + u + Stopping + One(push_pc = "store") + One(sem_pc = "post") = Size
  BY <1>1 DEF SemInv, Sem!TypeOK, Ring, Sem!SemAssumption
<1>6. /\ full' \in Nat /\ empty' \in Nat
      /\ push_pc' \in {"ready", "store", "post", "stopped", "over"}
      /\ sem_pc' \in {"ready", "take", "post", "ended"}
      /\ empty' + One(sem_pc' = "take") + One(push_pc' \in {"post", "stopped"}) = u + Stopping
      /\ full' + u + Stopping + One(push_pc' = "store") + One(sem_pc' = "post") = Size
  <2> USE DEF One
  <2>0. /\ push_pc \in {"ready", "store", "post", "stopped", "over"}
        /\ sem_pc \in {"ready", "take", "post", "ended"}
    BY DEF SemInv, Sem!TypeOK
  <2>1. CASE Sem!push_wait
    BY <1>3, <1>5, <2>0, <2>1 DEF Sem!push_wait
  <2>2. CASE Sem!push_post
    BY <1>3, <1>5, <2>0, <2>2 DEF Sem!push_post
  <2>3. CASE Sem!stop_post
    BY <1>3, <1>5, <2>0, <2>3 DEF Sem!stop_post
  <2>4. CASE Sem!pop_wait
    BY <1>3, <1>5, <2>0, <2>4 DEF Sem!pop_wait
  <2>5. CASE Sem!pop_post
    BY <1>3, <1>5, <2>0, <2>5 DEF Sem!pop_post
  <2> QED
    BY <2>1, <2>2, <2>3, <2>4, <2>5
<1>7. Ring(u)'
  BY <1>1, <1>2, <1>3, <1>4, <1>6 DEF Ring
<1>8. full' \in 0..Size /\ empty' \in 0..Size
  <2>1. \A b : One(b) \in {0, 1}
    BY DEF One
  <2>2. u + Stopping <= Size
    BY <1>3, <1>5, <2>1
  <2> QED
    BY <1>3, <1>5, <1>6, <2>1, <2>2
<1>9. Sem!TypeOK'
  BY <1>2, <1>6, <1>8 DEF SemInv, Sem!TypeOK, Sem!push_wait, Sem!push_post, Sem!stop_post, Sem!pop_wait, Sem!pop_post
<1> QED
  BY <1>1, <1>2, <1>7, <1>9 DEF SemInv

(* The slots. *)
LEMMA StoreKeeps ==
  ASSUME Sem!SemAssumption, SemInv, NEW p \in Single, Sem!push_store(p)
  PROVE  /\ SemInv'
         /\ Sem!Contents' = Append(Sem!Contents, <<p, sem_pushed[p] + 1>>)
<1> USE DEF Sem!SemAssumption
<1>1. PICK u \in 0..Size : Ring(u)
  BY DEF SemInv
<1>2. /\ push_pc = "store" /\ ~AtEnd /\ Stopping = 0 /\ Stopping' = 0 /\ ~AtEnd' /\ push_pc' = "post"
      /\ UNCHANGED <<tail, full, empty, sem_pc, entry, sem_taken>>
  BY DEF SemInv, Sem!push_store, Stopping, AtEnd
<1>3. u < Size /\ head = Wrapped(u) /\ u \in Nat
  BY <1>1, <1>2 DEF Ring, One, SemInv, Sem!TypeOK
<1>4. PICK r \in SemRequest : r = <<p, sem_pushed[p] + 1>>
  BY DEF Sem!push_store, SemInv, Sem!TypeOK, SemRequest
<1>5. q' = [q EXCEPT ![head] = r] /\ sem_pushed' = [sem_pushed EXCEPT ![p] = sem_pushed[p] + 1]
  BY <1>4 DEF Sem!push_store, SemInv, Sem!TypeOK
<1>6. /\ Sem!Slot(u)' = r
      /\ \A k \in 0..(Size - 1) : k # u => Sem!Slot(k)' = Sem!Slot(k)
  BY <1>2, <1>3, <1>5 DEF SemInv, Sem!TypeOK, Sem!Slot, Wrapped
<1>7. head' = Wrapped(u + 1)' /\ head' \in 0..(Size - 1)
  BY <1>2, <1>3 DEF Sem!push_store, Sem!advance, Wrapped, SemInv, Sem!TypeOK
<1>8. Ring(u + 1)'
  <2>1. \A k \in 0..(Size - 1) : Sem!Slot(k)' # Sem!NULL <=> k < u + 1
    BY <1>1, <1>3, <1>4, <1>6, NoEmptyRequest DEF Ring
  <2>2. /\ empty' + One(sem_pc' = "take") + One(push_pc' \in {"post", "stopped"}) = u + 1 + Stopping'
        /\ full' + (u + 1) + Stopping' + One(push_pc' = "store") + One(sem_pc' = "post") = Size
    BY <1>1, <1>2, <1>3 DEF Ring, One, SemInv, Sem!TypeOK
  <2>3. head' = Wrapped(u + 1 + Stopping)'
    BY <1>2, <1>3, <1>7
  <2> QED
    BY <1>2, <1>3, <2>1, <2>2, <2>3 DEF Ring
<1>9. Sem!TypeOK'
  <2>1. q' \in [0..Size - 1 -> SemRequest \cup {Sem!NULL}]
    BY <1>5 DEF SemInv, Sem!TypeOK, SemRequest
  <2>2. sem_pushed' \in [Single -> 0..Count]
    BY <1>5 DEF SemInv, Sem!TypeOK, Sem!push_store
  <2> QED
    BY <1>2, <1>7, <2>1, <2>2 DEF SemInv, Sem!TypeOK, SemRequest
<1>10. SemInv'
  BY <1>2, <1>3, <1>8, <1>9 DEF SemInv
<1>11. Sem!Contents = [k \in 1..u |-> Sem!Slot(k - 1)]
  BY <1>1, ContentsAre
<1>12. Sem!Contents' = [k \in 1..(u + 1) |-> Sem!Slot(k - 1)']
  BY <1>8, ContentsAre
<1>13. Sem!Contents' = Append(Sem!Contents, r)
  <2>1. \A k \in 1..u : Sem!Slot(k - 1)' = Sem!Slot(k - 1)
    BY <1>3, <1>6
  <2>2. ASSUME NEW k \in 1..u
        PROVE  Sem!Slot(k - 1) \in SemRequest
    <3>1. Sem!Slot(k - 1) # Sem!NULL
      BY <1>1, <1>3 DEF Ring, SemInv, Sem!TypeOK
    <3>2. Sem!Slot(k - 1) \in SemRequest \cup {Sem!NULL}
      BY <1>3 DEF SemInv, Sem!TypeOK, Sem!Slot, SemRequest
    <3> QED
      BY <3>1, <3>2
  <2>3. PICK c \in [1..u -> SemRequest] : c = Sem!Contents
    BY <1>11, <2>2
  <2>4. /\ c \in Seq(SemRequest) /\ Len(c) = u
        /\ \A k \in 1..u : c[k] = Sem!Slot(k - 1)
    BY <1>3, <1>11, <2>3
  <2>5. PICK d \in Seq(SemRequest) : d = Append(c, r)
    BY <2>4, AppendProperties
  <2>6. /\ d = [k \in 1..(u + 1) |-> d[k]] /\ d[u + 1] = r
        /\ \A k \in 1..u : d[k] = c[k]
    <3>1. Len(d) = u + 1 /\ d[u + 1] = r /\ \A k \in 1..u : d[k] = c[k]
      BY <2>4, <2>5, AppendProperties
    <3>2. d \in [1..(u + 1) -> SemRequest]
      BY <3>1, LenProperties
    <3> QED
      BY <3>1, <3>2
  <2>7. ASSUME NEW k \in 1..(u + 1)
        PROVE  d[k] = Sem!Slot(k - 1)'
    <3>1. CASE k = u + 1
      <4>1. k - 1 = u
        BY <1>3, <3>1
      <4> QED
        BY <1>6, <2>6, <3>1, <4>1
    <3>2. CASE k # u + 1
      <4>1. k \in 1..u
        BY <1>3, <3>2
      <4> QED
        BY <2>1, <2>4, <2>6, <4>1
    <3> QED
      BY <3>1, <3>2
  <2> QED
    BY <1>12, <2>3, <2>5, <2>6, <2>7
<1> QED
  BY <1>4, <1>10, <1>13

(* stop() stores nothing, but its slot counts. *)
LEMMA StopStores ==
  ASSUME Sem!SemAssumption, SemInv, Sem!stop
  PROVE  SemInv'
<1> USE DEF Sem!SemAssumption
<1>1. PICK u \in 0..Size : Ring(u)
  BY DEF SemInv
<1>2. /\ push_pc = "store" /\ ~AtEnd /\ Stopping = 0 /\ Stopping' = 1 /\ ~AtEnd' /\ push_pc' = "stopped"
      /\ UNCHANGED <<q, tail, full, empty, sem_pc, entry, sem_pushed, sem_taken>>
      /\ head' = Sem!advance(head) /\ \A p \in Single : sem_pushed[p] = Count
  BY DEF SemInv, Sem!stop, Stopping, AtEnd
<1>3. u < Size /\ head = Wrapped(u) /\ u \in Nat
  BY <1>1, <1>2 DEF Ring, One, SemInv, Sem!TypeOK
<1>4. \A k : Sem!Slot(k)' = Sem!Slot(k)
  BY <1>2 DEF Sem!Slot
<1>5. head' = Wrapped(u + 1)' /\ head' \in 0..(Size - 1)
  BY <1>2, <1>3 DEF Sem!advance, Wrapped, SemInv, Sem!TypeOK
<1>6. /\ empty' + One(sem_pc' = "take") + One(push_pc' \in {"post", "stopped"}) = u + Stopping'
      /\ full' + u + Stopping' + One(push_pc' = "store") + One(sem_pc' = "post") = Size
  BY <1>1, <1>2, <1>3 DEF Ring, One, SemInv, Sem!TypeOK
<1>7. head' = Wrapped(u + Stopping)'
  BY <1>2, <1>3, <1>5 DEF Wrapped
<1>8. Ring(u)'
  BY <1>1, <1>2, <1>4, <1>6, <1>7 DEF Ring
<1>9. Sem!TypeOK'
  BY <1>2, <1>5 DEF SemInv, Sem!TypeOK
<1> QED
  BY <1>1, <1>2, <1>8, <1>9 DEF SemInv

(* Where pop() finds NULL, the ring was used up to that of stop(). *)
LEMMA TakeKeeps ==
  ASSUME Sem!SemAssumption, SemInv, Sem!pop_take
  PROVE  /\ SemInv'
         /\ q[tail] = Sem!NULL => Sem!Contents = <<>> /\ Sem!Contents' = <<>>
         /\ q[tail] # Sem!NULL =>
              /\ Sem!Contents # <<>> /\ q[tail] = Head(Sem!Contents)
              /\ Sem!Contents' = Tail(Sem!Contents)
<1> USE DEF Sem!SemAssumption
<1>1. PICK u \in 0..Size : Ring(u)
  BY DEF SemInv
<1>2. /\ sem_pc = "take" /\ ~AtEnd /\ sem_pc' = "post" /\ entry' = q[tail]
      /\ q' = [q EXCEPT ![tail] = Sem!NULL] /\ tail' = Sem!advance(tail)
      /\ UNCHANGED <<head, full, empty, push_pc, sem_pushed>>
      /\ AtEnd' <=> q[tail] = Sem!NULL
  BY DEF SemInv, Sem!pop_take, AtEnd
<1>3. /\ u \in Nat /\ Stopping \in {0, 1} /\ tail \in 0..(Size - 1) /\ Size \in Nat \ {0}
      /\ u + Stopping >= 1 /\ u + Stopping <= Size
      /\ q \in [0..(Size - 1) -> SemRequest \cup {Sem!NULL}]
  BY <1>1, <1>2 DEF Ring, One, Stopping, SemInv, Sem!TypeOK, SemRequest
<1>4. Sem!Slot(0) = q[tail] /\ (q[tail] # Sem!NULL <=> u > 0)
  <2>1. tail + 0 = tail /\ tail < Size /\ 0 \in 0..(Size - 1)
    BY <1>3
  <2>2. Sem!Slot(0) = q[tail]
    BY <2>1 DEF Sem!Slot
  <2>3. Sem!Slot(0) # Sem!NULL <=> 0 < u
    BY <1>1, <2>1 DEF Ring
  <2> QED
    BY <1>3, <2>2, <2>3
<1>5. /\ \A k \in 0..(Size - 2) : Sem!Slot(k)' = Sem!Slot(k + 1)
      /\ Sem!Slot(Size - 1)' = Sem!NULL
      /\ tail' \in 0..(Size - 1)
  BY <1>2, <1>3 DEF Sem!Slot, Sem!advance
<1>6. CASE u = 0
  <2>1. q[tail] = Sem!NULL /\ AtEnd' /\ Stopping = 1 /\ Stopping' = 0 /\ push_pc \in {"stopped", "over"}
    BY <1>2, <1>3, <1>4, <1>6 DEF Stopping
  <2>2. head' = Wrapped(0)'
    BY <1>1, <1>2, <1>3, <1>6, <2>1 DEF Ring, Wrapped, Sem!advance
  <2>3. Ring(0)'
    BY <1>1, <1>2, <1>3, <1>5, <1>6, <2>1, <2>2 DEF Ring, One, SemInv, Sem!TypeOK
  <2>4. Sem!Contents = <<>> /\ Sem!Contents' = <<>>
    BY <1>1, <1>6, <2>3, ContentsAre
  <2>5. Sem!TypeOK'
    BY <1>2, <1>3, <1>5, <2>1 DEF SemInv, Sem!TypeOK, SemRequest, Sem!pop_take
  <2> QED
    BY <1>2, <2>1, <2>3, <2>4, <2>5 DEF SemInv
<1>7. CASE u > 0
  <2>1. q[tail] \in SemRequest /\ ~AtEnd' /\ Stopping = Stopping' /\ sem_taken' = Append(sem_taken, q[tail])
    BY <1>2, <1>3, <1>4, <1>7 DEF Stopping, Sem!pop_take
  <2>2. head' = Wrapped(u - 1 + Stopping)'
    <3>1. PICK n \in 1..Size : n = u + Stopping /\ n - 1 = u - 1 + Stopping /\ head = Wrapped(n)
      BY <1>1, <1>3 DEF Ring
    <3>2. head' = Wrapped(n - 1)'
      BY <1>2, <1>3, <3>1 DEF Wrapped, Sem!advance
    <3> QED
      BY <2>1, <3>1, <3>2 DEF Wrapped
  <2>3. Ring(u - 1)'
    <3>1. \A k \in 0..(Size - 1) : Sem!Slot(k)' # Sem!NULL <=> k < u - 1
      <4> SUFFICES ASSUME NEW k \in 0..(Size - 1)
                   PROVE  Sem!Slot(k)' # Sem!NULL <=> k < u - 1
        OBVIOUS
      <4>1. CASE k = Size - 1
        BY <1>3, <1>5, <1>1, <4>1 DEF Ring
      <4>2. CASE k # Size - 1
        <5>1. k \in 0..(Size - 2) /\ k + 1 \in 0..(Size - 1) /\ (k + 1 < u <=> k < u - 1)
          BY <1>3, <4>2
        <5> QED
          BY <1>1, <1>5, <5>1 DEF Ring
      <4> QED
        BY <4>1, <4>2
    <3>2. /\ empty' + One(sem_pc' = "take") + One(push_pc' \in {"post", "stopped"}) = u - 1 + Stopping'
          /\ full' + (u - 1) + Stopping' + One(push_pc' = "store") + One(sem_pc' = "post") = Size
      <4>1. empty \in Nat /\ full \in Nat
        BY DEF SemInv, Sem!TypeOK
      <4>2. One(sem_pc = "take") = 1 /\ One(sem_pc' = "take") = 0 /\ One(sem_pc = "post") = 0 /\ One(sem_pc' = "post") = 1
        BY <1>2 DEF One
      <4>3. \A b : One(b) \in {0, 1}
        BY DEF One
      <4>4. push_pc' = push_pc /\ empty' = empty /\ full' = full /\ Stopping' = Stopping
        BY <1>2, <2>1
      <4> QED
        BY <1>1, <1>3, <4>1, <4>2, <4>3, <4>4 DEF Ring
    <3> QED
      BY <1>2, <1>3, <1>7, <2>1, <2>2, <3>1, <3>2 DEF Ring
  <2>4. Sem!Contents = [k \in 1..u |-> Sem!Slot(k - 1)] /\ Sem!Contents' = [k \in 1..(u - 1) |-> Sem!Slot(k - 1)']
    BY <1>1, <2>3, ContentsAre
  <2>5. ASSUME NEW k \in 1..u
        PROVE  Sem!Slot(k - 1) \in SemRequest
    <3>1. Sem!Slot(k - 1) # Sem!NULL
      BY <1>1, <1>3 DEF Ring
    <3>2. Sem!Slot(k - 1) \in SemRequest \cup {Sem!NULL}
      BY <1>3 DEF Sem!Slot
    <3> QED
      BY <3>1, <3>2
  <2>6. PICK c \in [1..u -> SemRequest] : c = Sem!Contents
    BY <2>4, <2>5
  <2>7. /\ c \in Seq(SemRequest) /\ Len(c) = u /\ c[1] = Sem!Slot(0) /\ c # <<>> /\ Head(c) = c[1]
        /\ \A k \in 1..u : c[k] = Sem!Slot(k - 1)
    BY <1>3, <1>7, <2>4, <2>6
  <2>8. PICK d \in Seq(SemRequest) : /\ d = Tail(c) /\ Len(d) = u - 1
                                    /\ \A k \in 1..(u - 1) : d[k] = c[k + 1]
    <3>1. Tail(c) \in Seq(SemRequest) /\ Len(Tail(c)) = u - 1
      BY <2>7, HeadTailProperties
    <3>2. \A k \in 1..Len(Tail(c)) : Tail(c)[k] = c[k + 1]
      BY <2>7, HeadTailProperties
    <3> QED
      BY <3>1, <3>2
  <2>9. d = [k \in 1..(u - 1) |-> d[k]]
    BY <2>8, LenProperties
  <2>10. ASSUME NEW k \in 1..(u - 1)
         PROVE  d[k] = Sem!Slot(k - 1)'
    <3>1. k + 1 \in 1..u /\ k - 1 \in 0..(Size - 2) /\ (k - 1) + 1 = k /\ (k + 1) - 1 = k
      BY <1>3
    <3> QED
      BY <1>5, <2>7, <2>8, <3>1
  <2>11. Sem!Contents' = Tail(Sem!Contents)
    BY <2>4, <2>6, <2>8, <2>9, <2>10
  <2>12. Sem!TypeOK'
    <3>1. sem_taken' \in Seq(SemRequest)
      BY <2>1, AppendProperties DEF SemInv, Sem!TypeOK, SemRequest
    <3> QED
      BY <1>2, <1>3, <1>5, <2>1, <3>1 DEF SemInv, Sem!TypeOK, SemRequest
  <2>13. SemInv'
    BY <1>2, <1>3, <1>7, <2>1, <2>3, <2>12 DEF SemInv
  <2> QED
    BY <1>4, <2>1, <2>6, <2>7, <2>11, <2>13, NoEmptyRequest
<1> QED
  BY <1>3, <1>6, <1>7

-----------------------------------------------------------------------------
SemPromise == INSTANCE RequestQueue
              WITH Producer <- Single, pushed <- sem_pushed, contents <- Sem!Contents,
                   stopped <- push_pc \in {"stopped", "over"}, taken <- sem_taken,
                   ended <- sem_pc = "ended"

LEMMA SemStep ==
  ASSUME Sem!SemAssumption, SemInv, [Sem!Next]_(Sem!vars)
  PROVE  SemInv' /\ [SemPromise!Next]_(SemPromise!vars)
<1>1. CASE Sem!push_wait \/ Sem!push_post \/ Sem!stop_post \/ Sem!pop_wait \/ Sem!pop_post
  <2>1. SemInv' /\ Sem!Contents' = Sem!Contents
    <3>1. q' = q /\ tail' = tail
      BY <1>1 DEF Sem!push_wait, Sem!push_post, Sem!stop_post, Sem!pop_wait, Sem!pop_post
    <3> QED
      BY <1>1, <3>1, WaitKeeps DEF Sem!Contents, Sem!Filled, Sem!Slot
  <2>2. CASE Sem!pop_post /\ entry = Sem!NULL
    <3>1. /\ push_pc \in {"stopped", "over"} /\ sem_pc # "ended" /\ sem_pc' = "ended"
          /\ UNCHANGED <<push_pc, sem_pushed, sem_taken>>
      BY <2>2 DEF Sem!pop_post, SemInv, AtEnd
    <3>2. Sem!Contents = <<>>
      <4>1. Ring(0)
        BY <2>2 DEF Sem!pop_post, SemInv, AtEnd, Ring
      <4> QED
        BY <4>1, ContentsAre
    <3> QED
      BY <2>1, <3>1, <3>2 DEF SemPromise!Next, SemPromise!pop_null
  <2>3. CASE ~(Sem!pop_post /\ entry = Sem!NULL)
    <3>1. UNCHANGED <<sem_pushed, sem_taken>> /\ (sem_pc' = "ended") = (sem_pc = "ended")
          /\ (push_pc' \in {"stopped", "over"}) = (push_pc \in {"stopped", "over"})
      BY <1>1, <2>3 DEF Sem!push_wait, Sem!push_post, Sem!stop_post, Sem!pop_wait, Sem!pop_post
    <3> QED
      BY <2>1, <3>1 DEF SemPromise!vars
  <2> QED
    BY <2>2, <2>3
<1>2. CASE Sem!stop
  <2>1. SemInv' /\ Sem!Contents' = Sem!Contents
    <3>1. q' = q /\ tail' = tail
      BY <1>2 DEF Sem!stop
    <3> QED
      BY <1>2, <3>1, StopStores DEF Sem!Contents, Sem!Filled, Sem!Slot
  <2> QED
    BY <1>2, <2>1 DEF Sem!stop, SemPromise!Next, SemPromise!stop
<1>3. ASSUME NEW p \in Single, Sem!push_store(p)
      PROVE  SemInv' /\ [SemPromise!Next]_(SemPromise!vars)
  <2>1. SemInv' /\ Sem!Contents' = Append(Sem!Contents, <<p, sem_pushed[p] + 1>>)
    BY <1>3, StoreKeeps
  <2>2. /\ push_pc = "store" /\ push_pc' = "post" /\ sem_pushed[p] < Count
        /\ sem_pushed' = [sem_pushed EXCEPT ![p] = @ + 1] /\ sem_pushed'[p] = sem_pushed[p] + 1
        /\ UNCHANGED <<sem_pc, sem_taken>>
    BY <1>3 DEF Sem!push_store, SemInv, Sem!TypeOK
  <2>3. Sem!Contents' = Append(Sem!Contents, <<p, sem_pushed'[p]>>)
    BY <2>1, <2>2
  <2>4. SemPromise!push(p)
    BY <2>2, <2>3 DEF SemPromise!push
  <2> QED
    BY <2>1, <2>4 DEF SemPromise!Next
<1>4. CASE Sem!pop_take
  <2>1. CASE q[tail] = Sem!NULL
    <3>1. SemInv' /\ Sem!Contents' = Sem!Contents
      BY <1>4, <2>1, TakeKeeps
    <3> QED
      BY <1>4, <2>1, <3>1 DEF Sem!pop_take, SemPromise!vars
  <2>2. CASE q[tail] # Sem!NULL
    <3>1. /\ SemInv' /\ Sem!Contents # <<>> /\ q[tail] = Head(Sem!Contents)
          /\ Sem!Contents' = Tail(Sem!Contents)
      BY <1>4, <2>2, TakeKeeps
    <3> QED
      BY <1>4, <2>2, <3>1 DEF Sem!pop_take, SemPromise!Next, SemPromise!pop
  <2> QED
    BY <2>1, <2>2
<1>5. CASE UNCHANGED Sem!vars
  BY <1>5 DEF Sem!vars, SemInv, Sem!TypeOK, AtEnd, Ring, Stopping, Wrapped, Sem!Slot, Sem!Contents, Sem!Filled, SemPromise!vars
<1> QED
  BY <1>1, <1>2, <1>3, <1>4, <1>5 DEF Sem!Next, Sem!push, Sem!pop

LEMMA SemInitIsQueue == Sem!SemAssumption /\ Sem!Init => SemPromise!Init
<1> SUFFICES ASSUME Sem!SemAssumption, Sem!Init
             PROVE  SemPromise!Init
  OBVIOUS
<1>1. Ring(0)
  BY DEF Sem!SemAssumption, Sem!Init, Ring, Stopping, AtEnd, One, Wrapped, Sem!Slot
<1>2. Sem!Contents = <<>>
  BY <1>1, ContentsAre
<1> QED
  BY <1>2 DEF Sem!Init, SemPromise!Init

(* The slot that is written is empty: the assert() of queue_sem_push()     *)
(* never fails, for a ring of any size.                                    *)
THEOREM SlotsAreFree ==
  ASSUME Sem!SemAssumption
  PROVE  Sem!Spec => [](Sem!TypeOK /\ Sem!SlotIsFree)
<1>1. SemInv => Sem!TypeOK /\ Sem!SlotIsFree
  <2> SUFFICES ASSUME SemInv, push_pc = "store"
               PROVE  q[head] = Sem!NULL
    BY DEF SemInv, Sem!SlotIsFree
  <2>1. PICK u \in 0..Size : Ring(u)
    BY DEF SemInv
  <2>2. u < Size /\ Stopping = 0
    BY <2>1 DEF SemInv, Sem!TypeOK, Ring, One, Stopping, Sem!SemAssumption
  <2> QED
    BY <2>1, <2>2 DEF Ring, Wrapped, Sem!Slot, Sem!SemAssumption
<1> QED
  BY <1>1, SemInitHolds, SemStep, PTL DEF Sem!Spec

(* req_queue_sem implements `struct vqueue' as well: stop() puts a NULL    *)
(* into the ring behind the requests, so that pop() gives NULL only after  *)
(* the last of them, and the ring, whatever its size, loses, repeats and   *)
(* reorders none.                                                          *)
THEOREM SemQueueIsQueue ==
  ASSUME Sem!SemAssumption
  PROVE  Sem!Spec => SemPromise!Init /\ [][SemPromise!Next]_(SemPromise!vars)
BY SemInitHolds, SemStep, SemInitIsQueue, PTL DEF Sem!Spec

-----------------------------------------------------------------------------
(* The database of a thread per part.  What LockDb has as well, the values *)
(* of the keys, the calls and the answers, is declared there.              *)

VARIABLES owner, turn, made, requests, stopped, thread, request

Par == INSTANCE ParallelDb WITH i <- turn

Busy == {"create_threads", "undo_stop", "undo_join", "up", "stop", "join"}

(* How far the owner of the database has come, and the threads with it:    *)
(* queues are there while threads may be, and threads end only when their  *)
(* queue was stopped and is empty.                                         *)
OwnerInv ==
  /\ owner \in {"create_queues", "create_threads", "undo_join", "stop", "join", "free"} => turn < N_SUBS
  /\ owner \in {"create_queues", "create_threads", "up"} => stopped = {}
  /\ owner \in Busy => made = Par!Sub
  /\ owner = "create_queues" => made = {t \in Par!Sub : t < turn}
  /\ owner = "undo_queues" => \A t \in made : t >= turn /\ \A s \in turn..t : s \in made
  /\ owner = "free" => made = {t \in Par!Sub : t >= turn}
  /\ owner \in {"failed", "down"} => made = {}
  /\ owner = "undo_join" => thread[turn] # "none"

ThreadInv(t) ==
  /\ owner \notin Busy => thread[t] \in {"none", "ended"}
  /\ owner \in {"up", "stop", "join"} => thread[t] # "none"
  /\ owner = "create_threads" => (thread[t] = "none" <=> t >= turn)
  /\ owner \in {"undo_stop", "undo_join"} /\ thread[t] # "none" =>
       \A s \in Par!Sub : s <= t => thread[s] # "none"
  /\ owner \in {"undo_stop", "undo_join", "stop", "join"} /\ t < turn => thread[t] = "ended"
  /\ owner \notin {"up", "stop", "join"} => requests[t] = <<>>
  /\ thread[t] = "ended" => t \in stopped /\ requests[t] = <<>>

(* A request in the queue of a part is about a key of it, and was made;    *)
(* those of one caller are in the order of its calls, and the one in the   *)
(* hand of the thread comes before them.                                   *)
Fits(o, t) == Par!string_hash(o.key) = t /\ o.n <= calls[o.by]

Ordered(s) == \A j, k \in 1..Len(s) : j < k /\ s[j].by = s[k].by => s[j].n < s[k].n

QueueInv(t) ==
  /\ \A k \in 1..Len(requests[t]) : Fits(requests[t][k], t)
  /\ Ordered(requests[t])
  /\ thread[t] \in {"get", "set"} =>
       /\ request[t] \in Par!Get \cup Par!Set /\ request[t].kind = thread[t]
       /\ Fits(request[t], t)
       /\ \A k \in 1..Len(requests[t]) :
            requests[t][k].by = request[t].by => request[t].n < requests[t][k].n
  /\ thread[t] = "result" => request[t] \in Par!Get /\ Fits(request[t], t)

ParInv ==
  /\ Par!TypeOK
  /\ OwnerInv
  /\ \A t \in Par!Sub : ThreadInv(t) /\ QueueInv(t)

ParDb == INSTANCE Vdb WITH waiting <- Par!Waiting, found <- Par!Found

-----------------------------------------------------------------------------
LEMMA PartsAre == Par!ParAssumption => /\ N_SUBS \in Nat \ {0}
                                       /\ \A t : t \in Par!Sub <=> t \in Nat /\ t < N_SUBS
BY DEF Par!ParAssumption, Par!Sub

(* The steps of the owner leave the data alone. *)
LEMMA OwnerKeeps ==
  ASSUME Par!ParAssumption, ParInv, Par!manage \/ Par!destroy
  PROVE  /\ Par!TypeOK' /\ OwnerInv' /\ \A t \in Par!Sub : ThreadInv(t)'
         /\ UNCHANGED <<requests, request, copied, store, calls, answers>>
         /\ \A t \in Par!Sub : thread'[t] = thread[t] \/ (thread[t] = "none" /\ thread'[t] = "pop")
<1>1. /\ N_SUBS \in Nat \ {0} /\ \A t : t \in Par!Sub <=> t \in Nat /\ t < N_SUBS
      /\ turn \in Nat /\ turn <= N_SUBS /\ made \subseteq Par!Sub /\ stopped \subseteq Par!Sub
      /\ thread \in [Par!Sub -> {"none", "pop", "get", "set", "result", "ended"}]
  BY PartsAre DEF ParInv, Par!TypeOK
<1>2. OwnerInv /\ \A t \in Par!Sub : ThreadInv(t)
  BY DEF ParInv
<1>3. UNCHANGED <<requests, request, copied, store, calls, answers>>
  BY DEF Par!manage, Par!init_parallel_db, Par!destroy, Par!create_queue, Par!pthread_create, Par!undo_stop, Par!undo_join,
         Par!undo_queue, Par!destroy_stop, Par!destroy_join, Par!destroy_free, Par!caller_vars, Par!thread_vars
<1>4. ASSUME turn' \in Nat, turn' <= N_SUBS, made' \subseteq Par!Sub, stopped' \subseteq Par!Sub,
             owner' \in Par!OwnerPlace,
             thread' \in [Par!Sub -> {"none", "pop", "get", "set", "result", "ended"}]
      PROVE  Par!TypeOK'
  BY <1>1, <1>3, <1>4 DEF ParInv, Par!TypeOK
<1>5. CASE Par!create_queue
  <2>1. Par!TypeOK'
    BY <1>1, <1>2, <1>4, <1>5 DEF OwnerInv, Par!create_queue, Par!goto, Par!caller_vars, Par!thread_vars, Par!OwnerPlace
  <2>2. OwnerInv'
    <3>1. /\ owner = "create_queues" /\ turn < N_SUBS /\ stopped = {}
          /\ made = {t \in Par!Sub : t < turn} /\ UNCHANGED <<stopped, thread>>
      BY <1>1, <1>2, <1>5 DEF OwnerInv, Par!create_queue, Par!thread_vars
    <3>2. CASE made' = made \cup {turn} /\ turn + 1 = N_SUBS /\ owner' = "create_threads" /\ turn' = 0
      <4>1. made' = Par!Sub
        BY <1>1, <3>1, <3>2
      <4> QED
        BY <1>1, <3>1, <3>2, <4>1 DEF OwnerInv, Busy
    <3>3. CASE made' = made \cup {turn} /\ turn + 1 # N_SUBS /\ owner' = owner /\ turn' = turn + 1
      <4>1. made' = {t \in Par!Sub : t < turn'}
        BY <1>1, <3>1, <3>3
      <4> QED
        BY <1>1, <3>1, <3>3, <4>1 DEF OwnerInv, Busy
    <3>4. CASE made' = made /\ owner' = "undo_queues" /\ turn' = 0
      BY <1>1, <3>1, <3>4 DEF OwnerInv, Busy
    <3> QED
      BY <1>5, <3>2, <3>3, <3>4 DEF Par!create_queue, Par!goto
  <2>3. ASSUME NEW t \in Par!Sub
        PROVE  ThreadInv(t)'
    BY <1>1, <1>2, <1>3, <1>5 DEF OwnerInv, ThreadInv, Busy, Par!create_queue, Par!goto, Par!caller_vars, Par!thread_vars
  <2>4. \A t \in Par!Sub : thread'[t] = thread[t] \/ (thread[t] = "none" /\ thread'[t] = "pop")
    BY <1>1, <1>2, <1>5 DEF OwnerInv, ThreadInv, Par!create_queue, Par!goto, Par!caller_vars, Par!thread_vars
  <2> QED
    BY <1>3, <2>1, <2>2, <2>3, <2>4
<1>6. CASE Par!pthread_create
  <2>1. Par!TypeOK'
    BY <1>1, <1>2, <1>4, <1>6 DEF OwnerInv, Par!pthread_create, Par!goto, Par!caller_vars, Par!thread_vars, Par!OwnerPlace
  <2>2. OwnerInv'
    BY <1>1, <1>2, <1>6 DEF OwnerInv, ThreadInv, Busy, Par!pthread_create, Par!goto, Par!caller_vars, Par!thread_vars
  <2>3. ASSUME NEW t \in Par!Sub
        PROVE  ThreadInv(t)'
    BY <1>1, <1>2, <1>3, <1>6 DEF OwnerInv, ThreadInv, Busy, Par!pthread_create, Par!goto, Par!caller_vars, Par!thread_vars
  <2>4. \A t \in Par!Sub : thread'[t] = thread[t] \/ (thread[t] = "none" /\ thread'[t] = "pop")
    BY <1>1, <1>2, <1>6 DEF OwnerInv, ThreadInv, Par!pthread_create, Par!goto, Par!caller_vars, Par!thread_vars
  <2> QED
    BY <1>3, <2>1, <2>2, <2>3, <2>4
<1>7. CASE Par!undo_stop
  <2>1. Par!TypeOK'
    BY <1>1, <1>2, <1>4, <1>7 DEF OwnerInv, Par!undo_stop, Par!goto, Par!caller_vars, Par!thread_vars, Par!Created, Par!OwnerPlace
  <2>2. OwnerInv'
    BY <1>1, <1>2, <1>7 DEF OwnerInv, ThreadInv, Busy, Par!undo_stop, Par!goto, Par!caller_vars, Par!thread_vars, Par!Created
  <2>3. ASSUME NEW t \in Par!Sub
        PROVE  ThreadInv(t)'
    BY <1>1, <1>2, <1>3, <1>7 DEF OwnerInv, ThreadInv, Busy, Par!undo_stop, Par!goto, Par!caller_vars, Par!thread_vars, Par!Created
  <2>4. \A t \in Par!Sub : thread'[t] = thread[t] \/ (thread[t] = "none" /\ thread'[t] = "pop")
    BY <1>1, <1>2, <1>7 DEF OwnerInv, ThreadInv, Par!undo_stop, Par!goto, Par!caller_vars, Par!thread_vars, Par!Created
  <2> QED
    BY <1>3, <2>1, <2>2, <2>3, <2>4
<1>8. CASE Par!undo_join
  <2>1. Par!TypeOK'
    BY <1>1, <1>2, <1>4, <1>8 DEF OwnerInv, Par!undo_join, Par!goto, Par!caller_vars, Par!thread_vars, Par!OwnerPlace
  <2>2. OwnerInv'
    BY <1>1, <1>2, <1>8 DEF OwnerInv, ThreadInv, Busy, Par!undo_join, Par!goto, Par!caller_vars, Par!thread_vars
  <2>3. ASSUME NEW t \in Par!Sub
        PROVE  ThreadInv(t)'
    BY <1>1, <1>2, <1>3, <1>8 DEF OwnerInv, ThreadInv, Busy, Par!undo_join, Par!goto, Par!caller_vars, Par!thread_vars
  <2>4. \A t \in Par!Sub : thread'[t] = thread[t] \/ (thread[t] = "none" /\ thread'[t] = "pop")
    BY <1>1, <1>2, <1>8 DEF OwnerInv, ThreadInv, Par!undo_join, Par!goto, Par!caller_vars, Par!thread_vars
  <2> QED
    BY <1>3, <2>1, <2>2, <2>3, <2>4
<1>9. CASE Par!undo_queue
  <2>1. Par!TypeOK'
    BY <1>1, <1>2, <1>4, <1>9 DEF OwnerInv, Par!undo_queue, Par!goto, Par!caller_vars, Par!thread_vars, Par!OwnerPlace
  <2>2. OwnerInv'
    BY <1>1, <1>2, <1>9 DEF OwnerInv, ThreadInv, Busy, Par!undo_queue, Par!goto, Par!caller_vars, Par!thread_vars
  <2>3. ASSUME NEW t \in Par!Sub
        PROVE  ThreadInv(t)'
    BY <1>1, <1>2, <1>3, <1>9 DEF OwnerInv, ThreadInv, Busy, Par!undo_queue, Par!goto, Par!caller_vars, Par!thread_vars
  <2>4. \A t \in Par!Sub : thread'[t] = thread[t] \/ (thread[t] = "none" /\ thread'[t] = "pop")
    BY <1>1, <1>2, <1>9 DEF OwnerInv, ThreadInv, Par!undo_queue, Par!goto, Par!caller_vars, Par!thread_vars
  <2> QED
    BY <1>3, <2>1, <2>2, <2>3, <2>4
<1>10. CASE Par!destroy
  <2>1. Par!TypeOK'
    BY <1>1, <1>2, <1>4, <1>10 DEF OwnerInv, Par!destroy, Par!goto, Par!caller_vars, Par!thread_vars, Par!OwnerPlace
  <2>2. OwnerInv'
    BY <1>1, <1>2, <1>10 DEF OwnerInv, ThreadInv, Busy, Par!destroy, Par!goto, Par!caller_vars, Par!thread_vars
  <2>3. ASSUME NEW t \in Par!Sub
        PROVE  ThreadInv(t)'
    BY <1>1, <1>2, <1>3, <1>10 DEF OwnerInv, ThreadInv, Busy, Par!destroy, Par!goto, Par!caller_vars, Par!thread_vars
  <2>4. \A t \in Par!Sub : thread'[t] = thread[t] \/ (thread[t] = "none" /\ thread'[t] = "pop")
    BY <1>1, <1>2, <1>10 DEF OwnerInv, ThreadInv, Par!destroy, Par!goto, Par!caller_vars, Par!thread_vars
  <2> QED
    BY <1>3, <2>1, <2>2, <2>3, <2>4
<1>11. CASE Par!destroy_stop
  <2>1. Par!TypeOK'
    BY <1>1, <1>2, <1>4, <1>11 DEF OwnerInv, Par!destroy_stop, Par!goto, Par!caller_vars, Par!thread_vars, Par!OwnerPlace
  <2>2. OwnerInv'
    BY <1>1, <1>2, <1>11 DEF OwnerInv, ThreadInv, Busy, Par!destroy_stop, Par!goto, Par!caller_vars, Par!thread_vars
  <2>3. ASSUME NEW t \in Par!Sub
        PROVE  ThreadInv(t)'
    BY <1>1, <1>2, <1>3, <1>11 DEF OwnerInv, ThreadInv, Busy, Par!destroy_stop, Par!goto, Par!caller_vars, Par!thread_vars
  <2>4. \A t \in Par!Sub : thread'[t] = thread[t] \/ (thread[t] = "none" /\ thread'[t] = "pop")
    BY <1>1, <1>2, <1>11 DEF OwnerInv, ThreadInv, Par!destroy_stop, Par!goto, Par!caller_vars, Par!thread_vars
  <2> QED
    BY <1>3, <2>1, <2>2, <2>3, <2>4
<1>12. CASE Par!destroy_join
  <2>1. Par!TypeOK'
    BY <1>1, <1>2, <1>4, <1>12 DEF OwnerInv, Par!destroy_join, Par!goto, Par!caller_vars, Par!thread_vars, Par!OwnerPlace
  <2>2. OwnerInv'
    BY <1>1, <1>2, <1>12 DEF OwnerInv, ThreadInv, Busy, Par!destroy_join, Par!goto, Par!caller_vars, Par!thread_vars
  <2>3. ASSUME NEW t \in Par!Sub
        PROVE  ThreadInv(t)'
    BY <1>1, <1>2, <1>3, <1>12 DEF OwnerInv, ThreadInv, Busy, Par!destroy_join, Par!goto, Par!caller_vars, Par!thread_vars
  <2>4. \A t \in Par!Sub : thread'[t] = thread[t] \/ (thread[t] = "none" /\ thread'[t] = "pop")
    BY <1>1, <1>2, <1>12 DEF OwnerInv, ThreadInv, Par!destroy_join, Par!goto, Par!caller_vars, Par!thread_vars
  <2> QED
    BY <1>3, <2>1, <2>2, <2>3, <2>4
<1>13. CASE Par!destroy_free
  <2>1. Par!TypeOK'
    BY <1>1, <1>2, <1>4, <1>13 DEF OwnerInv, Par!destroy_free, Par!goto, Par!caller_vars, Par!thread_vars, Par!OwnerPlace
  <2>2. OwnerInv'
    BY <1>1, <1>2, <1>13 DEF OwnerInv, ThreadInv, Busy, Par!destroy_free, Par!goto, Par!caller_vars, Par!thread_vars
  <2>3. ASSUME NEW t \in Par!Sub
        PROVE  ThreadInv(t)'
    BY <1>1, <1>2, <1>3, <1>13 DEF OwnerInv, ThreadInv, Busy, Par!destroy_free, Par!goto, Par!caller_vars, Par!thread_vars
  <2>4. \A t \in Par!Sub : thread'[t] = thread[t] \/ (thread[t] = "none" /\ thread'[t] = "pop")
    BY <1>1, <1>2, <1>13 DEF OwnerInv, ThreadInv, Par!destroy_free, Par!goto, Par!caller_vars, Par!thread_vars
  <2> QED
    BY <1>3, <2>1, <2>2, <2>3, <2>4
<1> QED
  BY <1>3, <1>5, <1>6, <1>7, <1>8, <1>9, <1>10, <1>11, <1>12, <1>13 DEF Par!manage, Par!init_parallel_db

-----------------------------------------------------------------------------
LEMMA CallFields ==
  ASSUME Par!ParAssumption, NEW o \in Par!Get \cup Par!Set
  PROVE  o.by \in Caller /\ o.n \in Nat /\ o.key \in Key /\ o.kind \in {"get", "set"}
BY DEF Par!ParAssumption, Par!Get, Par!Set

(* A request that a queue holds; one made after those of its caller in the *)
(* queue, and one made before them.                                        *)
Holds(s, o) == \E k \in 1..Len(s) : s[k] = o
Later(s, x) == \A k \in 1..Len(s) : s[k].by = x.by => s[k].n < x.n
Earlier(s, x) == \A k \in 1..Len(s) : s[k].by = x.by => x.n < s[k].n

(* A request at the end of a queue; the one at its head. *)
LEMMA Appended ==
  ASSUME NEW S, NEW s \in Seq(S), NEW x \in S, NEW u, u = Append(s, x), Ordered(s), Later(s, x)
  PROVE  Ordered(u) /\ \A o : Holds(u, o) <=> o = x \/ Holds(s, o)
<1>1. /\ Len(u) = Len(s) + 1 /\ Len(s) \in Nat
      /\ u[Len(s) + 1] = x /\ \A k \in 1..Len(s) : u[k] = s[k]
  BY AppendProperties, LenProperties
<1>2. Ordered(u)
  <2> SUFFICES ASSUME NEW j \in 1..Len(u), NEW k \in 1..Len(u), j < k, u[j].by = u[k].by
               PROVE  u[j].n < u[k].n
    BY DEF Ordered
  <2>1. CASE k = Len(s) + 1
    BY <1>1, <2>1 DEF Later
  <2>2. CASE k # Len(s) + 1
    BY <1>1, <2>2 DEF Ordered
  <2> QED
    BY <2>1, <2>2
<1>3. ASSUME NEW o
      PROVE  (\E k \in 1..Len(u) : u[k] = o) <=> o = x \/ \E k \in 1..Len(s) : s[k] = o
  <2>1. ASSUME NEW k \in 1..Len(u), u[k] = o
        PROVE  o = x \/ \E l \in 1..Len(s) : s[l] = o
    BY <1>1, <2>1
  <2>2. Len(s) + 1 \in 1..Len(u) /\ \A k \in 1..Len(s) : k \in 1..Len(u)
    BY <1>1
  <2> QED
    BY <1>1, <2>1, <2>2
<1> QED
  BY <1>2, <1>3 DEF Holds

LEMMA Popped ==
  ASSUME NEW S, NEW s \in Seq(S), s # <<>>, NEW u, u = Tail(s), NEW h, h = Head(s), Ordered(s)
  PROVE  /\ u \in Seq(S) /\ h \in S /\ Ordered(u) /\ Earlier(u, h)
         /\ \A o : Holds(s, o) <=> o = h \/ Holds(u, o)
<1>1. Len(s) \in Nat \ {0} /\ h = s[1]
  BY LenProperties, EmptySeq
<1>2. u \in Seq(S) /\ Len(u) = Len(s) - 1 /\ \A k \in 1..Len(u) : u[k] = s[k + 1]
  BY HeadTailProperties
<1>3. \A k \in 1..Len(u) : k + 1 \in 1..Len(s) /\ 1 < k + 1
  BY <1>1, <1>2
<1>4. 1 \in 1..Len(s)
  BY <1>1
<1>5. Ordered(u)
  <2> SUFFICES ASSUME NEW j \in 1..Len(u), NEW k \in 1..Len(u), j < k, u[j].by = u[k].by
               PROVE  u[j].n < u[k].n
    BY DEF Ordered
  <2>1. j + 1 < k + 1
    BY <1>1, <1>2
  <2> QED
    BY <1>2, <1>3, <2>1 DEF Ordered
<1>6. \A k \in 1..Len(u) : u[k].by = s[1].by => s[1].n < u[k].n
  BY <1>2, <1>3, <1>4 DEF Ordered
<1>7. ASSUME NEW o
      PROVE  (\E k \in 1..Len(s) : s[k] = o) <=> o = s[1] \/ \E k \in 1..Len(u) : u[k] = o
  <2>1. ASSUME NEW k \in 1..Len(s), s[k] = o
        PROVE  o = s[1] \/ \E l \in 1..Len(u) : u[l] = o
    <3>1. CASE k = 1
      BY <2>1, <3>1
    <3>2. CASE k # 1
      <4>1. k - 1 \in 1..Len(u) /\ (k - 1) + 1 = k
        BY <1>1, <1>2, <3>2
      <4> QED
        BY <1>2, <2>1, <4>1
    <3> QED
      BY <3>1, <3>2
  <2> QED
    BY <1>2, <1>3, <1>4, <2>1
<1>8. h \in S
  BY <1>1, <1>4, ElementOfSeq
<1> QED
  BY <1>1, <1>2, <1>5, <1>6, <1>7, <1>8 DEF Earlier, Holds

-----------------------------------------------------------------------------
(* What waits in a part. *)
InPart(o, t) ==
  \/ \E k \in 1..Len(requests[t]) : requests[t][k] = o
  \/ thread[t] \in {"get", "set"} /\ request[t] = o

LEMMA WaitingIs ==
  /\ \A o : o \in Par!Waiting <=> \E t \in Par!Sub : InPart(o, t)
  /\ \A o : o \in Par!Waiting' <=> \E t \in Par!Sub : InPart(o, t)'
<1>1. ASSUME NEW o
      PROVE  o \in Par!Waiting <=> \E t \in Par!Sub : InPart(o, t)
  <2>1. o \in Par!Waiting <=>
          \/ \E t \in Par!Sub : o \in {requests[t][n] : n \in 1..Len(requests[t])}
          \/ \E t \in Par!Sub : thread[t] \in {"get", "set"} /\ o = request[t]
    BY DEF Par!Waiting
  <2> QED
    BY <2>1 DEF InPart
<1>2. ASSUME NEW o
      PROVE  o \in Par!Waiting' <=> \E t \in Par!Sub : InPart(o, t)'
  <2>1. o \in Par!Waiting' <=>
          \/ \E t \in Par!Sub : o \in {requests'[t][n] : n \in 1..Len(requests'[t])}
          \/ \E t \in Par!Sub : thread'[t] \in {"get", "set"} /\ o = request'[t]
    BY DEF Par!Waiting, Par!Sub
  <2> QED
    BY <2>1 DEF InPart
<1> QED
  BY <1>1, <1>2

LEMMA FoundIs ==
  /\ \A a : a \in Par!Found <=> \E t \in Par!Sub : thread[t] = "result" /\ a = <<request[t], copied[t]>>
  /\ \A a : a \in Par!Found' <=> \E t \in Par!Sub : thread'[t] = "result" /\ a = <<request'[t], copied'[t]>>
BY DEF Par!Found

(* Each call waits in the part of its key, where none of its caller's     *)
(* that was made before comes after it.                                    *)
LEMMA PartOfKey ==
  ASSUME ParInv, Par!ParAssumption, NEW t \in Par!Sub, NEW o, InPart(o, t)
  PROVE  o \in Par!Get \cup Par!Set /\ Fits(o, t)
<1>1. QueueInv(t) /\ requests[t] \in Seq(Par!Get \cup Par!Set)
  BY DEF ParInv, Par!TypeOK
<1>2. CASE \E k \in 1..Len(requests[t]) : requests[t][k] = o
  BY <1>1, <1>2, ElementOfSeq DEF QueueInv
<1>3. CASE thread[t] \in {"get", "set"} /\ request[t] = o
  BY <1>1, <1>3 DEF QueueInv
<1> QED
  BY <1>2, <1>3 DEF InPart

LEMMA HandIsFirst ==
  ASSUME ParInv, Par!ParAssumption, NEW t \in Par!Sub, thread[t] \in {"get", "set"}
  PROVE  /\ request[t] \in Par!Waiting /\ ParDb!First(request[t])
         /\ \A k \in 1..Len(requests[t]) : requests[t][k] # request[t]
         /\ \A s \in Par!Sub \ {t} : ~InPart(request[t], s)
<1>1. QueueInv(t) /\ InPart(request[t], t)
  BY DEF ParInv, InPart
<1>2. request[t] \in Par!Get \cup Par!Set /\ Fits(request[t], t) /\ request[t].n \in Nat
  BY <1>1, CallFields DEF QueueInv
<1>3. request[t] \in Par!Waiting
  BY <1>1, WaitingIs
<1>4. ASSUME NEW e \in Par!Waiting, e.by = request[t].by, e.key = request[t].key
      PROVE  request[t].n <= e.n
  <2>1. PICK s \in Par!Sub : InPart(e, s)
    BY WaitingIs
  <2>2. s = t /\ e \in Par!Get \cup Par!Set /\ e.n \in Nat
    BY <1>2, <1>4, <2>1, PartOfKey, CallFields DEF Fits
  <2>3. CASE \E k \in 1..Len(requests[t]) : requests[t][k] = e
    BY <1>1, <1>2, <1>4, <2>2, <2>3 DEF QueueInv
  <2>4. CASE request[t] = e
    BY <1>2, <2>4
  <2> QED
    BY <2>1, <2>2, <2>3, <2>4 DEF InPart
<1>5. \A k \in 1..Len(requests[t]) : requests[t][k] # request[t]
  BY <1>1, <1>2 DEF QueueInv
<1>6. \A s \in Par!Sub \ {t} : ~InPart(request[t], s)
  BY <1>2, PartOfKey DEF Fits
<1> QED
  BY <1>3, <1>4, <1>5, <1>6 DEF ParDb!First

(* Calls grow, and what fits goes on to fit. *)
LEMMA FitsStays ==
  ASSUME NEW o, NEW t, Fits(o, t), calls[o.by] <= calls'[o.by], o.n \in Nat,
         calls[o.by] \in Nat, calls'[o.by] \in Nat
  PROVE  Fits(o, t)'
BY DEF Fits

(* A part that a step leaves alone. *)
LEMMA PartStays ==
  ASSUME Par!ParAssumption, ParInv, NEW t \in Par!Sub,
         requests'[t] = requests[t], request'[t] = request[t],
         thread'[t] = thread[t] \/ (thread[t] = "none" /\ thread'[t] = "pop"),
         \A c \in Caller : calls'[c] \in Nat /\ calls[c] <= calls'[c]
  PROVE  QueueInv(t)' /\ \A o : InPart(o, t)' <=> InPart(o, t)
<1>1. /\ requests[t] \in Seq(Par!Get \cup Par!Set) /\ calls \in [Caller -> 0..Par!MaxCalls]
      /\ QueueInv(t)
  BY DEF ParInv, Par!TypeOK
<1>2. \A c \in Caller : calls[c] \in Nat
  BY <1>1 DEF Par!ParAssumption
<1>3. \A k \in 1..Len(requests[t]) : Fits(requests[t][k], t)'
  <2> SUFFICES ASSUME NEW k \in 1..Len(requests[t])
               PROVE  Fits(requests[t][k], t)'
    OBVIOUS
  <2>1. PICK o \in Par!Get \cup Par!Set : o = requests[t][k]
    BY <1>1, ElementOfSeq
  <2>2. o.by \in Caller /\ o.n \in Nat /\ Fits(o, t)
    BY <1>1, <2>1, CallFields DEF QueueInv
  <2>3. Fits(o, t)'
    BY <1>2, <2>2, FitsStays
  <2>4. requests'[t][k] = o
    BY <2>1
  <2> QED
    BY <2>1, <2>3 DEF Fits
<1>4. ASSUME thread[t] \in {"get", "set", "result"}
      PROVE  Fits(request[t], t)'
  <2>1. PICK o \in Par!Get \cup Par!Set : o = request[t] /\ Fits(o, t)
    BY <1>1, <1>4 DEF QueueInv
  <2>2. Fits(o, t)'
    BY <1>2, <2>1, CallFields, FitsStays
  <2> QED
    BY <2>1, <2>2 DEF Fits
<1>5. QueueInv(t)'
  BY <1>1, <1>3, <1>4 DEF QueueInv, Ordered, Fits
<1> QED
  BY <1>5 DEF InPart

(* The steps of one part. *)
LEMMA OnePart ==
  ASSUME Par!ParAssumption, ParInv, NEW t \in Par!Sub, NEW x,
         \A s \in Par!Sub \ {t} : \A o : InPart(o, s)' <=> InPart(o, s)
  PROVE  /\ (\A o : InPart(o, t)' <=> InPart(o, t)) => Par!Waiting' = Par!Waiting
         /\ (\A o : InPart(o, t)' <=> InPart(o, t) \/ o = x) => Par!Waiting' = Par!Waiting \cup {x}
         /\ (\A o : InPart(o, t)' <=> InPart(o, t) /\ o # x) /\ (\A s \in Par!Sub \ {t} : ~InPart(x, s))
              => Par!Waiting' = Par!Waiting \ {x}
<1>1. ASSUME \A o : InPart(o, t)' <=> InPart(o, t)
      PROVE  Par!Waiting' = Par!Waiting
  <2>1. \A o : o \in Par!Waiting' <=> o \in Par!Waiting
    BY <1>1, WaitingIs
  <2> QED
    BY <2>1
<1>2. ASSUME \A o : InPart(o, t)' <=> InPart(o, t) \/ o = x
      PROVE  Par!Waiting' = Par!Waiting \cup {x}
  <2>1. \A o : o \in Par!Waiting' <=> o \in Par!Waiting \/ o = x
    BY <1>2, WaitingIs
  <2> QED
    BY <2>1
<1>3. ASSUME \A o : InPart(o, t)' <=> InPart(o, t) /\ o # x, \A s \in Par!Sub \ {t} : ~InPart(x, s)
      PROVE  Par!Waiting' = Par!Waiting \ {x}
  <2>1. \A o : o \in Par!Waiting' <=> o \in Par!Waiting /\ o # x
    BY <1>3, WaitingIs
  <2> QED
    BY <2>1
<1> QED
  BY <1>1, <1>2, <1>3

(* A caller calls. *)
LEMMA AskIsVdb ==
  ASSUME Par!ParAssumption, ParInv, NEW c \in Caller, Par!set_or_geta(c)
  PROVE  ParInv' /\ ParDb!Ask(c)
<1>1. PICK o \in Par!Call(c, calls'[c]) : Par!push(o)
  BY DEF Par!set_or_geta
<1>2. PICK t \in Par!Sub : t = Par!string_hash(o.key) /\ requests' = [requests EXCEPT ![t] = Append(requests[t], o)]
  BY <1>1 DEF Par!push, Par!InRange
<1>3. /\ owner = "up" /\ calls[c] < Calls[c] /\ calls' = [calls EXCEPT ![c] = calls[c] + 1]
      /\ UNCHANGED <<owner, turn, made, stopped, thread, request, copied, store, answers>>
  BY DEF Par!set_or_geta, Par!thread_vars
<1>4. /\ requests \in [Par!Sub -> Seq(Par!Get \cup Par!Set)] /\ calls \in [Caller -> 0..Par!MaxCalls]
      /\ thread \in [Par!Sub -> {"none", "pop", "get", "set", "result", "ended"}]
  BY DEF ParInv, Par!TypeOK
<1>5. /\ Calls[c] \in 0..Par!MaxCalls /\ Par!MaxCalls \in Nat
      /\ calls'[c] = calls[c] + 1 /\ calls' \in [Caller -> 0..Par!MaxCalls]
      /\ \A d \in Caller : calls[d] \in Nat /\ calls'[d] \in Nat /\ calls[d] <= calls'[d]
  BY <1>3, <1>4 DEF Par!ParAssumption
<1>6. o \in Par!Get \cup Par!Set /\ o.by = c /\ o.n = calls[c] + 1
  BY <1>1, <1>5 DEF Par!Call
<1>7. /\ requests'[t] = Append(requests[t], o) /\ \A s \in Par!Sub \ {t} : requests'[s] = requests[s]
      /\ requests' \in [Par!Sub -> Seq(Par!Get \cup Par!Set)]
  <2>1. Append(requests[t], o) \in Seq(Par!Get \cup Par!Set)
    BY <1>4, <1>6, AppendProperties
  <2> QED
    BY <1>2, <1>4, <2>1
<1>8. QueueInv(t) /\ \A k \in 1..Len(requests[t]) : requests[t][k] \in Par!Get \cup Par!Set
  BY <1>4, ElementOfSeq DEF ParInv
<1>9. /\ Ordered(requests'[t])
      /\ \A e : (\E k \in 1..Len(requests'[t]) : requests'[t][k] = e)
                  <=> e = o \/ \E k \in 1..Len(requests[t]) : requests[t][k] = e
  <2>1. Later(requests[t], o) /\ Ordered(requests[t])
    BY <1>5, <1>6, <1>8, CallFields DEF QueueInv, Fits, Later
  <2>2. Ordered(requests'[t]) /\ \A e : Holds(requests'[t], e) <=> e = o \/ Holds(requests[t], e)
    <3>1. requests[t] \in Seq(Par!Get \cup Par!Set) /\ o \in Par!Get \cup Par!Set
      BY <1>4, <1>6
    <3>2. requests'[t] = Append(requests[t], o)
      BY <1>7
    <3> QED
      BY ONLY <2>1, <3>1, <3>2, Appended, Zenon
  <2> QED
    BY <2>2 DEF Holds
<1>10. ASSUME NEW s \in Par!Sub \ {t}
       PROVE  QueueInv(s)' /\ \A e : InPart(e, s)' <=> InPart(e, s)
  BY <1>3, <1>5, <1>7, PartStays
<1>11. ASSUME NEW e \in Par!Get \cup Par!Set, Fits(e, t)
       PROVE  Fits(e, t)'
  BY <1>5, <1>11, CallFields, FitsStays
<1>12. Fits(o, t)'
  BY <1>2, <1>5, <1>6 DEF Fits
<1>13. QueueInv(t)'
  <2>1. ASSUME NEW k \in 1..Len(requests'[t])
        PROVE  Fits(requests[t][k], t)'
    <3>1. PICK e : e = requests'[t][k]
      OBVIOUS
    <3>2. e = o \/ (e \in Par!Get \cup Par!Set /\ Fits(e, t))
      BY <1>8, <1>9, <3>1 DEF QueueInv
    <3>3. Fits(e, t)'
      BY <1>11, <1>12, <3>2
    <3> QED
      BY <3>1, <3>3 DEF Fits
  <2>2. ASSUME thread[t] \in {"get", "set"}, NEW k \in 1..Len(requests'[t]), requests'[t][k].by = request[t].by
        PROVE  request[t].n < requests'[t][k].n
    <3>1. PICK e : e = requests'[t][k]
      OBVIOUS
    <3>2. request[t] \in Par!Get \cup Par!Set /\ Fits(request[t], t) /\ request[t].n \in Nat
      BY <1>8, <2>2, CallFields DEF QueueInv
    <3>3. CASE e = o
      BY <1>5, <1>6, <2>2, <3>1, <3>2, <3>3 DEF Fits
    <3>4. CASE e # o
      <4>1. PICK l \in 1..Len(requests[t]) : requests[t][l] = e
        BY <1>9, <3>1, <3>4
      <4> QED
        BY <1>8, <2>2, <3>1, <4>1 DEF QueueInv
    <3> QED
      BY <3>3, <3>4
  <2>3. ASSUME thread[t] \in {"get", "set", "result"}
        PROVE  Fits(request[t], t)'
    <3>1. request[t] \in Par!Get \cup Par!Set /\ Fits(request[t], t)
      BY <1>8, <2>3 DEF QueueInv
    <3>2. PICK e : e = request[t]
      OBVIOUS
    <3>3. Fits(e, t)' /\ request'[t] = e
      BY <1>3, <1>11, <3>1, <3>2
    <3> QED
      BY <3>3 DEF Fits
  <2>4. \A k \in 1..Len(requests'[t]) : Fits(requests[t][k], t)'
    BY <2>1
  <2> QED
    BY <1>3, <1>8, <1>9, <2>2, <2>3, <2>4 DEF QueueInv, Ordered, Fits
<1>14. OwnerInv' /\ \A s \in Par!Sub : ThreadInv(s)'
  BY <1>3, <1>4, <1>7 DEF ParInv, OwnerInv, ThreadInv, Busy
<1>15. Par!TypeOK'
  BY <1>3, <1>5, <1>7 DEF ParInv, Par!TypeOK
<1>16. ParInv'
  BY <1>10, <1>13, <1>14, <1>15 DEF ParInv, Par!Sub
<1>17. Par!Waiting' = Par!Waiting \cup {o}
  <2>1. \A e : InPart(e, t)' <=> InPart(e, t) \/ e = o
    BY <1>3, <1>9 DEF InPart
  <2> QED
    BY <1>10, <2>1, OnePart
<1>18. Par!Found' = Par!Found
  BY <1>3 DEF Par!Found, Par!Sub
<1>19. o \in ParDb!Call(c, calls'[c])
  BY <1>1 DEF Par!Call, Par!Get, Par!Set, ParDb!Call, ParDb!Get, ParDb!Set, Par!MaxCalls, ParDb!MaxCalls
<1> QED
  BY <1>3, <1>16, <1>17, <1>18, <1>19 DEF ParDb!Ask

(* The owner of the database is not seen. *)
LEMMA OwnerIsVdb ==
  ASSUME Par!ParAssumption, ParInv, Par!manage \/ Par!destroy
  PROVE  ParInv' /\ UNCHANGED ParDb!vars
<1>1. /\ Par!TypeOK' /\ OwnerInv' /\ \A t \in Par!Sub : ThreadInv(t)'
      /\ UNCHANGED <<requests, request, copied, store, calls, answers>>
      /\ \A t \in Par!Sub : thread'[t] = thread[t] \/ (thread[t] = "none" /\ thread'[t] = "pop")
  BY OwnerKeeps
<1>2. \A c \in Caller : calls'[c] \in Nat /\ calls[c] <= calls'[c]
  BY <1>1 DEF ParInv, Par!TypeOK, Par!ParAssumption
<1>3. \A t \in Par!Sub : QueueInv(t)' /\ \A o : InPart(o, t)' <=> InPart(o, t)
  BY <1>1, <1>2, PartStays
<1>4. ParInv'
  BY <1>1, <1>3 DEF ParInv, Par!Sub
<1>5. Par!Waiting' = Par!Waiting
  <2>1. \A o : o \in Par!Waiting' <=> o \in Par!Waiting
    BY <1>3, WaitingIs
  <2> QED
    BY <2>1
<1>6. Par!Found' = Par!Found
  <2>1. \A a : a \in Par!Found' <=> a \in Par!Found
    BY <1>1, FoundIs
  <2> QED
    BY <2>1
<1> QED
  BY <1>1, <1>4, <1>5, <1>6 DEF ParDb!vars

(* What a thread does to the other parts: nothing. *)
LEMMA OthersStay ==
  ASSUME Par!ParAssumption, ParInv, NEW t \in Par!Sub, Par!db_thread(t)
  PROVE  /\ UNCHANGED <<owner, turn, made, stopped, calls>>
         /\ \A s \in Par!Sub \ {t} :
              /\ requests'[s] = requests[s] /\ request'[s] = request[s]
              /\ thread'[s] = thread[s] /\ copied'[s] = copied[s]
              /\ QueueInv(s)' /\ \A o : InPart(o, s)' <=> InPart(o, s)
<1>1. UNCHANGED <<owner, turn, made, stopped, calls>>
  BY DEF Par!db_thread, Par!pop, Par!pop_null, Par!set_inst, Par!get, Par!result_func, Par!caller_vars
<1>2. ASSUME NEW s \in Par!Sub \ {t}
      PROVE  /\ requests'[s] = requests[s] /\ request'[s] = request[s]
             /\ thread'[s] = thread[s] /\ copied'[s] = copied[s]
  BY DEF Par!db_thread, Par!pop, Par!pop_null, Par!set_inst, Par!get, Par!result_func, Par!caller_vars, ParInv, Par!TypeOK
<1>3. \A c \in Caller : calls'[c] \in Nat /\ calls[c] <= calls'[c]
  BY <1>1 DEF ParInv, Par!TypeOK, Par!ParAssumption
<1>4. \A s \in Par!Sub \ {t} : QueueInv(s)' /\ \A o : InPart(o, s)' <=> InPart(o, s)
  BY <1>2, <1>3, PartStays
<1> QED
  BY <1>1, <1>2, <1>4

(* A thread that serves requests has been created and has not ended.      *)
LEMMA ServerIsUp ==
  ASSUME Par!ParAssumption, ParInv, NEW t \in Par!Sub, Par!db_thread(t),
         Par!TypeOK', QueueInv(t)', requests[t] = <<>> => requests'[t] = <<>>,
         thread'[t] = "ended" => t \in stopped /\ requests'[t] = <<>>
  PROVE  ParInv'
<1>1. /\ UNCHANGED <<owner, turn, made, stopped>>
      /\ \A s \in Par!Sub \ {t} : requests'[s] = requests[s] /\ thread'[s] = thread[s] /\ QueueInv(s)'
  BY OthersStay
<1>2. thread[t] \notin {"none", "ended"} /\ thread'[t] # "none"
  <2>1. CASE Par!pop(t)
    <3>1. PICK o \in Par!Get \cup Par!Set : o = Head(requests[t])
      <4>1. requests[t] \in Seq(Par!Get \cup Par!Set) /\ requests[t] # <<>>
        BY <2>1 DEF Par!pop, ParInv, Par!TypeOK
      <4>2. Head(requests[t]) \in Par!Get \cup Par!Set
        BY <4>1, HeadTailProperties
      <4> QED
        BY <4>2
    <3> QED
      BY <2>1, <3>1, CallFields DEF Par!pop, ParInv, Par!TypeOK
  <2>2. CASE Par!pop_null(t) \/ Par!set_inst(t) \/ Par!get(t) \/ Par!result_func(t)
    BY <2>2 DEF Par!pop_null, Par!set_inst, Par!get, Par!result_func, ParInv, Par!TypeOK
  <2> QED
    BY <2>1, <2>2 DEF Par!db_thread
<1>3. OwnerInv /\ \A s \in Par!Sub : ThreadInv(s)
  BY DEF ParInv
<1>4. OwnerInv'
  <2>1. owner = "undo_join" => thread'[turn] # "none"
    <3> SUFFICES ASSUME owner = "undo_join"
                 PROVE  thread'[turn] # "none"
      OBVIOUS
    <3>1. turn \in Par!Sub /\ thread[turn] # "none"
      <4>1. turn \in Nat /\ turn < N_SUBS
        BY <1>3, PartsAre DEF OwnerInv, ParInv, Par!TypeOK
      <4> QED
        BY <1>3, <4>1, PartsAre DEF OwnerInv
    <3> QED
      BY <1>1, <1>2, <3>1
  <2> QED
    BY <1>1, <1>3, <2>1 DEF OwnerInv, Busy, Par!Sub
<1>5. ASSUME NEW s \in Par!Sub
      PROVE  ThreadInv(s)'
  <2>1. ThreadInv(s) /\ ThreadInv(t)
    BY <1>3
  <2>2. \A r \in Par!Sub : thread'[r] = "none" <=> thread[r] = "none"
    BY <1>1, <1>2
  <2>3. CASE s = t
    BY <1>1, <1>2, <2>1, <2>2, <2>3 DEF ThreadInv, Busy, Par!Sub
  <2>4. CASE s # t
    BY <1>1, <2>1, <2>2, <2>4 DEF ThreadInv, Busy, Par!Sub
  <2> QED
    BY <2>3, <2>4
<1> QED
  BY <1>1, <1>4, <1>5 DEF ParInv, Par!Sub

-----------------------------------------------------------------------------
(* Each step of a thread is one of the database, or not seen.              *)
LEMMA PopIsVdb ==
  ASSUME Par!ParAssumption, ParInv, NEW t \in Par!Sub, Par!pop(t)
  PROVE  ParInv' /\ UNCHANGED ParDb!vars
<1>1. /\ requests[t] \in Seq(Par!Get \cup Par!Set) /\ requests[t] # <<>> /\ thread[t] = "pop"
      /\ request'[t] = Head(requests[t]) /\ requests'[t] = Tail(requests[t])
      /\ thread'[t] = Head(requests[t]).kind
      /\ UNCHANGED <<owner, turn, made, stopped, copied, store, calls, answers>>
  BY DEF Par!pop, ParInv, Par!TypeOK
<1>2. QueueInv(t) /\ Ordered(requests[t])
  BY DEF ParInv, QueueInv
<1>3. /\ requests'[t] \in Seq(Par!Get \cup Par!Set) /\ request'[t] \in Par!Get \cup Par!Set
      /\ Ordered(requests'[t]) /\ Earlier(requests'[t], request'[t])
      /\ \A o : Holds(requests[t], o) <=> o = request'[t] \/ Holds(requests'[t], o)
  <2>1. requests[t] \in Seq(Par!Get \cup Par!Set) /\ requests[t] # <<>>
    BY <1>1
  <2>2. request'[t] = Head(requests[t]) /\ requests'[t] = Tail(requests[t])
    BY <1>1
  <2> QED
    BY ONLY <1>2, <2>1, <2>2, Popped, Zenon
<1>4. thread'[t] \in {"get", "set"} /\ request'[t].kind = thread'[t]
  BY <1>1, <1>3, CallFields
<1>5. Par!TypeOK'
  BY <1>1, <1>3, <1>4 DEF Par!pop, ParInv, Par!TypeOK
<1>6. \A o : Holds(requests[t], o) => Fits(o, t)'
  BY <1>1, <1>2 DEF QueueInv, Holds, Fits
<1>7. \A k \in 1..Len(requests'[t]) : Fits(requests[t][k], t)'
  <2> SUFFICES ASSUME NEW k \in 1..Len(requests'[t])
               PROVE  Fits(requests[t][k], t)'
    OBVIOUS
  <2>1. PICK o : o = requests'[t][k]
    OBVIOUS
  <2>2. Fits(o, t)'
    BY <1>3, <1>6, <2>1 DEF Holds
  <2> QED
    BY <2>1, <2>2 DEF Fits
<1>8. Fits(request[t], t)'
  <2>1. PICK o : o = request'[t]
    OBVIOUS
  <2>2. Fits(o, t)'
    BY <1>3, <1>6, <2>1
  <2> QED
    BY <2>1, <2>2 DEF Fits
<1>9. QueueInv(t)'
  BY <1>3, <1>4, <1>7, <1>8 DEF QueueInv, Ordered, Earlier
<1>10. ParInv'
  BY <1>1, <1>4, <1>5, <1>9, ServerIsUp DEF Par!db_thread
<1>11. Par!Waiting' = Par!Waiting
  <2>1. \A o : InPart(o, t)' <=> InPart(o, t)
    BY <1>1, <1>3, <1>4 DEF InPart, Holds
  <2> QED
    BY <2>1, OthersStay, OnePart DEF Par!db_thread
<1>12. Par!Found' = Par!Found
  <2>1. \A s \in Par!Sub : (thread'[s] = "result" <=> thread[s] = "result")
                        /\ (thread[s] = "result" => request'[s] = request[s] /\ copied'[s] = copied[s])
    BY <1>1, <1>4, OthersStay DEF Par!db_thread
  <2>2. \A a : a \in Par!Found' <=> a \in Par!Found
    BY <2>1, FoundIs
  <2> QED
    BY <2>2
<1> QED
  BY <1>1, <1>10, <1>11, <1>12 DEF ParDb!vars

LEMMA EndIsVdb ==
  ASSUME Par!ParAssumption, ParInv, NEW t \in Par!Sub, Par!pop_null(t)
  PROVE  ParInv' /\ UNCHANGED ParDb!vars
<1>1. /\ thread[t] = "pop" /\ thread'[t] = "ended" /\ requests[t] = <<>> /\ t \in stopped
      /\ UNCHANGED <<requests, request, stopped, copied, store, calls, answers>>
  BY DEF Par!pop_null, Par!caller_vars, ParInv, Par!TypeOK
<1>2. Par!TypeOK' /\ QueueInv(t)'
  BY <1>1 DEF Par!pop_null, Par!caller_vars, ParInv, Par!TypeOK, QueueInv, Ordered, Fits
<1>3. ParInv'
  BY <1>1, <1>2, ServerIsUp DEF Par!db_thread
<1>4. Par!Waiting' = Par!Waiting
  <2>1. \A o : InPart(o, t)' <=> InPart(o, t)
    BY <1>1 DEF InPart
  <2> QED
    BY <2>1, OthersStay, OnePart DEF Par!db_thread
<1>5. Par!Found' = Par!Found
  <2>1. \A s \in Par!Sub : thread'[s] = "result" <=> thread[s] = "result"
    BY <1>1, OthersStay DEF Par!db_thread
  <2>2. \A a : a \in Par!Found' <=> a \in Par!Found
    BY <1>1, <2>1, FoundIs
  <2> QED
    BY <2>2
<1> QED
  BY <1>1, <1>3, <1>4, <1>5 DEF ParDb!vars

LEMMA PartSetIsVdb ==
  ASSUME Par!ParAssumption, ParInv, NEW t \in Par!Sub, Par!set_inst(t)
  PROVE  ParInv' /\ ParDb!Effect(request[t])
<1>1. /\ thread[t] = "set" /\ thread'[t] = "pop"
      /\ store' = [store EXCEPT ![request[t].key] = request[t].value]
      /\ UNCHANGED <<requests, request, copied, calls, answers>>
  BY DEF Par!set_inst, Par!caller_vars, ParInv, Par!TypeOK
<1>2. QueueInv(t) /\ request[t] \in Par!Set /\ request[t].kind = "set"
  <2>1. QueueInv(t) /\ request[t] \in Par!Get \cup Par!Set /\ request[t].kind = "set"
    BY <1>1 DEF ParInv, QueueInv
  <2> QED
    BY <2>1 DEF Par!Get, Par!Set
<1>3. request[t].value \in Value \cup {Null}
  BY <1>2 DEF Par!Set
<1>4. Par!TypeOK' /\ QueueInv(t)'
  BY <1>1, <1>2, <1>3 DEF Par!set_inst, Par!caller_vars, ParInv, Par!TypeOK, QueueInv, Ordered, Fits
<1>5. ParInv'
  BY <1>1, <1>4, ServerIsUp DEF Par!db_thread
<1>6. /\ request[t] \in Par!Waiting /\ ParDb!First(request[t])
      /\ \A k \in 1..Len(requests[t]) : requests[t][k] # request[t]
      /\ \A s \in Par!Sub \ {t} : ~InPart(request[t], s)
  BY <1>1, HandIsFirst
<1>7. Par!Waiting' = Par!Waiting \ {request[t]}
  <2>1. \A o : InPart(o, t)' <=> InPart(o, t) /\ o # request[t]
    BY <1>1, <1>6 DEF InPart
  <2> QED
    BY <1>6, <2>1, OthersStay, OnePart DEF Par!db_thread
<1>8. Par!Found' = Par!Found
  <2>1. \A s \in Par!Sub : thread'[s] = "result" <=> thread[s] = "result"
    BY <1>1, OthersStay DEF Par!db_thread
  <2>2. \A a : a \in Par!Found' <=> a \in Par!Found
    BY <1>1, <2>1, FoundIs
  <2> QED
    BY <2>2
<1> QED
  BY <1>1, <1>2, <1>5, <1>6, <1>7, <1>8 DEF ParDb!Effect

LEMMA PartGetIsVdb ==
  ASSUME Par!ParAssumption, ParInv, NEW t \in Par!Sub, Par!get(t)
  PROVE  ParInv' /\ ParDb!Effect(request[t])
<1>1. /\ thread[t] = "get" /\ thread'[t] = "result" /\ copied'[t] = store[request[t].key]
      /\ UNCHANGED <<requests, request, store, calls, answers>>
  BY DEF Par!get, Par!caller_vars, ParInv, Par!TypeOK
<1>2. QueueInv(t) /\ request[t] \in Par!Get /\ request[t].kind = "get"
  <2>1. QueueInv(t) /\ request[t] \in Par!Get \cup Par!Set /\ request[t].kind = "get"
    BY <1>1 DEF ParInv, QueueInv
  <2> QED
    BY <2>1 DEF Par!Get, Par!Set
<1>3. store[request[t].key] \in Value \cup {Null}
  BY <1>2, CallFields DEF ParInv, Par!TypeOK
<1>4. Par!TypeOK' /\ QueueInv(t)'
  BY <1>1, <1>2, <1>3 DEF Par!get, Par!caller_vars, ParInv, Par!TypeOK, QueueInv, Ordered, Fits
<1>5. ParInv'
  BY <1>1, <1>4, ServerIsUp DEF Par!db_thread
<1>6. /\ request[t] \in Par!Waiting /\ ParDb!First(request[t])
      /\ \A k \in 1..Len(requests[t]) : requests[t][k] # request[t]
      /\ \A s \in Par!Sub \ {t} : ~InPart(request[t], s)
  BY <1>1, HandIsFirst
<1>7. Par!Waiting' = Par!Waiting \ {request[t]}
  <2>1. \A o : InPart(o, t)' <=> InPart(o, t) /\ o # request[t]
    BY <1>1, <1>6 DEF InPart
  <2> QED
    BY <1>6, <2>1, OthersStay, OnePart DEF Par!db_thread
<1>8. Par!Found' = Par!Found \cup {<<request[t], store[request[t].key]>>}
  <2>1. \A s \in Par!Sub \ {t} : thread'[s] = thread[s] /\ copied'[s] = copied[s]
    BY OthersStay DEF Par!db_thread
  <2>2. \A a : a \in Par!Found' <=> a \in Par!Found \/ a = <<request[t], store[request[t].key]>>
    BY <1>1, <2>1, FoundIs
  <2> QED
    BY <2>2
<1> QED
  BY <1>1, <1>2, <1>5, <1>6, <1>7, <1>8 DEF ParDb!Effect

LEMMA ResultIsVdb ==
  ASSUME Par!ParAssumption, ParInv, NEW t \in Par!Sub, Par!result_func(t)
  PROVE  ParInv' /\ \E a \in Par!Found : ParDb!async_result(a)
<1>1. /\ thread[t] = "result" /\ thread'[t] = "pop" /\ answers' = answers \cup {<<request[t], copied[t]>>}
      /\ UNCHANGED <<requests, request, copied, store, calls>>
  BY DEF Par!result_func, Par!caller_vars, ParInv, Par!TypeOK
<1>2. QueueInv(t) /\ request[t] \in Par!Get /\ Fits(request[t], t)
  BY <1>1 DEF ParInv, QueueInv
<1>3. copied[t] \in Value \cup {Null}
  BY DEF ParInv, Par!TypeOK
<1>4. Par!TypeOK' /\ QueueInv(t)'
  BY <1>1, <1>2, <1>3 DEF Par!result_func, Par!caller_vars, ParInv, Par!TypeOK, QueueInv, Ordered, Fits
<1>5. ParInv'
  BY <1>1, <1>4, ServerIsUp DEF Par!db_thread
<1>6. Par!Waiting' = Par!Waiting
  <2>1. \A o : InPart(o, t)' <=> InPart(o, t)
    BY <1>1 DEF InPart
  <2> QED
    BY <2>1, OthersStay, OnePart DEF Par!db_thread
<1>7. \A s \in Par!Sub \ {t} : thread'[s] = thread[s] /\ (thread[s] = "result" => request[s] # request[t])
  BY <1>2, OthersStay DEF Par!db_thread, ParInv, QueueInv, Fits
<1>8. PICK a : a = <<request[t], copied[t]>>
  OBVIOUS
<1>9. a \in Par!Found /\ Par!Found' = Par!Found \ {a}
  <2>1. a \in Par!Found
    BY <1>1, <1>8, FoundIs
  <2>2. \A b : b \in Par!Found' <=> b \in Par!Found /\ b # a
    BY <1>1, <1>7, <1>8, FoundIs
  <2> QED
    BY <2>1, <2>2
<1> QED
  BY <1>1, <1>5, <1>6, <1>8, <1>9 DEF ParDb!async_result

-----------------------------------------------------------------------------
LEMMA ParBegins ==
  ASSUME Par!ParAssumption, Par!Init
  PROVE  ParInv /\ ParDb!Init
<1>1. N_SUBS \in Nat \ {0} /\ \A t : t \in Par!Sub <=> t \in Nat /\ t < N_SUBS
  BY PartsAre
<1>2. Par!TypeOK
  BY <1>1 DEF Par!ParAssumption, Par!Init, Par!TypeOK, Par!OwnerPlace
<1>3. OwnerInv
  BY <1>1 DEF Par!Init, OwnerInv, Busy
<1>4. \A t \in Par!Sub : ThreadInv(t) /\ QueueInv(t)
  BY DEF Par!Init, ThreadInv, QueueInv, Ordered, Busy
<1>5. Par!Waiting = {} /\ Par!Found = {}
  <2>1. \A o, t : t \in Par!Sub => ~InPart(o, t)
    BY DEF Par!Init, InPart
  <2> QED
    BY <2>1, WaitingIs DEF Par!Init, Par!Found
<1> QED
  BY <1>2, <1>3, <1>4, <1>5 DEF ParInv, Par!Init, ParDb!Init

LEMMA ParStep ==
  ASSUME Par!ParAssumption, ParInv, [Par!Next]_(Par!vars)
  PROVE  ParInv' /\ [ParDb!Next]_(ParDb!vars)
<1>1. CASE Par!manage \/ Par!destroy
  BY <1>1, OwnerIsVdb
<1>2. ASSUME NEW c \in Caller, Par!set_or_geta(c)
      PROVE  ParInv' /\ ParDb!Next
  BY <1>2, AskIsVdb DEF ParDb!Next
<1>3. ASSUME NEW t \in Par!Sub, Par!db_thread(t)
      PROVE  ParInv' /\ [ParDb!Next]_(ParDb!vars)
  <2>1. CASE Par!pop(t)
    BY <2>1, PopIsVdb
  <2>2. CASE Par!pop_null(t)
    BY <2>2, EndIsVdb
  <2>3. CASE Par!set_inst(t)
    BY <2>3, PartSetIsVdb DEF ParDb!Next, ParDb!Effect
  <2>4. CASE Par!get(t)
    BY <2>4, PartGetIsVdb DEF ParDb!Next, ParDb!Effect
  <2>5. CASE Par!result_func(t)
    BY <2>5, ResultIsVdb DEF ParDb!Next
  <2> QED
    BY <1>3, <2>1, <2>2, <2>3, <2>4, <2>5 DEF Par!db_thread
<1>4. CASE UNCHANGED Par!vars
  <2>1. UNCHANGED <<owner, turn, made, stopped, calls, requests, thread, request, copied, store, answers>>
    BY <1>4 DEF Par!vars, Par!caller_vars, Par!thread_vars
  <2>2. ParInv'
    BY <2>1 DEF ParInv, Par!TypeOK, OwnerInv, ThreadInv, QueueInv, Ordered, Fits, Busy, Par!Sub
  <2>3. UNCHANGED ParDb!vars
    BY <2>1 DEF ParDb!vars, Par!Waiting, Par!Found, Par!Sub
  <2> QED
    BY <2>2, <2>3
<1> QED
  BY <1>1, <1>2, <1>3, <1>4 DEF Par!Next

(* A queue exists as long as a thread pops from it or requests wait in it, *)
(* whatever fails while init_parallel_db() starts the threads.             *)
THEOREM QueuesOutlive ==
  ASSUME Par!ParAssumption
  PROVE  Par!Init /\ [][Par!Next]_(Par!vars) => []Par!QueuesOutliveThreads
<1>1. Par!Init => ParInv
  BY ParBegins
<1>2. ParInv /\ [Par!Next]_(Par!vars) => ParInv'
  BY ParStep
<1>3. ParInv => Par!QueuesOutliveThreads
  <2> SUFFICES ASSUME ParInv
               PROVE  Par!QueuesOutliveThreads
    OBVIOUS
  <2>1. /\ OwnerInv /\ \A t \in Par!Sub : ThreadInv(t)
        /\ thread \in [Par!Sub -> {"none", "pop", "get", "set", "result", "ended"}]
    BY DEF ParInv, Par!TypeOK
  <2> QED
    BY <2>1 DEF OwnerInv, ThreadInv, Busy, Par!QueuesOutliveThreads
<1> QED
  BY <1>1, <1>2, <1>3, PTL

(* A database of a queue and a thread per part keeps the promise of        *)
(* `struct vdb': the calls of one caller on one key take effect in the     *)
(* order in which set() and geta() pushed them, and async_result() gives   *)
(* the value that the key then had.                                        *)
THEOREM ParallelDbIsVdb ==
  ASSUME Par!ParAssumption
  PROVE  Par!Init /\ [][Par!Next]_(Par!vars) => ParDb!Init /\ [][ParDb!Next]_(ParDb!vars)
<1>1. Par!Init => ParInv /\ ParDb!Init
  BY ParBegins
<1>2. ParInv /\ [Par!Next]_(Par!vars) => ParInv' /\ [ParDb!Next]_(ParDb!vars)
  BY ParStep
<1> QED
  BY <1>1, <1>2, PTL

-----------------------------------------------------------------------------
(* LineBuffer. *)

(* What the buffer may hold. *)
Letter == Char \cup {"."}

LEMMA Smallest ==
  ASSUME NEW T \in SUBSET Nat, T # {}
  PROVE  \E m \in T : \A k \in T : m <= k
<1> DEFINE R == OpToRel(<, Nat)
<1>1. IsWellFoundedOn(R, Nat)
  BY NatLessThanWellFounded
<1>2. \A i, j \in Nat : <<i, j>> \in R <=> i < j
  BY DEF OpToRel
<1> HIDE DEF R
<1>3. PICK m \in T : \A k \in T : ~(<<k, m>> \in R)
  BY <1>1, WFMin
<1>4. ASSUME NEW k \in T
      PROVE  m <= k
  <2>1. k \in Nat /\ m \in Nat /\ ~(k < m)
    BY <1>2, <1>3
  <2> QED
    BY <2>1
<1> QED
  BY <1>4

(* The reference on the first n characters. *)
Nothing == [lines |-> <<>>, line |-> <<>>]
Turns(f, s, n) == f = [k \in 0..n |-> IF k = 0 THEN Nothing ELSE Turn(f[k - 1], s[k])]

LEMMA CutIs ==
  ASSUME NEW s PROVE Cut(s) = (CHOOSE f : Turns(f, s, Len(s)))[Len(s)]
BY DEF Cut, Turns, Nothing

LEMMA TurnsAt ==
  ASSUME NEW s, NEW n \in Nat, NEW f, Turns(f, s, n)
  PROVE  f[0] = Nothing /\ \A k \in 1..n : f[k] = Turn(f[k - 1], s[k])
<1>1. 0 \in 0..n /\ \A k \in 1..n : k \in 0..n /\ k # 0
  OBVIOUS
<1>2. \A k \in 0..n : f[k] = IF k = 0 THEN Nothing ELSE Turn(f[k - 1], s[k])
  BY DEF Turns
<1> QED
  BY <1>1, <1>2

LEMMA TurnsExist ==
  ASSUME NEW s, NEW n \in Nat
  PROVE  \E f : Turns(f, s, n)
<1> DEFINE T == {m \in Nat : ~\E f : Turns(f, s, m)}
<1> SUFFICES ASSUME T # {}
             PROVE  FALSE
  OBVIOUS
<1>1. PICK m \in T : \A k \in T : m <= k
  <2>1. T \in SUBSET Nat
    OBVIOUS
  <2> HIDE DEF T
  <2> QED
    BY <2>1, Smallest
<1>2. m # 0
  <2> DEFINE f == [k \in 0..0 |-> Nothing]
  <2>1. \A k \in 0..0 : k = 0
    OBVIOUS
  <2>2. Turns(f, s, 0)
    BY <2>1 DEF Turns
  <2> QED
    BY <2>2
<1>3. PICK k \in Nat : m = k + 1 /\ k \notin T
  BY <1>1, <1>2
<1>4. PICK f : Turns(f, s, k)
  BY <1>3
<1> DEFINE h == [j \in 0..(k + 1) |-> IF j = k + 1 THEN Turn(f[k], s[k + 1]) ELSE f[j]]
<1>5. ASSUME NEW j \in 0..(k + 1)
      PROVE  h[j] = IF j = 0 THEN Nothing ELSE Turn(h[j - 1], s[j])
  <2>1. CASE j = 0
    <3>1. h[0] = f[0]
      OBVIOUS
    <3> QED
      BY <1>4, <2>1, <3>1, TurnsAt
  <2>2. CASE j = k + 1
    <3>1. h[k + 1] = Turn(f[k], s[k + 1]) /\ h[k] = f[k] /\ (k + 1) - 1 = k /\ k + 1 # 0
      OBVIOUS
    <3> HIDE DEF h
    <3> QED
      BY <2>2, <3>1
  <2>3. CASE j \in 1..k
    <3>1. h[j] = f[j] /\ h[j - 1] = f[j - 1] /\ j # 0
      BY <2>3
    <3>2. f[j] = Turn(f[j - 1], s[j])
      BY <1>4, <2>3, TurnsAt
    <3> HIDE DEF h
    <3> QED
      BY <3>1, <3>2
  <2> HIDE DEF h
  <2> QED
    BY <2>1, <2>2, <2>3
<1>6. Turns(h, s, k + 1)
  <2>1. h = [j \in 0..(k + 1) |-> h[j]]
    OBVIOUS
  <2> HIDE DEF h
  <2> QED
    BY <1>5, <2>1 DEF Turns
<1> QED
  BY <1>1, <1>3, <1>6

(* It depends on nothing but these characters. *)
LEMMA TurnsAgree ==
  ASSUME NEW n \in Nat, NEW m \in Nat, n <= m, NEW s, NEW t,
         \A k \in 1..n : s[k] = t[k],
         NEW f, NEW g, Turns(f, s, n), Turns(g, t, m)
  PROVE  f[n] = g[n]
<1> DEFINE T == {k \in Nat : k <= n /\ f[k] # g[k]}
<1> SUFFICES ASSUME T # {}
             PROVE  FALSE
  OBVIOUS
<1>1. PICK k \in T : \A j \in T : k <= j
  <2>1. T \in SUBSET Nat
    OBVIOUS
  <2> HIDE DEF T
  <2> QED
    BY <2>1, Smallest
<1>2. k \in Nat /\ k <= n /\ f[k] # g[k]
  BY <1>1
<1>3. f[0] = Nothing /\ g[0] = Nothing
  BY TurnsAt
<1>4. k \in 1..n /\ k \in 1..m /\ k - 1 \in Nat /\ k - 1 <= n /\ ~(k <= k - 1)
  BY <1>2, <1>3
<1>5. f[k - 1] = g[k - 1]
  BY <1>1, <1>4
<1>6. f[k] = Turn(f[k - 1], s[k])
  BY <1>4, TurnsAt
<1>7. g[k] = Turn(g[k - 1], t[k])
  BY <1>4, TurnsAt
<1> QED
  BY <1>2, <1>4, <1>5, <1>6, <1>7

LEMMA CutEmpty == Cut(<<>>) = Nothing
<1>1. PICK n \in Nat : n = Len(<<>>) /\ n = 0
  BY EmptySeq
<1>2. PICK f : f = (CHOOSE g : Turns(g, <<>>, n)) /\ Turns(f, <<>>, n)
  BY TurnsExist
<1>3. f[0] = Nothing
  BY <1>2, TurnsAt
<1> QED
  BY <1>1, <1>2, <1>3, CutIs

(* One more character is one more turn. *)
LEMMA CutAppend ==
  ASSUME NEW s \in Seq(Char), NEW c \in Char
  PROVE  Cut(Append(s, c)) = Turn(Cut(s), c)
<1>1. PICK n \in Nat, m \in Nat : n = Len(s) /\ m = n + 1
  BY LenProperties
<1>2. PICK t : t = Append(s, c)
  OBVIOUS
<1>3. Len(t) = m /\ t[m] = c /\ \A k \in 1..n : s[k] = t[k]
  BY <1>1, <1>2, AppendProperties
<1>4. PICK f : f = (CHOOSE g : Turns(g, s, n)) /\ Turns(f, s, n)
  BY TurnsExist
<1>5. PICK h : h = (CHOOSE g : Turns(g, t, m)) /\ Turns(h, t, m)
  BY TurnsExist
<1>6. f[n] = h[n]
  <2>1. n <= m
    BY <1>1
  <2> QED
    BY <1>3, <1>4, <1>5, <2>1, TurnsAgree
<1>7. h[m] = Turn(h[n], t[m])
  <2>1. m \in 1..m /\ m - 1 = n
    BY <1>1
  <2>2. h[m] = Turn(h[m - 1], t[m])
    BY <1>5, <2>1, TurnsAt
  <2> QED
    BY <2>1, <2>2
<1>8. Cut(s) = f[n] /\ Cut(t) = h[m]
  BY <1>1, <1>3, <1>4, <1>5, CutIs
<1> QED
  BY <1>2, <1>3, <1>6, <1>7, <1>8

-----------------------------------------------------------------------------
(* process_buffer() on a buffer and one more character.                    *)

(* The part of a buffer up to one of its characters stays. *)
LEMMA SubSeqStays ==
  ASSUME NEW s \in Seq(Letter), NEW c \in Letter,
         NEW a \in Nat \ {0}, NEW b \in Nat, b <= Len(s)
  PROVE  /\ SubSeq(Append(s, c), a, b) = SubSeq(s, a, b)
         /\ SubSeq(s, a, b) \in Seq(Letter)
<1>1. Len(s) \in Nat
  BY LenProperties
<1>2. PICK t \in Seq(Letter) : t = Append(s, c)
  BY AppendProperties
<1>3. \A i \in 1..Len(s) : t[i] = s[i] /\ s[i] \in Letter
  BY <1>2, AppendProperties, ElementOfSeq
<1>4. \A i \in a..b : t[i] = s[i] /\ s[i] \in Letter /\ t[i] \in Letter
  BY <1>1, <1>3
<1>5. /\ SubSeq(s, a, b) \in Seq(Letter)
      /\ Len(SubSeq(s, a, b)) = IF a <= b THEN b - a + 1 ELSE 0
      /\ \A i \in 1..(b - a + 1) : SubSeq(s, a, b)[i] = s[a + i - 1]
  BY <1>4, SubSeqProperties
<1>6. /\ SubSeq(t, a, b) \in Seq(Letter)
      /\ Len(SubSeq(t, a, b)) = IF a <= b THEN b - a + 1 ELSE 0
      /\ \A i \in 1..(b - a + 1) : SubSeq(t, a, b)[i] = t[a + i - 1]
  BY <1>4, SubSeqProperties
<1>7. \A i \in 1..(b - a + 1) : a + i - 1 \in a..b
  OBVIOUS
<1>8. \A i \in 1..Len(SubSeq(t, a, b)) : SubSeq(t, a, b)[i] = SubSeq(s, a, b)[i]
  BY <1>4, <1>5, <1>6, <1>7
<1> QED
  BY <1>2, <1>5, <1>6, <1>8, SeqEqual

(* The part from one of its characters on is longer by the new one. *)
LEMMA SubSeqGrows ==
  ASSUME NEW s \in Seq(Letter), NEW c \in Letter, NEW e \in Nat, e <= Len(s)
  PROVE  /\ SubSeq(Append(s, c), e + 1, Len(s) + 1) = Append(SubSeq(s, e + 1, Len(s)), c)
         /\ Len(SubSeq(s, e + 1, Len(s))) = Len(s) - e
<1>1. PICK n \in Nat : n = Len(s)
  BY LenProperties
<1>2. PICK t \in Seq(Letter) : t = Append(s, c)
  BY AppendProperties
<1>3. Len(t) = n + 1 /\ t[n + 1] = c /\ \A i \in 1..n : t[i] = s[i] /\ s[i] \in Letter
  BY <1>1, <1>2, AppendProperties, ElementOfSeq
<1>4. PICK a \in Nat \ {0} : a = e + 1
  OBVIOUS
<1>5. PICK u \in Seq(Letter) : /\ u = SubSeq(s, a, n) /\ Len(u) = n - e
                               /\ \A i \in 1..(n - e) : u[i] = s[e + i]
  <2>1. \A i \in a..n : s[i] \in Letter
    BY <1>3, <1>4
  <2>2. /\ SubSeq(s, a, n) \in Seq(Letter)
        /\ Len(SubSeq(s, a, n)) = IF a <= n THEN n - a + 1 ELSE 0
        /\ \A i \in 1..(n - a + 1) : SubSeq(s, a, n)[i] = s[a + i - 1]
    BY <2>1, SubSeqProperties
  <2>3. n - a + 1 = n - e /\ (IF a <= n THEN n - a + 1 ELSE 0) = n - e
    BY <1>1, <1>4
  <2>4. \A i \in 1..(n - e) : a + i - 1 = e + i
    BY <1>4
  <2> QED
    BY <2>2, <2>3, <2>4, ZenonT(60)
<1>6. PICK v \in Seq(Letter) : /\ v = SubSeq(t, a, n + 1) /\ Len(v) = n + 1 - e
                               /\ \A i \in 1..(n + 1 - e) : v[i] = t[e + i]
  <2>1. \A i \in a..(n + 1) : t[i] \in Letter
    BY <1>3, <1>4
  <2>2. /\ SubSeq(t, a, n + 1) \in Seq(Letter)
        /\ Len(SubSeq(t, a, n + 1)) = IF a <= n + 1 THEN n + 1 - a + 1 ELSE 0
        /\ \A i \in 1..(n + 1 - a + 1) : SubSeq(t, a, n + 1)[i] = t[a + i - 1]
    BY <2>1, SubSeqProperties
  <2>3. /\ n + 1 - a + 1 = n + 1 - e
        /\ (IF a <= n + 1 THEN n + 1 - a + 1 ELSE 0) = n + 1 - e
    BY <1>1, <1>4
  <2>4. \A i \in 1..(n + 1 - e) : a + i - 1 = e + i
    BY <1>4
  <2> QED
    BY <2>2, <2>3, <2>4, ZenonT(60)
<1>7. PICK w \in Seq(Letter) : /\ w = Append(u, c) /\ Len(w) = n - e + 1
                               /\ w[n - e + 1] = c /\ \A i \in 1..(n - e) : w[i] = u[i]
  <2>1. PICK w \in Seq(Letter) : w = Append(u, c)
    BY AppendProperties
  <2>2. Len(w) = Len(u) + 1 /\ w[Len(u) + 1] = c /\ \A i \in 1..Len(u) : w[i] = u[i]
    BY <2>1, AppendProperties
  <2>3. Len(w) = n - e + 1 /\ w[n - e + 1] = c /\ \A i \in 1..(n - e) : w[i] = u[i]
    BY <1>5, <2>2
  <2> QED
    BY <2>1, <2>3
<1>8. ASSUME NEW i \in 1..Len(v)
      PROVE  v[i] = w[i]
  <2>1. i \in 1..(n + 1 - e)
    BY <1>6
  <2>2. CASE i = n - e + 1
    <3>1. e + i = n + 1
      BY <2>2
    <3> QED
      BY <1>3, <1>6, <1>7, <2>1, <2>2, <3>1
  <2>3. CASE i \in 1..(n - e)
    <3>1. e + i \in 1..n
      BY <1>1, <2>3
    <3> QED
      BY <1>3, <1>5, <1>6, <1>7, <2>1, <2>3, <3>1
  <2>4. i = n - e + 1 \/ i \in 1..(n - e)
    BY ONLY <2>1, n \in Nat, e \in Nat
  <2> QED
    BY <2>2, <2>3, <2>4
<1>9. v = w
  <2>1. Len(v) = Len(w)
    BY <1>1, <1>6, <1>7
  <2> QED
    BY <1>8, <2>1, SeqEqual
<1> QED
  BY <1>1, <1>2, <1>4, <1>5, <1>6, <1>7, <1>9

(* The lines of a buffer are as many as its newlines, each ends at one. *)
Ended(s) == \A k \in 1..Cardinality(Newlines(s)) : LineEnds(s, k) # {}

LEMMA NewlinesAre ==
  ASSUME NEW s \in Seq(Letter)
  PROVE  /\ IsFiniteSet(Newlines(s)) /\ Cardinality(Newlines(s)) \in Nat
         /\ Newlines(s) \in SUBSET (1..Len(s)) /\ Len(s) \in Nat
<1>1. Len(s) \in Nat
  BY LenProperties
<1>2. IsFiniteSet(1..Len(s))
  <2>1. 1 \in Int /\ Len(s) \in Int
    BY <1>1
  <2> QED
    BY <2>1, FS_Interval
<1>3. Newlines(s) \in SUBSET (1..Len(s))
  BY DEF Newlines
<1>4. IsFiniteSet(Newlines(s))
  BY <1>2, <1>3, FS_Subset
<1> QED
  BY <1>1, <1>3, <1>4, FS_CardinalityType

LEMMA LineEndIs ==
  ASSUME NEW s \in Seq(Letter), Ended(s), NEW k \in 0..Cardinality(Newlines(s))
  PROVE  line_end(s, k) \in Nat /\ line_end(s, k) <= Len(s)
<1>1. CASE k = 0
  BY <1>1, NewlinesAre DEF line_end
<1>2. CASE k # 0
  <2>1. k \in 1..Cardinality(Newlines(s))
    BY <1>2, NewlinesAre
  <2>2. LineEnds(s, k) # {}
    BY <2>1 DEF Ended
  <2>3. line_end(s, k) \in LineEnds(s, k)
    BY <1>2, <2>2 DEF line_end
  <2>4. line_end(s, k) \in 1..Len(s)
    BY <2>3, NewlinesAre DEF LineEnds
  <2> QED
    BY <2>4, NewlinesAre
<1> QED
  BY <1>1, <1>2

(* It is the same of sets that are the same. *)
Choice(S) == CHOOSE e \in S : TRUE

LEMMA LineEndChosen ==
  ASSUME NEW s, NEW k
  PROVE  line_end(s, k) = IF k = 0 THEN 0 ELSE Choice(LineEnds(s, k))
BY DEF line_end, Choice

(* The lines of a buffer stay where they are. *)
LEMMA LineStays ==
  ASSUME NEW s \in Seq(Letter), Ended(s), NEW k \in 1..Cardinality(Newlines(s)),
         NEW c \in Letter
  PROVE  LET a == line_end(s, k - 1) + 1 e == line_end(s, k) IN
         SubSeq(Append(s, c), a, e) = SubSeq(s, a, e) /\ SubSeq(s, a, e) \in Seq(Letter)
<1>1. k \in 0..Cardinality(Newlines(s)) /\ k - 1 \in 0..Cardinality(Newlines(s))
  BY NewlinesAre
<1>2. PICK e \in Nat : e = line_end(s, k) /\ e <= Len(s)
  BY <1>1, LineEndIs
<1>3. PICK d \in Nat : d = line_end(s, k - 1)
  BY <1>1, LineEndIs
<1>4. PICK a \in Nat \ {0} : a = d + 1
  OBVIOUS
<1>5. SubSeq(Append(s, c), a, e) = SubSeq(s, a, e) /\ SubSeq(s, a, e) \in Seq(Letter)
  BY <1>2, SubSeqStays
<1> QED
  BY <1>2, <1>3, <1>4, <1>5

(* Another character ends no line. *)
LEMMA AppendOther ==
  ASSUME NEW s \in Seq(Letter), NEW c \in Letter, c # "\n"
  PROVE  Newlines(Append(s, c)) = Newlines(s) /\ \A k : LineEnds(Append(s, c), k) = LineEnds(s, k)
<1>1. PICK t \in Seq(Letter) : t = Append(s, c)
  BY AppendProperties
<1>2. PICK n \in Nat : n = Len(s)
  BY LenProperties
<1>3. Len(t) = n + 1 /\ t[n + 1] = c /\ \A i \in 1..n : t[i] = s[i]
  BY <1>1, <1>2, AppendProperties
<1>4. Newlines(t) = Newlines(s)
  BY <1>2, <1>3 DEF Newlines
<1>5. \A k : LineEnds(t, k) = LineEnds(s, k)
  BY <1>4 DEF LineEnds
<1> QED
  BY <1>1, <1>4, <1>5

(* A newline ends the line that is the last. *)
LEMMA AppendNewline ==
  ASSUME NEW s \in Seq(Letter), NEW n \in Nat, n = Cardinality(Newlines(s))
  PROVE  LET t == Append(s, "\n") IN
         /\ Cardinality(Newlines(t)) = n + 1
         /\ LineEnds(t, n + 1) = {Len(s) + 1}
         /\ \A k \in 1..n : LineEnds(t, k) = LineEnds(s, k)
<1>1. PICK t \in Seq(Letter) : t = Append(s, "\n")
  BY AppendProperties DEF Letter, Char
<1>2. PICK l \in Nat, m \in Nat : l = Len(s) /\ m = l + 1
  BY LenProperties
<1>3. Len(t) = m /\ t[m] = "\n" /\ \A i \in 1..l : t[i] = s[i]
  BY <1>1, <1>2, AppendProperties DEF Letter, Char
<1>4. Newlines(t) = Newlines(s) \cup {m}
  <2>1. \A i : i \in 1..m <=> i \in 1..l \/ i = m
    BY <1>2
  <2>2. m \notin 1..l
    BY <1>2
  <2> QED
    BY <1>2, <1>3, <2>1, <2>2 DEF Newlines
<1>5. IsFiniteSet(Newlines(s)) /\ \A e \in Newlines(s) : e \in 1..l /\ e \in Nat /\ e < m /\ e # m
  BY <1>2, NewlinesAre
<1>6. Cardinality(Newlines(s) \cup {m}) = n + 1
  BY <1>5, FS_AddElement
<1> DEFINE upto(u, e) == {j \in Newlines(u) : j <= e}
<1>7. \A e \in Newlines(s) : upto(t, e) = upto(s, e)
  <2>1. ASSUME NEW e \in Newlines(s)
        PROVE  ~(m <= e)
    BY <1>2, <1>5
  <2> QED
    BY <1>4, <2>1
<1>8. \A e \in Newlines(s) : Cardinality(upto(s, e)) \in Nat /\ Cardinality(upto(s, e)) <= n
  <2>1. ASSUME NEW e \in Newlines(s)
        PROVE  Cardinality(upto(s, e)) \in Nat /\ Cardinality(upto(s, e)) <= n
    <3>1. upto(s, e) \in SUBSET Newlines(s)
      OBVIOUS
    <3> HIDE DEF upto
    <3>2. IsFiniteSet(upto(s, e)) /\ Cardinality(upto(s, e)) <= n
      BY <1>5, <3>1, FS_Subset
    <3> QED
      BY <3>2, FS_CardinalityType
  <2> QED
    BY <2>1
<1>9. upto(t, m) = Newlines(s) \cup {m}
  <2>1. \A e \in Newlines(s) \cup {m} : e <= m
    BY <1>2, <1>5
  <2> QED
    BY <1>4, <2>1
<1> HIDE DEF upto
<1>10. \A u, k : LineEnds(u, k) = {e \in Newlines(u) : Cardinality(upto(u, e)) = k}
  BY DEF LineEnds, upto
<1>11. LineEnds(t, n + 1) = {m}
  <2>1. \A e \in Newlines(s) : Cardinality(upto(t, e)) # n + 1
    BY <1>7, <1>8
  <2>2. Cardinality(upto(t, m)) = n + 1
    BY <1>6, <1>9
  <2>3. \A e : e \in LineEnds(t, n + 1) <=> e \in Newlines(s) \cup {m} /\ Cardinality(upto(t, e)) = n + 1
    BY <1>4, <1>10
  <2>4. \A e : e \in LineEnds(t, n + 1) <=> e = m
    BY <2>1, <2>2, <2>3
  <2> QED
    BY <2>4
<1>12. ASSUME NEW k \in 1..n
       PROVE  LineEnds(t, k) = LineEnds(s, k)
  <2>1. Cardinality(upto(t, m)) # k
    BY <1>6, <1>9
  <2>2. \A e : e \in LineEnds(t, k) <=> e \in Newlines(s) \cup {m} /\ Cardinality(upto(t, e)) = k
    BY <1>4, <1>10
  <2>3. \A e : e \in LineEnds(s, k) <=> e \in Newlines(s) /\ Cardinality(upto(s, e)) = k
    BY <1>10
  <2>4. \A e : e \in LineEnds(t, k) <=> e \in LineEnds(s, k)
    BY <1>7, <2>1, <2>2, <2>3
  <2> QED
    BY <2>4
<1> QED
  BY <1>1, <1>2, <1>4, <1>6, <1>11, <1>12

LEMMA BufferIs ==
  ASSUME NEW s \in Seq(Letter), Ended(s)
  PROVE  LET b == process_buffer(s) n == Cardinality(Newlines(s)) IN
         /\ b.lines \in Seq(Seq(Letter)) /\ Len(b.lines) = n
         /\ \A k \in 1..n : b.lines[k] = SubSeq(s, line_end(s, k - 1) + 1, line_end(s, k))
         /\ b.rest = SubSeq(s, line_end(s, n) + 1, Len(s))
         /\ b.rest \in Seq(Letter) /\ Len(b.rest) <= Len(s)
<1>1. PICK n \in Nat, m \in Nat : n = Cardinality(Newlines(s)) /\ m = Len(s)
  BY NewlinesAre
<1>2. PICK b : b = process_buffer(s)
  OBVIOUS
<1>3. /\ b.lines = [k \in 1..n |-> SubSeq(s, line_end(s, k - 1) + 1, line_end(s, k))]
      /\ b.rest = SubSeq(s, line_end(s, n) + 1, m)
  BY <1>1, <1>2 DEF process_buffer
<1>4. \A k \in 0..n : line_end(s, k) \in Nat /\ line_end(s, k) <= m
  BY <1>1, LineEndIs
<1>5. \A k \in 1..n : SubSeq(s, line_end(s, k - 1) + 1, line_end(s, k)) \in Seq(Letter)
  <2>1. "." \in Letter
    BY DEF Letter
  <2> QED
    BY <1>1, <2>1, LineStays
<1>6. b.lines \in Seq(Seq(Letter)) /\ Len(b.lines) = n
  <2>1. b.lines \in [1..n -> Seq(Letter)]
    BY <1>3, <1>5
  <2> QED
    BY <2>1
<1>7. b.rest \in Seq(Letter) /\ Len(b.rest) <= m
  <2>1. PICK e \in Nat : e = line_end(s, n) /\ e <= m
    BY <1>4
  <2>2. "." \in Letter
    BY DEF Letter
  <2>3. SubSeq(s, e + 1, m) \in Seq(Letter)
    BY <1>1, <2>1, <2>2, SubSeqStays
  <2>4. Len(SubSeq(s, e + 1, m)) = m - e
    BY <1>1, <2>1, <2>2, SubSeqGrows
  <2> QED
    BY <1>3, <2>1, <2>3, <2>4
<1> QED
  BY <1>1, <1>2, <1>3, <1>6, <1>7

(* A character that ends no line is added to what remains. *)
LEMMA BufferGrows ==
  ASSUME NEW s \in Seq(Letter), Ended(s), NEW c \in Letter, c # "\n"
  PROVE  LET t == Append(s, c) IN
         /\ Ended(t)
         /\ process_buffer(t).lines = process_buffer(s).lines
         /\ process_buffer(t).rest = Append(process_buffer(s).rest, c)
<1>1. PICK t \in Seq(Letter) : t = Append(s, c) /\ Len(t) = Len(s) + 1
  BY AppendProperties
<1>2. PICK n \in Nat, m \in Nat : n = Cardinality(Newlines(s)) /\ m = Len(s)
  BY NewlinesAre
<1>3. Newlines(t) = Newlines(s) /\ \A k : LineEnds(t, k) = LineEnds(s, k)
  BY <1>1, AppendOther
<1>4. Ended(t)
  BY <1>3 DEF Ended
<1>5. \A k : line_end(t, k) = line_end(s, k)
  BY <1>3, LineEndChosen
<1>6. \A k \in 0..n : line_end(s, k) \in Nat /\ line_end(s, k) <= m
  BY <1>2, LineEndIs
<1>7. \A k \in 1..n : SubSeq(t, line_end(s, k - 1) + 1, line_end(s, k))
                      = SubSeq(s, line_end(s, k - 1) + 1, line_end(s, k))
  BY <1>1, <1>2, LineStays
<1>8. process_buffer(t).lines = process_buffer(s).lines
  <2>1. process_buffer(s).lines
          = [k \in 1..n |-> SubSeq(s, line_end(s, k - 1) + 1, line_end(s, k))]
    BY <1>2 DEF process_buffer
  <2>2. process_buffer(t).lines
          = [k \in 1..n |-> SubSeq(t, line_end(t, k - 1) + 1, line_end(t, k))]
    <3>1. n = Cardinality(Newlines(t))
      BY <1>2, <1>3
    <3> QED
      BY <3>1 DEF process_buffer
  <2>3. \A k \in 1..n : SubSeq(t, line_end(t, k - 1) + 1, line_end(t, k))
                         = SubSeq(s, line_end(s, k - 1) + 1, line_end(s, k))
    <3>1. ASSUME NEW k \in 1..n
          PROVE  line_end(t, k - 1) = line_end(s, k - 1) /\ line_end(t, k) = line_end(s, k)
      BY <1>5
    <3> QED
      BY <1>7, <3>1
  <2> QED
    BY <2>1, <2>2, <2>3
<1>9. process_buffer(t).rest = Append(process_buffer(s).rest, c)
  <2>1. PICK e \in Nat : e = line_end(s, n) /\ e <= m
    BY <1>6
  <2>2. process_buffer(t).rest = SubSeq(t, e + 1, m + 1)
    BY <1>1, <1>2, <1>3, <1>5, <2>1 DEF process_buffer
  <2>3. process_buffer(s).rest = SubSeq(s, e + 1, m)
    BY <1>2, <2>1 DEF process_buffer
  <2>4. SubSeq(t, e + 1, m + 1) = Append(SubSeq(s, e + 1, m), c)
    BY <1>1, <1>2, <2>1, SubSeqGrows
  <2> QED
    BY <2>2, <2>3, <2>4
<1> QED
  BY <1>1, <1>4, <1>8, <1>9

(* A newline makes a line of what remains. *)
LEMMA BufferEnds ==
  ASSUME NEW s \in Seq(Letter), Ended(s)
  PROVE  LET t == Append(s, "\n") IN
         /\ Ended(t)
         /\ process_buffer(t).lines
              = Append(process_buffer(s).lines, Append(process_buffer(s).rest, "\n"))
         /\ process_buffer(t).rest = <<>>
<1>0. PICK c \in Letter : c = "\n"
  BY DEF Letter, Char
<1>1. PICK t \in Seq(Letter) : t = Append(s, c) /\ Len(t) = Len(s) + 1
  BY <1>0, AppendProperties
<1>2. PICK n \in Nat, m \in Nat, l \in Nat : n = Cardinality(Newlines(s)) /\ m = Len(s) /\ l = n + 1
  BY NewlinesAre
<1>3. /\ Cardinality(Newlines(t)) = l /\ LineEnds(t, l) = {m + 1}
      /\ \A k \in 1..n : LineEnds(t, k) = LineEnds(s, k)
  BY <1>0, <1>1, <1>2, AppendNewline
<1>4. Ended(t)
  <2>1. \A k \in 1..l : k \in 1..n \/ k = l
    BY <1>2
  <2>2. \A k \in 1..n : LineEnds(s, k) # {}
    BY <1>2 DEF Ended
  <2>3. \A k \in 1..l : LineEnds(t, k) # {}
    BY <1>3, <2>1, <2>2
  <2> QED
    BY <1>3, <2>3 DEF Ended
<1>5. \A k \in 0..n : line_end(t, k) = line_end(s, k)
  <2>1. \A k \in 0..n : k = 0 \/ k \in 1..n
    OBVIOUS
  <2> QED
    BY <1>3, <2>1, LineEndChosen
<1>6. line_end(t, l) = m + 1
  BY <1>2, <1>3 DEF line_end
<1>7. \A k \in 0..n : line_end(s, k) \in Nat /\ line_end(s, k) <= m
  BY <1>2, LineEndIs
<1>8. PICK b, d : b = process_buffer(s) /\ d = process_buffer(t)
  OBVIOUS
<1>9. /\ b.lines \in Seq(Seq(Letter)) /\ Len(b.lines) = n
      /\ \A k \in 1..n : b.lines[k] = SubSeq(s, line_end(s, k - 1) + 1, line_end(s, k))
      /\ b.rest = SubSeq(s, line_end(s, n) + 1, m) /\ b.rest \in Seq(Letter)
  BY <1>2, <1>8, BufferIs
<1>10. /\ d.lines \in Seq(Seq(Letter)) /\ Len(d.lines) = l
       /\ \A k \in 1..l : d.lines[k] = SubSeq(t, line_end(t, k - 1) + 1, line_end(t, k))
       /\ d.rest = SubSeq(t, line_end(t, l) + 1, m + 1)
  BY <1>1, <1>2, <1>3, <1>4, <1>8, BufferIs
<1>11. d.rest = <<>>
  <2>1. m + 1 + 1 \in Int /\ m + 1 \in Int /\ m + 1 < m + 1 + 1
    OBVIOUS
  <2>2. SubSeq(t, m + 1 + 1, m + 1) = <<>>
    BY <2>1, SubSeqEmpty
  <2> QED
    BY <1>6, <1>10, <2>2
<1>12. PICK line \in Seq(Letter) : line = Append(b.rest, c)
  BY <1>9, AppendProperties
<1>13. PICK w \in Seq(Seq(Letter)) : /\ w = Append(b.lines, line) /\ Len(w) = l
                                     /\ w[l] = line /\ \A k \in 1..n : w[k] = b.lines[k]
  <2>1. PICK S : S = Seq(Letter)
    OBVIOUS
  <2>2. PICK z \in Seq(S) : z = b.lines /\ Len(z) = n
    BY <1>9, <2>1
  <2>3. line \in S
    BY <2>1
  <2>4. /\ Append(z, line) \in Seq(S) /\ Len(Append(z, line)) = Len(z) + 1
        /\ \A k \in 1..Len(z) : Append(z, line)[k] = z[k]
        /\ Append(z, line)[Len(z) + 1] = line
    BY <2>3, AppendProperties
  <2> QED
    BY <1>2, <2>1, <2>2, <2>4
<1>14. \A k \in 1..n : d.lines[k] = b.lines[k]
  <2>1. ASSUME NEW k \in 1..n
        PROVE  d.lines[k] = b.lines[k]
    <3>1. k \in 0..n /\ k - 1 \in 0..n /\ k \in 1..l
      BY <1>2
    <3>2. SubSeq(t, line_end(s, k - 1) + 1, line_end(s, k))
          = SubSeq(s, line_end(s, k - 1) + 1, line_end(s, k))
      BY <1>1, <1>2, LineStays
    <3>3. d.lines[k] = SubSeq(t, line_end(s, k - 1) + 1, line_end(s, k))
      BY <1>5, <1>10, <3>1
    <3> QED
      BY <1>9, <3>2, <3>3
  <2> QED
    BY <2>1
<1>15. d.lines[l] = line
  <2>1. n \in 0..n /\ l \in 1..l /\ l - 1 = n
    BY <1>2
  <2>2. PICK e \in Nat : e = line_end(s, n) /\ e <= m
    BY <1>7, <2>1
  <2>3. d.lines[l] = SubSeq(t, e + 1, m + 1)
    BY <1>5, <1>6, <1>10, <2>1, <2>2
  <2>4. SubSeq(t, e + 1, m + 1) = Append(SubSeq(s, e + 1, m), c)
    BY <1>1, <1>2, <2>2, SubSeqGrows
  <2> QED
    BY <1>9, <1>12, <2>2, <2>3, <2>4
<1>16. d.lines = w
  <2>1. \A k \in 1..l : k \in 1..n \/ k = l
    BY <1>2
  <2>2. \A k \in 1..Len(d.lines) : d.lines[k] = w[k]
    BY <1>10, <1>13, <1>14, <1>15, <2>1
  <2> QED
    BY <1>10, <1>13, <2>2, SeqEqual
<1> QED
  BY <1>0, <1>1, <1>4, <1>8, <1>11, <1>12, <1>13, <1>16

(* A buffer without a newline has no line. *)
LEMMA BufferRests ==
  ASSUME NEW s \in Seq(Letter), Newlines(s) = {}
  PROVE  Ended(s) /\ process_buffer(s).lines = <<>> /\ process_buffer(s).rest = s
<1>1. Cardinality(Newlines(s)) = 0
  BY FS_EmptySet
<1>2. 1..0 = {}
  OBVIOUS
<1>3. Ended(s)
  BY <1>1, <1>2 DEF Ended
<1>4. line_end(s, 0) = 0
  BY DEF line_end
<1>5. process_buffer(s).rest = SubSeq(s, 1, Len(s))
  <2>1. process_buffer(s).rest = SubSeq(s, 0 + 1, Len(s))
    BY <1>1, <1>4 DEF process_buffer
  <2>2. 0 + 1 = 1
    OBVIOUS
  <2> QED
    BY <2>1, <2>2
<1>6. SubSeq(s, 1, Len(s)) = s
  BY SubSeqFull
<1>7. process_buffer(s).lines = <<>>
  <2>1. PICK l \in Seq(Seq(Letter)) : l = process_buffer(s).lines /\ Len(l) = 0
    BY <1>1, <1>3, BufferIs
  <2> QED
    BY <2>1, EmptySeq
<1> QED
  BY <1>3, <1>5, <1>6, <1>7

-----------------------------------------------------------------------------
(* PiecesDontMatter says nothing of what the buffer may hold: an end of a   *)
(* line that stays in it would be found again.                             *)
LineInv ==
  /\ read \in Seq(Char) /\ line_buf \in Seq(Letter) /\ messages \in Seq(Seq(Letter))
  /\ Newlines(line_buf) = {}
  /\ PiecesDontMatter

(* The first k characters of a piece: where process_buffer() gets with them *)
(* is where the reference gets, the first of them after the overrun.       *)
Done(s, piece, k) ==
  LET v == s \o SubSeq(piece, 1, k)
      b == process_buffer(v)
      r == Cut(read \o SubSeq(piece, 1, k))
  IN  /\ Ended(v)
      /\ r.lines = messages \o b.lines
      /\ (IF k = 0 THEN Started(r.line) ELSE r.line) = b.rest
      /\ Newlines(b.rest) = {} /\ Len(b.rest) <= Len(s) + k

LEMMA ConcatAppend ==
  ASSUME NEW S, NEW p \in Seq(S), NEW z \in Seq(S), NEW e \in S
  PROVE  p \o Append(z, e) = Append(p \o z, e)
<1>1. <<e>> \in Seq(S) /\ p \o z \in Seq(S)
  BY ConcatProperties
<1>2. Append(z, e) = z \o <<e>> /\ Append(p \o z, e) = (p \o z) \o <<e>>
  BY <1>1, AppendIsConcat
<1>3. (p \o z) \o <<e>> = p \o (z \o <<e>>)
  BY <1>1, ConcatAssociative
<1> QED
  BY <1>2, <1>3

LEMMA PrefixGrows ==
  ASSUME NEW S, NEW p \in Seq(S), NEW z \in Seq(S), NEW j \in 1..Len(z)
  PROVE  /\ p \o SubSeq(z, 1, j - 1) \in Seq(S) /\ z[j] \in S
         /\ p \o SubSeq(z, 1, j) = Append(p \o SubSeq(z, 1, j - 1), z[j])
<1>1. PICK n \in Nat : n = Len(z)
  BY LenProperties
<1>2. 1 \in 1..n /\ j \in 1..n /\ 1 \in Int /\ j - 1 \in Int
  BY <1>1
<1>3. z[j] \in S
  BY ElementOfSeq
<1>4. SubSeq(z, 1, j - 1) \in Seq(S)
  <2>1. \A i \in 1..(j - 1) : i \in 1..Len(z)
    BY <1>1
  <2>2. \A i \in 1..(j - 1) : z[i] \in S
    BY <2>1, ElementOfSeq
  <2> QED
    BY <1>2, <2>2, SubSeqProperties
<1>5. SubSeq(z, 1, j) = SubSeq(z, 1, j - 1) \o <<z[j]>>
  <2>1. 1 \in 1..Len(z) /\ j \in 1..Len(z)
    BY <1>1, <1>2
  <2> QED
    BY <2>1, SubSeqRecursiveSecond
<1>6. PICK u \in Seq(S) : u = SubSeq(z, 1, j - 1)
  BY <1>4
<1>7. Append(u, z[j]) = u \o <<z[j]>>
  BY <1>3, AppendIsConcat
<1>8. p \o Append(u, z[j]) = Append(p \o u, z[j])
  BY <1>3, ConcatAppend
<1>9. p \o u \in Seq(S)
  BY ConcatProperties
<1> QED
  BY <1>3, <1>5, <1>6, <1>7, <1>8, <1>9

LEMMA DoneFirst ==
  ASSUME LineInv, NEW piece \in Seq(Char)
  PROVE  Done(Started(line_buf), piece, 0)
<1>1. PICK s \in Seq(Letter) : s = Started(line_buf) /\ Newlines(s) = {}
  <2>1. OVERRUN \in Seq(Letter)
    BY DEF OVERRUN, Letter
  <2>2. Newlines(OVERRUN) = {}
    BY DEF OVERRUN, Newlines
  <2> QED
    BY <2>1, <2>2 DEF LineInv, Started
<1>2. SubSeq(piece, 1, 0) = <<>>
  <2>1. 1 \in Int /\ 0 \in Int /\ 0 < 1
    OBVIOUS
  <2> QED
    BY <2>1, SubSeqEmpty
<1>3. s \o <<>> = s /\ read \o <<>> = read /\ messages \o <<>> = messages
  BY ConcatEmptySeq DEF LineInv
<1>4. Ended(s) /\ process_buffer(s).lines = <<>> /\ process_buffer(s).rest = s
  BY <1>1, BufferRests
<1>5. Cut(read).lines = messages /\ Cut(read).line = line_buf
  BY DEF LineInv, PiecesDontMatter
<1>6. Len(s) <= Len(s) + 0
  BY LenProperties
<1>7. s \o SubSeq(piece, 1, 0) = s /\ read \o SubSeq(piece, 1, 0) = read
  BY <1>2, <1>3
<1>8. /\ Cut(read).lines = messages \o process_buffer(s).lines
      /\ Started(Cut(read).line) = process_buffer(s).rest
      /\ Newlines(process_buffer(s).rest) = {}
      /\ Len(process_buffer(s).rest) <= Len(s) + 0
  BY <1>1, <1>3, <1>4, <1>5, <1>6
<1>9. Done(s, piece, 0)
  BY <1>4, <1>7, <1>8 DEF Done
<1> QED
  BY <1>1, <1>9

LEMMA DoneNext ==
  ASSUME LineInv, NEW s \in Seq(Letter), NEW piece \in Seq(Char), NEW j \in 1..Len(piece),
         Done(s, piece, j - 1), Len(s) + j <= buf_size - 1
  PROVE  Done(s, piece, j)
<1>1. PICK k \in Nat : k = j - 1
  BY LenProperties
<1>2. PICK c \in Char : c = piece[j] /\ c \in Letter
  BY ElementOfSeq DEF Letter
<1>3. PICK v \in Seq(Letter) : /\ v = s \o SubSeq(piece, 1, k)
                               /\ s \o SubSeq(piece, 1, j) = Append(v, c)
  <2>1. piece \in Seq(Letter)
    BY SeqMonotonic DEF Letter
  <2> QED
    BY <1>1, <1>2, <2>1, PrefixGrows
<1>4. PICK x \in Seq(Char) : /\ x = read \o SubSeq(piece, 1, k)
                             /\ read \o SubSeq(piece, 1, j) = Append(x, c)
  <2>1. read \in Seq(Char)
    BY DEF LineInv
  <2>2. /\ read \o SubSeq(piece, 1, j - 1) \in Seq(Char)
        /\ read \o SubSeq(piece, 1, j) = Append(read \o SubSeq(piece, 1, j - 1), piece[j])
    BY <2>1, PrefixGrows
  <2> QED
    BY <1>1, <1>2, <2>2
<1>5. PICK r, b, d : r = Cut(x) /\ b = process_buffer(v) /\ d = process_buffer(Append(v, c))
  OBVIOUS
<1>6. /\ Ended(v) /\ r.lines = messages \o b.lines
      /\ (IF k = 0 THEN Started(r.line) ELSE r.line) = b.rest
      /\ Newlines(b.rest) = {} /\ Len(b.rest) <= Len(s) + k
  BY <1>1, <1>3, <1>4, <1>5 DEF Done
<1>7. b.lines \in Seq(Seq(Letter)) /\ b.rest \in Seq(Letter) /\ Len(b.rest) \in Nat
  BY <1>5, <1>6, BufferIs, LenProperties
<1>8. Len(s) \in Nat
  BY LenProperties
<1>9. (IF Len(r.line) = buf_size - 1 THEN OVERRUN ELSE r.line) = b.rest
  <2>1. CASE k = 0
    BY <1>6, <2>1 DEF Started
  <2>2. CASE k # 0
    <3>1. r.line = b.rest
      BY <1>6, <2>2
    <3>2. Len(b.rest) # buf_size - 1
      BY <1>1, <1>6, <1>7, <1>8, LineAssumption
    <3> QED
      BY <3>1, <3>2
  <2> QED
    BY <2>1, <2>2
<1>10. Cut(Append(x, c)) = Turn(r, c)
  BY <1>5, CutAppend
<1>11. PICK line \in Seq(Letter) : line = Append(b.rest, c) /\ Len(line) = Len(b.rest) + 1
  <2>1. PICK z \in Seq(Letter) : z = b.rest
    BY <1>7
  <2>2. Append(z, c) \in Seq(Letter) /\ Len(Append(z, c)) = Len(z) + 1
    BY <1>2, AppendProperties
  <2> QED
    BY <2>1, <2>2
<1>12. /\ Turn(r, c).lines = IF c = "\n" THEN Append(r.lines, line) ELSE r.lines
       /\ Turn(r, c).line = IF c = "\n" THEN <<>> ELSE line
  <2>1. PICK w : w = (IF Len(r.line) = buf_size - 1 THEN OVERRUN ELSE r.line)
    OBVIOUS
  <2>2. Append(w, c) = line
    BY <1>9, <1>11, <2>1
  <2>3. Turn(r, c) = IF c = "\n" THEN [lines |-> Append(r.lines, Append(w, c)), line |-> <<>>]
                     ELSE [lines |-> r.lines, line |-> Append(w, c)]
    BY <2>1 DEF Turn
  <2> QED
    BY <2>2, <2>3
<1>13. /\ Ended(Append(v, c))
       /\ Turn(r, c).lines = messages \o d.lines /\ Turn(r, c).line = d.rest
       /\ Newlines(d.rest) = {} /\ Len(d.rest) <= Len(s) + j
  <2>1. CASE c = "\n"
    <3>1. Ended(Append(v, c)) /\ d.lines = Append(b.lines, line) /\ d.rest = <<>>
      BY <1>5, <1>6, <1>11, <2>1, BufferEnds
    <3>2. messages \o Append(b.lines, line) = Append(messages \o b.lines, line)
      <4>1. PICK S : S = Seq(Letter)
        OBVIOUS
      <4>2. PICK p \in Seq(S), z \in Seq(S) : p = messages /\ z = b.lines
        BY <1>7, <4>1 DEF LineInv
      <4>3. line \in S
        BY <4>1
      <4>4. p \o Append(z, line) = Append(p \o z, line)
        BY <4>3, ConcatAppend, SMTT(30)
      <4> QED
        BY <4>2, <4>4
    <3>3. Len(<<>>) = 0 /\ Newlines(<<>>) = {}
      BY DEF Newlines
    <3> QED
      BY <1>6, <1>8, <1>12, <2>1, <3>1, <3>2, <3>3, SMTT(30)
  <2>2. CASE c # "\n"
    <3>1. Ended(Append(v, c)) /\ d.lines = b.lines /\ d.rest = line
      BY <1>2, <1>5, <1>6, <1>11, <2>2, BufferGrows
    <3>2. Newlines(line) = {}
      BY <1>2, <1>6, <1>7, <1>11, <2>2, AppendOther
    <3>3. Len(line) <= Len(s) + j
      BY <1>1, <1>6, <1>7, <1>8, <1>11
    <3> QED
      BY <1>6, <1>12, <2>2, <3>1, <3>2, <3>3
  <2> QED
    BY <2>1, <2>2
<1>14. j # 0
  OBVIOUS
<1> QED
  BY <1>3, <1>4, <1>5, <1>10, <1>13, <1>14 DEF Done

LEMMA DoneAll ==
  ASSUME LineInv, NEW s \in Seq(Letter), s = Started(line_buf),
         NEW piece \in Seq(Char), Len(s) + Len(piece) <= buf_size - 1
  PROVE  Done(s, piece, Len(piece))
<1>1. PICK n \in Nat, l \in Nat : n = Len(piece) /\ l = Len(s)
  BY LenProperties
<1> DEFINE T == {j \in Nat : j <= n /\ ~Done(s, piece, j)}
<1> SUFFICES ASSUME T # {}
             PROVE  FALSE
  BY <1>1
<1>2. PICK j \in T : \A i \in T : j <= i
  <2>1. T \in SUBSET Nat
    OBVIOUS
  <2> HIDE DEF T
  <2> QED
    BY <2>1, Smallest
<1>3. j \in Nat /\ j <= n /\ ~Done(s, piece, j)
  BY <1>2
<1>4. j # 0
  BY <1>3, DoneFirst
<1>5. j \in 1..Len(piece) /\ j - 1 \in Nat /\ j - 1 <= n /\ ~(j <= j - 1)
  BY <1>1, <1>3, <1>4
<1>6. Done(s, piece, j - 1)
  BY <1>2, <1>5
<1>7. Len(s) + j <= buf_size - 1
  BY <1>1, <1>3, LineAssumption
<1> QED
  BY <1>3, <1>5, <1>6, <1>7, DoneNext

LEMMA LineInitHolds == LineInit => LineInv
<1> SUFFICES ASSUME LineInit
             PROVE  LineInv
  OBVIOUS
<1>1. read = <<>> /\ line_buf = <<>> /\ messages = <<>>
  BY DEF LineInit
<1>2. Newlines(<<>>) = {}
  BY DEF Newlines
<1>3. PiecesDontMatter
  BY <1>1, CutEmpty DEF PiecesDontMatter, Nothing
<1> QED
  BY <1>1, <1>2, <1>3, EmptySeq DEF LineInv

LEMMA LineStep == LineInv /\ [LineNext]_line_vars => LineInv'
<1> SUFFICES ASSUME LineInv, [LineNext]_line_vars
             PROVE  LineInv'
  OBVIOUS
<1>1. CASE process_input
  <2>1. PICK s : s = Started(line_buf)
    OBVIOUS
  <2>2. s \in Seq(Letter) /\ Len(s) \in Nat
    <3>1. OVERRUN \in Seq(Letter)
      BY DEF OVERRUN, Letter
    <3>2. s \in Seq(Letter)
      BY <2>1, <3>1 DEF LineInv, Started
    <3> QED
      BY <3>2, LenProperties
  <2>a. PICK n \in 1..(buf_size - 1 - Len(s)) : \E piece \in [1..n -> Char] :
          /\ read' = read \o piece
          /\ line_buf' = process_buffer(s \o piece).rest
          /\ messages' = messages \o process_buffer(s \o piece).lines
    BY <1>1, <2>1 DEF process_input
  <2>3. PICK piece \in [1..n -> Char] :
          /\ read' = read \o piece
          /\ line_buf' = process_buffer(s \o piece).rest
          /\ messages' = messages \o process_buffer(s \o piece).lines
    BY <2>a
  <2>4. /\ piece \in Seq(Char) /\ Len(piece) = n /\ n \in Nat /\ n # 0
        /\ Len(s) + n <= buf_size - 1
    BY <2>2, <2>3, LineAssumption
  <2>5. SubSeq(piece, 1, n) = piece
    BY <2>4, SubSeqFull
  <2>6. Done(s, piece, n)
    BY <2>1, <2>2, <2>4, DoneAll
  <2>7. PICK v \in Seq(Letter) : v = s \o piece
    <3>1. piece \in Seq(Letter)
      BY <2>4, SeqMonotonic DEF Letter
    <3> QED
      BY <2>2, <3>1, ConcatProperties
  <2>8. /\ Ended(v) /\ Newlines(process_buffer(v).rest) = {}
        /\ Cut(read \o piece).lines = messages \o process_buffer(v).lines
        /\ Cut(read \o piece).line = process_buffer(v).rest
    BY <2>4, <2>5, <2>6, <2>7 DEF Done
  <2>9. process_buffer(v).rest \in Seq(Letter) /\ process_buffer(v).lines \in Seq(Seq(Letter))
    BY <2>8, BufferIs
  <2>10. read' \in Seq(Char) /\ messages' \in Seq(Seq(Letter))
    BY <2>3, <2>4, <2>7, <2>9, ConcatProperties DEF LineInv
  <2>11. PiecesDontMatter'
    BY <2>3, <2>7, <2>8 DEF PiecesDontMatter
  <2>12. Newlines(line_buf)' = {}
    BY <2>3, <2>7, <2>8
  <2> QED
    BY <2>3, <2>7, <2>9, <2>10, <2>11, <2>12 DEF LineInv
<1>2. CASE UNCHANGED line_vars
  BY <1>2 DEF line_vars, LineInv, PiecesDontMatter
<1> QED
  BY <1>1, <1>2 DEF LineNext

(* Wherever read() ends the pieces of an input, of any length and with a    *)
(* buffer of any size, the lines that process_buffer() finds in them are   *)
(* those that are found character by character.                            *)
THEOREM PiecesAreLines == LineSpec => []PiecesDontMatter
<1>1. LineInv => PiecesDontMatter
  BY DEF LineInv
<1> QED
  BY <1>1, LineInitHolds, LineStep, PTL DEF LineSpec
=============================================================================
