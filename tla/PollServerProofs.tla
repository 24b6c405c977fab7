-------------------------- MODULE PollServerProofs --------------------------
(***************************************************************************)
(* Proofs about PollServer for any clients, slots and sizes of the pipe.   *)
(***************************************************************************)
EXTENDS PollServer, SequenceTheorems, FiniteSetTheorems, TLAPS

(* The commands of a connection. *)
Own(c) == {cmd \in Command : cmd.by = c}

(* A slot has a connection of its own, as long as the server keeps it.     *)
Connected ==
  /\ \A s \in Slot : fd[s] # NOBODY => link[fd[s]] \in {"open", "hung"}
  /\ \A s, t \in Slot : fd[s] = fd[t] /\ fd[s] # NOBODY => s = t

(* What poll() has reported is about the clients that it has polled: a     *)
(* slot is left, and what has come received, only in its own turn.         *)
Reports ==
  /\ pc \in {"loop", "poll", "destroy", "ended", "aborted"} => revents = {}
  /\ \A s \in Slot : Named(s) # {} => fd[s] # NOBODY
  /\ \A s \in Slot : Reported(s, "POLLIN") => stream[fd[s]] # <<>>

(* A get is under way in one place, and none has a number that is still to *)
(* be given.                                                               *)
Numbered ==
  /\ IsFiniteSet(waiting) /\ IsFiniteSet(InPipe)
  /\ \A r \in waiting \cup InPipe : r.id < asked
  /\ \A j, k \in 1..Len(pipe) : pipe[j] = pipe[k] => j = k
  /\ waiting \cap InPipe = {}

(* What a connection has sent, and what is in its buffers, is its own.     *)
OwnData ==
  /\ \A c \in Conn : stream[c] \in Seq(Own(c)) /\ received[c] \in Seq(Own(c))
  /\ \A s \in Slot :
       /\ fd[s] = NOBODY => wrbuf[s] = <<>>
       /\ fd[s] # NOBODY => buf[s] \in Seq(Own(fd[s])) /\ wrbuf[s] \in Seq(Own(fd[s]))

(* And so is what is under way for it.                                     *)
OwnGets ==
  \A s \in Slot : fd[s] # NOBODY => \A r \in UnderWay(s) : r.cmd.by = fd[s]

(* Neither the count of the gets nor the owner of an answer is inductive:  *)
(* a get that is answered has to be one that was counted, for the client   *)
(* that the slot still has, and the slot of an event one with a client.    *)
PollInv ==
  PollTypeOK /\ Connected /\ Reports /\ Numbered /\ QueueCount /\ OwnData /\ OwnGets

-----------------------------------------------------------------------------
(* The gets under way *)

LEMMA UnderWayFinite ==
  ASSUME Numbered, NEW s \in Slot
  PROVE  IsFiniteSet(UnderWay(s))
<1>1. IsFiniteSet(waiting \cup InPipe)
  BY FS_Union DEF Numbered
<1> QED
  BY <1>1, FS_Subset DEF UnderWay

LEMMA SameGets ==
  ASSUME Numbered, UNCHANGED <<waiting, asked, pipe>>
  PROVE  Numbered' /\ \A s \in Slot : UnderWay(s)' = UnderWay(s)
BY DEF Numbered, InPipe, UnderWay

(* The database answers: what has waited is in the pipe.                   *)
LEMMA Responded ==
  ASSUME PollTypeOK, Numbered, NEW r \in waiting, async_response(r)
  PROVE  /\ waiting' \subseteq Request /\ pipe' \in Seq(Request)
         /\ Numbered' /\ \A s \in Slot : UnderWay(s)' = UnderWay(s)
<1>1. /\ r \in Request /\ pipe \in Seq(Request)
      /\ waiting' = waiting \ {r} /\ pipe' = Append(pipe, r) /\ asked' = asked
  BY DEF async_response, PollTypeOK
<1>2. /\ pipe' \in Seq(Request) /\ Len(pipe') = Len(pipe) + 1 /\ Len(pipe) \in Nat
      /\ \A k \in 1..Len(pipe) : pipe'[k] = pipe[k]
      /\ pipe'[Len(pipe) + 1] = r
  BY <1>1, AppendProperties, LenProperties
<1>3. InPipe' = InPipe \cup {r}
  BY <1>2 DEF InPipe
<1>4. r \notin InPipe
  BY DEF Numbered
<1>5. IsFiniteSet(waiting') /\ IsFiniteSet(InPipe')
  BY <1>1, <1>3, FS_AddElement, FS_RemoveElement DEF Numbered
<1>6. \A j, k \in 1..Len(pipe') : pipe'[j] = pipe'[k] => j = k
  BY <1>2, <1>4 DEF Numbered, InPipe
<1>7. Numbered'
  BY <1>1, <1>3, <1>4, <1>5, <1>6 DEF Numbered
<1> QED
  BY <1>1, <1>2, <1>3, <1>7 DEF UnderWay, PollTypeOK

(* The server takes an answer out of the pipe.                             *)
LEMMA TakenOut ==
  ASSUME PollTypeOK, Numbered, pipe # <<>>, pipe' = Tail(pipe), UNCHANGED <<waiting, asked>>
  PROVE  /\ pipe' \in Seq(Request) /\ Head(pipe) \in Request
         /\ Head(pipe) \in UnderWay(Head(pipe).slot)
         /\ Numbered'
         /\ \A s \in Slot : UnderWay(s)' = UnderWay(s) \ {Head(pipe)}
<1> DEFINE r == Head(pipe)
<1>1. /\ pipe \in Seq(Request) /\ Len(pipe) \in Nat /\ Len(pipe) > 0
      /\ r = pipe[1] /\ r \in Request
  BY HeadTailProperties, LenProperties, EmptySeq DEF PollTypeOK
<1>2. /\ pipe' \in Seq(Request) /\ Len(pipe') = Len(pipe) - 1
      /\ \A k \in 1..Len(pipe') : pipe'[k] = pipe[k + 1]
  BY <1>1, HeadTailProperties, EmptySeq
<1>3. InPipe' = InPipe \ {r}
  <2>1. \A k \in 1..Len(pipe) : pipe[k] # r => k > 1 /\ pipe[k] = pipe'[k - 1]
    BY <1>1, <1>2
  <2>2. \A k \in 1..Len(pipe') : pipe'[k] \in InPipe /\ pipe'[k] # r
    BY <1>1, <1>2 DEF Numbered, InPipe
  <2> QED
    BY <1>1, <1>2, <2>1, <2>2 DEF InPipe
<1>4. r \in InPipe /\ r \notin waiting
  BY <1>1 DEF InPipe, Numbered
<1>5. IsFiniteSet(InPipe')
  BY <1>3, FS_RemoveElement DEF Numbered
<1>6. \A j, k \in 1..Len(pipe') : pipe'[j] = pipe'[k] => j = k
  BY <1>1, <1>2 DEF Numbered
<1>7. Numbered'
  BY <1>3, <1>5, <1>6 DEF Numbered
<1> HIDE DEF r
<1> QED
  BY <1>1, <1>2, <1>3, <1>4, <1>7 DEF UnderWay, r

(* A get is asked of the database.                                         *)
LEMMA AskedFor ==
  ASSUME PollTypeOK, Numbered, NEW s \in Slot, NEW cmd \in Command,
         waiting' = waiting \cup {[id |-> asked, slot |-> s, cmd |-> cmd]},
         asked' = asked + 1, pipe' = pipe
  PROVE  /\ waiting' \subseteq Request /\ Numbered'
         /\ \A t \in Slot \ {s} : UnderWay(t)' = UnderWay(t)
         /\ UnderWay(s)' = UnderWay(s) \cup {[id |-> asked, slot |-> s, cmd |-> cmd]}
         /\ [id |-> asked, slot |-> s, cmd |-> cmd] \notin UnderWay(s)
<1> DEFINE r == [id |-> asked, slot |-> s, cmd |-> cmd]
<1>1. r \in Request /\ r.id = asked /\ r.slot = s
  BY DEF Request, PollTypeOK
<1>2. InPipe' = InPipe
  BY DEF InPipe
<1>3. r \notin waiting \cup InPipe
  BY <1>1 DEF Numbered, PollTypeOK
<1>4. IsFiniteSet(waiting')
  BY FS_AddElement DEF Numbered
<1>5. \A q \in waiting \cup InPipe : q.id \in Nat
  <2>1. \A k \in 1..Len(pipe) : pipe[k] \in Request
    BY ElementOfSeq DEF PollTypeOK
  <2> QED
    BY <2>1 DEF PollTypeOK, Request, InPipe
<1>6. Numbered'
  <2>1. IsFiniteSet(waiting') /\ IsFiniteSet(InPipe')
    BY <1>2, <1>4 DEF Numbered
  <2>2. \A q \in waiting' \cup InPipe' : q.id < asked'
    BY <1>1, <1>2, <1>5 DEF Numbered, PollTypeOK
  <2>3. waiting' \cap InPipe' = {}
    BY <1>2, <1>3 DEF Numbered
  <2> QED
    BY <2>1, <2>2, <2>3 DEF Numbered
<1> QED
  BY <1>1, <1>2, <1>3, <1>6 DEF UnderWay, PollTypeOK

-----------------------------------------------------------------------------
(* The clients, the signal and the database *)

LEMMA InitHolds == PollInit => PollInv
<1> SUFFICES ASSUME PollInit
             PROVE  PollInv
  OBVIOUS
<1>1. PollTypeOK
  BY PollAssumption, EmptySeq DEF PollInit, PollTypeOK, Link, Place
<1>2. Connected /\ Reports
  BY DEF PollInit, Connected, Reports, Named, Reported
<1>3. InPipe = {} /\ \A s \in Slot : UnderWay(s) = {}
  BY EmptySeq DEF PollInit, InPipe, UnderWay
<1>4. Numbered
  BY <1>3, EmptySeq, FS_EmptySet DEF PollInit, Numbered
<1>5. QueueCount
  BY <1>3, FS_EmptySet DEF PollInit, QueueCount
<1>6. OwnData /\ OwnGets
  BY <1>3, EmptySeq DEF PollInit, OwnData, OwnGets
<1> QED
  BY <1>1, <1>2, <1>4, <1>5, <1>6 DEF PollInv

(* A step that touches neither the slots nor the gets.                     *)
LEMMA SlotsStay ==
  ASSUME PollInv, UNCHANGED <<slot_vars, db_vars, pipe>>
  PROVE  /\ Numbered' /\ QueueCount' /\ OwnGets'
         /\ (OwnData' <=> \A c \in Conn : stream'[c] \in Seq(Own(c)) /\ received'[c] \in Seq(Own(c)))
<1>1. UNCHANGED <<fd, state, queue_cnt, buf, wrbuf, waiting, asked, pipe>>
  BY DEF slot_vars, db_vars
<1>2. Numbered' /\ \A s \in Slot : UnderWay(s)' = UnderWay(s)
  BY <1>1, SameGets DEF PollInv
<1> QED
  BY <1>1, <1>2 DEF PollInv, QueueCount, OwnGets, OwnData

LEMMA ClientKeeps == ASSUME PollInv, NEW c \in Conn, client_acts(c)
                     PROVE  PollInv'
<1>1. UNCHANGED <<running, pc, revents, slot_vars, db_vars, pipe>>
  BY DEF client_acts
<1>2. CASE Connect(c)
  <2>1. link[c] = "none" /\ link' = [link EXCEPT ![c] = "backlog"]
        /\ UNCHANGED <<sent, stream, received>>
    BY <1>2 DEF Connect
  <2>2. PollTypeOK'
    BY <1>1, <2>1 DEF PollInv, PollTypeOK, Link, slot_vars, db_vars
  <2>3. Connected' /\ Reports'
    BY <1>1, <2>1 DEF PollInv, PollTypeOK, Connected, Reports, Named, Reported, slot_vars
  <2> QED
    BY <1>1, <2>1, <2>2, <2>3, SlotsStay DEF PollInv, OwnData
<1>3. CASE Send(c)
  <2>1. PICK t \in {"get", "set"} :
          stream' = [stream EXCEPT ![c] = Append(@, [by |-> c, n |-> sent[c] + 1, kind |-> t])]
    BY <1>3 DEF Send, PollInv, PollTypeOK
  <2>2. sent' = [sent EXCEPT ![c] = @ + 1] /\ UNCHANGED <<link, received>>
    BY <1>3 DEF Send
  <2> DEFINE cmd == [by |-> c, n |-> sent[c] + 1, kind |-> t]
  <2>3. cmd \in Own(c) /\ cmd \in Command
    BY DEF Own, Command, PollInv, PollTypeOK
  <2> HIDE DEF cmd
  <2>4. /\ Append(stream[c], cmd) \in Seq(Own(c)) /\ Append(stream[c], cmd) \in Seq(Command)
        /\ Append(stream[c], cmd) # <<>>
    <3>1. stream[c] \in Seq(Own(c)) /\ stream[c] \in Seq(Command)
      BY DEF PollInv, PollTypeOK, OwnData
    <3> QED
      BY <2>3, <3>1, AppendProperties
  <2>5. PollTypeOK'
    BY <1>1, <2>1, <2>2, <2>4 DEF PollInv, PollTypeOK, slot_vars, db_vars, cmd
  <2>6. Connected' /\ Reports'
    BY <1>1, <2>1, <2>2, <2>4
       DEF PollInv, PollTypeOK, Connected, Reports, Named, Reported, slot_vars, cmd
  <2>7. \A d \in Conn : stream'[d] \in Seq(Own(d)) /\ received'[d] \in Seq(Own(d))
    BY <2>1, <2>2, <2>4 DEF PollInv, PollTypeOK, OwnData, cmd
  <2> QED
    BY <1>1, <2>5, <2>6, <2>7, SlotsStay DEF PollInv
<1>4. CASE HangUp(c)
  <2>1. link[c] = "open" /\ link' = [link EXCEPT ![c] = "hung"]
        /\ UNCHANGED <<sent, stream, received>>
    BY <1>4 DEF HangUp
  <2>2. PollTypeOK'
    BY <1>1, <2>1 DEF PollInv, PollTypeOK, Link, slot_vars, db_vars
  <2>3. Connected' /\ Reports'
    BY <1>1, <2>1 DEF PollInv, PollTypeOK, Connected, Reports, Named, Reported, slot_vars
  <2> QED
    BY <1>1, <2>1, <2>2, <2>3, SlotsStay DEF PollInv, OwnData
<1> QED
  BY <1>2, <1>3, <1>4 DEF client_acts

LEMMA SignalKeeps == ASSUME PollInv, term_handler
                     PROVE  PollInv'
<1>1. /\ UNCHANGED <<client_vars, revents, slot_vars, db_vars, pipe>>
      /\ running' = FALSE /\ (pc' = pc \/ (pc = "poll" /\ pc' = "loop"))
  BY DEF term_handler, go
<1>2. PollTypeOK'
  BY <1>1 DEF PollInv, PollTypeOK, Place, client_vars, slot_vars, db_vars
<1>3. Connected' /\ Reports'
  BY <1>1 DEF PollInv, Connected, Reports, Named, Reported, client_vars, slot_vars
<1> QED
  BY <1>1, <1>2, <1>3, SlotsStay DEF PollInv, OwnData, client_vars

LEMMA ResponseKeeps == ASSUME PollInv, NEW r \in waiting, async_response(r)
                       PROVE  PollInv'
<1>1. UNCHANGED <<client_vars, running, pc, revents, slot_vars, asked>>
  BY DEF async_response
<1>2. /\ waiting' \subseteq Request /\ pipe' \in Seq(Request)
      /\ Numbered' /\ \A s \in Slot : UnderWay(s)' = UnderWay(s)
  BY Responded DEF PollInv
<1>3. PollTypeOK'
  BY <1>1, <1>2 DEF PollInv, PollTypeOK, client_vars, slot_vars
<1>4. Connected' /\ Reports' /\ OwnData'
  BY <1>1 DEF PollInv, Connected, Reports, Named, Reported, OwnData, client_vars, slot_vars
<1>5. QueueCount' /\ OwnGets'
  BY <1>1, <1>2 DEF PollInv, QueueCount, OwnGets, slot_vars
<1> QED
  BY <1>2, <1>3, <1>4, <1>5 DEF PollInv

-----------------------------------------------------------------------------
(* The loop of the server *)

LEMMA LoopKeeps ==
  ASSUME PollInv, test_running \/ poll \/ process_control_end \/ poll_end \/ destroy_server
  PROVE  PollInv'
<1>1. UNCHANGED <<client_vars, running, slot_vars, db_vars, pipe>>
  BY DEF test_running, poll, process_control_end, poll_end, destroy_server
<1>2. CASE poll
  <2>1. revents' = Events /\ pc' \in {"control", "fds"}
    BY <1>2 DEF poll, go
  <2>2. Events \subseteq (0..controlfd) \X {"POLLIN", "POLLOUT", "POLLHUP"}
    BY PollAssumption DEF Events, Slot, controlfd, bindedfd
  <2>3. PollTypeOK'
    BY <1>1, <2>1, <2>2 DEF PollInv, PollTypeOK, Place, client_vars, slot_vars, db_vars
  <2>4. \A s \in Slot : \A what : <<s, what>> \in Events =>
          fd[s] # NOBODY /\ (what = "POLLIN" => stream[fd[s]] # <<>>)
    <3>1. \A s \in Slot : s # controlfd /\ s # bindedfd
      BY PollAssumption DEF Slot, controlfd, bindedfd
    <3> QED
      BY <3>1 DEF Events
  <2>5. \A s \in Slot : Named(s)' # {} => \E what : <<s, what>> \in Events
    <3>1. \A event \in Events : event = <<event[1], event[2]>>
      BY <2>2
    <3> QED
      BY <2>1, <3>1 DEF Named
  <2>6. Connected' /\ Reports'
    BY <1>1, <2>1, <2>4, <2>5
       DEF PollInv, Connected, Reports, Reported, client_vars, slot_vars
  <2> QED
    BY <1>1, <2>3, <2>6, SlotsStay DEF PollInv, OwnData, client_vars
<1>3. CASE test_running \/ process_control_end \/ poll_end \/ destroy_server
  <2>1. revents' = revents \/ revents' = {}
    BY <1>3 DEF test_running, process_control_end, poll_end, destroy_server
  <2>2. /\ pc' \in Place
        /\ pc' \in {"loop", "poll", "destroy", "ended", "aborted"} => revents' = {}
    BY <1>3 DEF PollInv, Reports, Place, test_running, process_control_end, poll_end,
                destroy_server, go
  <2>3. PollTypeOK'
    BY <1>1, <2>1, <2>2 DEF PollInv, PollTypeOK, client_vars, slot_vars, db_vars
  <2>4. Connected' /\ Reports'
    BY <1>1, <2>1, <2>2
       DEF PollInv, Connected, Reports, Named, Reported, client_vars, slot_vars
  <2> QED
    BY <1>1, <2>3, <2>4, SlotsStay DEF PollInv, OwnData, client_vars
<1> QED
  BY <1>2, <1>3

(* An answer of the database is given to the client that the slot has.     *)
LEMMA ControlKeeps == ASSUME PollInv, process_control
                      PROVE  PollInv'
<1>1. /\ pipe # <<>> /\ pipe' = Tail(pipe)
      /\ UNCHANGED <<client_vars, running, pc, revents, fd, buf, db_vars>>
  BY DEF process_control
<1>2. PICK r \in Request, s \in Slot :
        /\ r = Head(pipe) /\ s = r.slot /\ r \in UnderWay(s)
        /\ \A t \in Slot : UnderWay(t)' = UnderWay(t) \ {r}
  BY <1>1, TakenOut DEF PollInv, db_vars, Request
<1>3. /\ pipe' \in Seq(Request) /\ Numbered'
      /\ \A t \in Slot \ {s} : UnderWay(t)' = UnderWay(t)
  BY <1>1, <1>2, TakenOut DEF PollInv, db_vars, UnderWay
<1>4. /\ queue_cnt' = [queue_cnt EXCEPT ![s] = @ - 1]
      /\ state' = IF state[s] = "WAIT" /\ queue_cnt[s] = 1
                  THEN [state EXCEPT ![s] = "SHUT"] ELSE state
      /\ IF fd[s] = NOBODY THEN UNCHANGED <<wrbuf, pollout>>
         ELSE /\ wrbuf' = [wrbuf EXCEPT ![s] = Append(@, r.cmd)]
              /\ pollout' = [pollout EXCEPT ![s] = TRUE]
  BY <1>2 DEF process_control, answered
<1>5. /\ IsFiniteSet(UnderWay(s)) /\ Cardinality(UnderWay(s)) \in Nat
      /\ Cardinality(UnderWay(s)) # 0
      /\ Cardinality(UnderWay(s))' = Cardinality(UnderWay(s)) - 1
  <2>1. IsFiniteSet(UnderWay(s)) /\ Cardinality(UnderWay(s)) \in Nat
    BY UnderWayFinite, FS_CardinalityType DEF PollInv
  <2>2. Cardinality(UnderWay(s)) # 0
    BY <1>2, <2>1, FS_EmptySet
  <2>3. Cardinality(UnderWay(s) \ {r}) = Cardinality(UnderWay(s)) - 1
    BY <1>2, <2>1, FS_RemoveElement
  <2> QED
    BY <1>2, <2>1, <2>2, <2>3
<1>6. queue_cnt[s] = Cardinality(UnderWay(s)) /\ state[s] # "SHUT"
  BY <1>2, <1>5 DEF PollInv, QueueCount
<1>7. QueueCount'
  BY <1>1, <1>4, <1>2, <1>3, <1>5, <1>6 DEF PollInv, QueueCount, PollTypeOK
<1>8. fd[s] # NOBODY => /\ wrbuf'[s] \in Seq(Own(fd[s])) /\ wrbuf'[s] \in Seq(Command)
                        /\ \A t \in Slot \ {s} : wrbuf'[t] = wrbuf[t]
  <2> SUFFICES ASSUME fd[s] # NOBODY
               PROVE  /\ wrbuf'[s] \in Seq(Own(fd[s])) /\ wrbuf'[s] \in Seq(Command)
                      /\ \A t \in Slot \ {s} : wrbuf'[t] = wrbuf[t]
    OBVIOUS
  <2>1. r.cmd \in Own(fd[s]) /\ r.cmd \in Command
    BY <1>2 DEF PollInv, OwnGets, Own, Request
  <2>2. wrbuf[s] \in Seq(Own(fd[s])) /\ wrbuf[s] \in Seq(Command)
    BY <1>2 DEF PollInv, OwnData, PollTypeOK
  <2>3. wrbuf' = [wrbuf EXCEPT ![s] = Append(@, r.cmd)]
    BY <1>4
  <2>4. /\ wrbuf'[s] = Append(wrbuf[s], r.cmd)
        /\ \A t \in Slot \ {s} : wrbuf'[t] = wrbuf[t]
    BY <1>2, <2>3 DEF PollInv, PollTypeOK
  <2> QED
    BY <2>1, <2>2, <2>4, AppendProperties
<1>9. PollTypeOK'
  <2>1. queue_cnt' \in [Slot -> Nat]
    BY <1>4, <1>2, <1>5, <1>6 DEF PollInv, PollTypeOK
  <2>2. wrbuf' \in [Slot -> Seq(Command)] /\ pollout' \in [Slot -> BOOLEAN]
    BY <1>4, <1>2, <1>8 DEF PollInv, PollTypeOK
  <2>3. state' \in [Slot -> {"SHUT", "OPEN", "WAIT"}]
    BY <1>4, <1>2 DEF PollInv, PollTypeOK
  <2> QED
    BY <1>1, <1>2, <1>3, <2>1, <2>2, <2>3 DEF PollInv, PollTypeOK, client_vars, db_vars
<1>10. Connected' /\ Reports'
  BY <1>1 DEF PollInv, Connected, Reports, Named, Reported, client_vars
<1>11. OwnData'
  BY <1>1, <1>4, <1>2, <1>8 DEF PollInv, OwnData, client_vars
<1>12. OwnGets'
  BY <1>1, <1>2 DEF PollInv, OwnGets
<1> QED
  BY <1>3, <1>7, <1>9, <1>10, <1>11, <1>12 DEF PollInv

(* A slot that is given to a new connection has no get under way.          *)
LEMMA AcceptKeeps == ASSUME PollInv, accept_connection
                     PROVE  PollInv'
<1>1. PICK c \in Conn :
        /\ link[c] = "backlog"
        /\ \/ /\ \E s \in Slot : add_fd(c, s)
              /\ link' = [link EXCEPT ![c] = "open"]
           \/ /\ link' = [link EXCEPT ![c] = "closed"]
              /\ UNCHANGED <<fd, queue_cnt, state, buf>>
  BY DEF accept_connection
<1>2. /\ pc = "fds" /\ revents' = revents \ Named(bindedfd)
      /\ UNCHANGED <<sent, stream, received, running, pc, pollout, wrbuf, db_vars, pipe>>
  BY DEF accept_connection
<1>3. \A s \in Slot : fd[s] # c
  BY <1>1, PollAssumption DEF PollInv, Connected
<1>4. Numbered' /\ \A s \in Slot : UnderWay(s)' = UnderWay(s)
  BY <1>2, SameGets DEF PollInv, db_vars
<1>5. revents' \subseteq revents /\ pc' = "fds"
  BY <1>2
<1>6. CASE link' = [link EXCEPT ![c] = "closed"] /\ UNCHANGED <<fd, queue_cnt, state, buf>>
  <2>1. PollTypeOK'
    BY <1>2, <1>5, <1>6 DEF PollInv, PollTypeOK, Link, db_vars
  <2>2. Connected' /\ Reports'
    BY <1>2, <1>3, <1>5, <1>6 DEF PollInv, PollTypeOK, Connected, Reports, Named, Reported
  <2>3. QueueCount' /\ OwnData' /\ OwnGets'
    BY <1>2, <1>4, <1>6 DEF PollInv, QueueCount, OwnData, OwnGets
  <2> QED
    BY <1>4, <2>1, <2>2, <2>3 DEF PollInv
<1>7. ASSUME NEW s \in Slot, add_fd(c, s), link' = [link EXCEPT ![c] = "open"]
      PROVE  PollInv'
  <2>1. /\ state[s] = "SHUT"
        /\ fd' = [fd EXCEPT ![s] = c] /\ queue_cnt' = [queue_cnt EXCEPT ![s] = 0]
        /\ state' = [state EXCEPT ![s] = "OPEN"] /\ buf' = [buf EXCEPT ![s] = <<>>]
    BY <1>7 DEF add_fd, Free
  <2>2. /\ fd[s] = NOBODY /\ queue_cnt[s] = 0 /\ UnderWay(s) = {}
        /\ Cardinality(UnderWay(s)) = 0
    BY <2>1, UnderWayFinite, FS_EmptySet DEF PollInv, QueueCount
  <2>3. PollTypeOK'
    BY <1>2, <1>5, <1>7, <2>1, EmptySeq DEF PollInv, PollTypeOK, Link, db_vars
  <2>4. Named(s) = {} /\ \A what : ~Reported(s, what)'
    BY <1>5, <2>2 DEF PollInv, Reports, Named, Reported
  <2>5. Connected' /\ Reports'
    <3>1. Connected'
      BY <1>3, <1>7, <2>1 DEF PollInv, PollTypeOK, Connected
    <3>2. Reports'
      BY <1>2, <1>5, <2>1, <2>4, PollAssumption
         DEF PollInv, PollTypeOK, Reports, Named, Reported
    <3> QED
      BY <3>1, <3>2
  <2>6. QueueCount'
    BY <1>4, <2>1, <2>2, PollAssumption DEF PollInv, PollTypeOK, QueueCount
  <2>7. OwnData' /\ OwnGets'
    <3>1. wrbuf'[s] = <<>> /\ buf'[s] = <<>> /\ fd'[s] = c
      BY <1>2, <2>1, <2>2 DEF PollInv, PollTypeOK, OwnData
    <3>2. \A t \in Slot \ {s} : fd'[t] = fd[t] /\ buf'[t] = buf[t] /\ wrbuf'[t] = wrbuf[t]
      BY <1>2, <2>1 DEF PollInv, PollTypeOK
    <3>3. OwnData'
      BY <1>2, <3>1, <3>2, EmptySeq, PollAssumption DEF PollInv, OwnData
    <3>4. OwnGets'
      BY <1>4, <2>2, <3>1, <3>2 DEF PollInv, OwnGets
    <3> QED
      BY <3>3, <3>4
  <2> QED
    BY <1>4, <2>3, <2>5, <2>6, <2>7 DEF PollInv
<1> QED
  BY <1>1, <1>6, <1>7

-----------------------------------------------------------------------------
(* The turn of a client *)

(* It is one whose events were reported, and that the slot still has.      *)
LEMMA Turn ==
  ASSUME PollInv, NEW s \in Slot, turn(s)
  PROVE  /\ pc = "fds" /\ fd[s] # NOBODY /\ fd[s] \in Conn /\ revents' \subseteq revents
         /\ \A t \in Slot \ {s} : fd[t] # fd[s]
         /\ \A t \in Slot : Named(t)' \subseteq Named(t)
         /\ Named(s)' = {} /\ \A what : ~Reported(s, what)'
BY DEF turn, PollInv, PollTypeOK, Connected, Reports, Named, Reported

(* remove_connection() of a slot with so many gets under way.              *)
LEMMA Removed ==
  ASSUME PollInv, NEW s \in Slot, fd[s] # NOBODY, NEW gets \in Nat, remove(s, gets)
  PROVE  /\ link' \in [Conn -> Link] /\ fd' \in [Slot -> Conn \cup {NOBODY}]
         /\ state' \in [Slot -> {"SHUT", "OPEN", "WAIT"}] /\ wrbuf' \in [Slot -> Seq(Command)]
         /\ fd'[s] = NOBODY /\ wrbuf'[s] = <<>>
         /\ state'[s] = IF gets = 0 THEN "SHUT" ELSE "WAIT"
         /\ \A t \in Slot \ {s} :
              fd'[t] = fd[t] /\ state'[t] = state[t] /\ wrbuf'[t] = wrbuf[t]
         /\ Connected'
<1>1. fd[s] \in Conn
  BY DEF PollInv, PollTypeOK
<1> QED
  BY <1>1, EmptySeq DEF remove, PollInv, PollTypeOK, Link, Connected

LEMMA GoneKeeps == ASSUME PollInv, NEW s \in Slot, process_client_gone(s)
                   PROVE  PollInv'
<1>1. /\ turn(s) /\ remove(s, queue_cnt[s])
      /\ UNCHANGED <<sent, stream, received, running, pc, pollout, queue_cnt, buf, db_vars, pipe>>
  BY DEF process_client_gone
<1>2. queue_cnt[s] \in Nat
  BY DEF PollInv, PollTypeOK
<1>3. Numbered' /\ \A t \in Slot : UnderWay(t)' = UnderWay(t)
  BY <1>1, SameGets DEF PollInv, db_vars
<1>4. PollTypeOK' /\ Connected'
  BY <1>1, <1>2, Turn, Removed DEF PollInv, PollTypeOK, db_vars
<1>5. Reports'
  BY <1>1, <1>2, Turn, Removed DEF PollInv, Reports, Reported
<1>6. QueueCount'
  BY <1>1, <1>2, <1>3, Turn, Removed DEF PollInv, QueueCount
<1>7. OwnData'
  BY <1>1, <1>2, Turn, Removed DEF PollInv, OwnData
<1>8. OwnGets'
  BY <1>1, <1>2, <1>3, Turn, Removed DEF PollInv, OwnGets
<1> QED
  BY <1>3, <1>4, <1>5, <1>6, <1>7, <1>8 DEF PollInv

(* The replies sent and those left are the client's own, and so is one     *)
(* that was made for it.                                                   *)
LEMMA SentOwn ==
  ASSUME NEW S, NEW got \in Seq(S), NEW extra \in Seq(S), NEW w \in Seq(S), NEW k \in 1..Len(w)
  PROVE  /\ got \o extra \o SubSeq(w, 1, k) \in Seq(S)
         /\ SubSeq(w, k + 1, Len(w)) \in Seq(S)
<1>1. Len(w) \in Nat /\ \A j \in 1..Len(w) : w[j] \in S
  BY LenProperties, ElementOfSeq
<1>2. SubSeq(w, 1, k) \in Seq(S) /\ SubSeq(w, k + 1, Len(w)) \in Seq(S)
  BY <1>1, SubSeqProperties
<1> QED
  BY <1>2, ConcatProperties

LEMMA OutputOwn ==
  ASSUME PollInv, NEW s \in Slot, fd[s] \in Conn, fd[s] # NOBODY,
         NEW extra \in Seq(Own(fd[s])), output(s, extra)
  PROVE  /\ \E g \in Seq(Own(fd[s])) : received' = [received EXCEPT ![fd[s]] = g]
         /\ \E w \in Seq(Own(fd[s])) : wrbuf' = [wrbuf EXCEPT ![s] = w]
         /\ pollout' \in [Slot -> BOOLEAN]
<1>1. received[fd[s]] \in Seq(Own(fd[s])) /\ wrbuf[s] \in Seq(Own(fd[s]))
  BY DEF PollInv, OwnData
<1>2. CASE send_wrbuffer(s, extra)
  <2>1. PICK k \in 1..Len(wrbuf[s]) :
          /\ received' = [received EXCEPT ![fd[s]] = @ \o extra \o SubSeq(wrbuf[s], 1, k)]
          /\ wrbuf' = [wrbuf EXCEPT ![s] = SubSeq(@, k + 1, Len(@))]
          /\ pollout' = [pollout EXCEPT ![s] = wrbuf'[s] # <<>>]
    BY <1>2 DEF send_wrbuffer
  <2>2. /\ received[fd[s]] \o extra \o SubSeq(wrbuf[s], 1, k) \in Seq(Own(fd[s]))
        /\ SubSeq(wrbuf[s], k + 1, Len(wrbuf[s])) \in Seq(Own(fd[s]))
    BY <1>1, SentOwn
  <2>3. pollout' \in [Slot -> BOOLEAN]
    BY <2>1 DEF PollInv, PollTypeOK
  <2> QED
    BY <2>1, <2>2, <2>3
<1>3. CASE /\ received' = [received EXCEPT ![fd[s]] = @ \o extra] /\ UNCHANGED wrbuf
           /\ pollout' \in {pollout, [pollout EXCEPT ![s] = FALSE]}
  <2>1. received[fd[s]] \o extra \in Seq(Own(fd[s]))
    BY <1>1, ConcatProperties
  <2>2. wrbuf = [wrbuf EXCEPT ![s] = wrbuf[s]] /\ pollout' \in [Slot -> BOOLEAN]
    BY <1>3 DEF PollInv, PollTypeOK
  <2> QED
    BY <1>1, <1>3, <2>1, <2>2
<1> QED
  BY <1>2, <1>3 DEF output

(* What is the connection's own has the type of all commands.              *)
LEMMA OwnTyped ==
  ASSUME NEW c, NEW q \in Seq(Own(c))
  PROVE  q \in Seq(Command)
BY SeqMonotonic DEF Own

LEMMA OutputKeeps == ASSUME PollInv, NEW s \in Slot, process_client_output(s)
                     PROVE  PollInv'
<1>1. /\ turn(s) /\ output(s, <<>>)
      /\ UNCHANGED <<link, sent, stream, running, pc, fd, state, queue_cnt, buf, db_vars, pipe>>
  BY DEF process_client_output
<1>2. fd[s] \in Conn /\ fd[s] # NOBODY
  BY <1>1, Turn
<1>3. PICK g \in Seq(Own(fd[s])), w \in Seq(Own(fd[s])) :
        /\ received' = [received EXCEPT ![fd[s]] = g]
        /\ wrbuf' = [wrbuf EXCEPT ![s] = w] /\ pollout' \in [Slot -> BOOLEAN]
  BY <1>1, <1>2, OutputOwn, EmptySeq
<1>4. Numbered' /\ \A t \in Slot : UnderWay(t)' = UnderWay(t)
  BY <1>1, SameGets DEF PollInv, db_vars
<1>5. PollTypeOK'
  BY <1>1, <1>2, <1>3, Turn, OwnTyped DEF PollInv, PollTypeOK, db_vars
<1>6. Connected' /\ Reports'
  BY <1>1, Turn DEF PollInv, Connected, Reports, Reported
<1>7. QueueCount' /\ OwnGets'
  BY <1>1, <1>4 DEF PollInv, QueueCount, OwnGets
<1>8. OwnData'
  BY <1>1, <1>2, <1>3 DEF PollInv, PollTypeOK, OwnData
<1> QED
  BY <1>4, <1>5, <1>6, <1>7, <1>8 DEF PollInv

(* What was received is the client's own, so that a get it asks for is     *)
(* counted and answered for it.                                            *)
LEMMA InputKeeps == ASSUME PollInv, NEW s \in Slot, process_client_input(s)
                    PROVE  PollInv'
<1> DEFINE c == fd[s]
           all == buf[s] \o stream[fd[s]]
           r == [id |-> asked, slot |-> s, cmd |-> Head(all)]
<1>1. /\ turn(s) /\ Reported(s, "POLLIN")
      /\ buf' = [buf EXCEPT ![s] = Tail(all)]
      /\ stream' = [stream EXCEPT ![fd[s]] = <<>>]
      /\ IF Head(all).kind = "get"
         THEN /\ queue_cnt' = [queue_cnt EXCEPT ![s] = @ + 1]
              /\ waiting' = waiting \cup {r} /\ asked' = asked + 1
         ELSE UNCHANGED <<queue_cnt, waiting, asked>>
      /\ \/ /\ output(s, IF Head(all).kind = "get" THEN <<>> ELSE <<Head(all)>>)
            /\ UNCHANGED <<link, fd, state>>
         \/ remove(s, queue_cnt'[s]) /\ UNCHANGED <<received, pollout>>
      /\ UNCHANGED <<sent, running, pc, pipe>>
  BY DEF process_client_input
<1>2. c \in Conn /\ c # NOBODY
  BY <1>1, Turn
<1>3. Head(all) \in Own(c) /\ Tail(all) \in Seq(Own(c)) /\ <<Head(all)>> \in Seq(Own(c))
  <2>1. /\ buf[s] \in Seq(Own(c)) /\ stream[c] \in Seq(Own(c)) /\ stream[c] # <<>>
    BY <1>1, <1>2 DEF PollInv, OwnData, Reports
  <2>2. all \in Seq(Own(c)) /\ all # <<>>
    BY <2>1, ConcatProperties, ConcatEqualIffEmpty
  <2> HIDE DEF all, c
  <2>3. Head(all) \in Own(c) /\ Tail(all) \in Seq(Own(c))
    BY <2>2, HeadTailProperties
  <2> QED
    BY <2>3
<1>4. Head(all) \in Command /\ Head(all).by = c /\ Tail(all) \in Seq(Command)
  BY <1>2, <1>3, OwnTyped DEF Own
<1> HIDE DEF all
<1>5. PICK gets \in Nat :
        /\ queue_cnt' = [queue_cnt EXCEPT ![s] = gets]
        /\ Numbered' /\ asked' \in Nat /\ waiting' \subseteq Request
        /\ gets = Cardinality(UnderWay(s))'
        /\ \A q \in UnderWay(s)' : q \in UnderWay(s) \/ q = r
        /\ \A t \in Slot \ {s} : UnderWay(t)' = UnderWay(t)
  <2>1. queue_cnt[s] \in Nat /\ queue_cnt[s] = Cardinality(UnderWay(s))
    BY DEF PollInv, PollTypeOK, QueueCount
  <2>2. CASE Head(all).kind = "get"
    <3>1. /\ waiting' \subseteq Request /\ Numbered'
          /\ \A t \in Slot \ {s} : UnderWay(t)' = UnderWay(t)
          /\ UnderWay(s)' = UnderWay(s) \cup {r} /\ r \notin UnderWay(s)
      BY <1>1, <1>4, <2>2, AskedFor DEF PollInv
    <3> HIDE DEF r
    <3>2. Cardinality(UnderWay(s) \cup {r}) = Cardinality(UnderWay(s)) + 1
      BY <3>1, UnderWayFinite, FS_AddElement DEF PollInv
    <3>3. Cardinality(UnderWay(s))' = queue_cnt[s] + 1
      BY <2>1, <3>1, <3>2
    <3>4. queue_cnt' = [queue_cnt EXCEPT ![s] = queue_cnt[s] + 1] /\ asked' \in Nat
      BY <1>1, <2>2 DEF PollInv, PollTypeOK
    <3>5. queue_cnt[s] + 1 \in Nat
      BY <2>1
    <3>6. \A q \in UnderWay(s)' : q \in UnderWay(s) \/ q = r
      BY <3>1
    <3> QED
      BY <3>1, <3>3, <3>4, <3>5, <3>6
  <2>3. CASE Head(all).kind # "get"
    <3>1. Numbered' /\ \A t \in Slot : UnderWay(t)' = UnderWay(t)
      BY <1>1, <2>3, SameGets DEF PollInv
    <3>2. queue_cnt' = [queue_cnt EXCEPT ![s] = queue_cnt[s]]
      BY <1>1, <2>3 DEF PollInv, PollTypeOK
    <3> QED
      BY <1>1, <2>1, <2>3, <3>1, <3>2 DEF PollInv, PollTypeOK
  <2> QED
    BY <2>2, <2>3
<1>6. PICK extra \in Seq(Own(c)) :
        \/ output(s, extra) /\ UNCHANGED <<link, fd, state>>
        \/ remove(s, gets) /\ UNCHANGED <<received, pollout>>
  BY <1>1, <1>3, <1>5, EmptySeq DEF PollInv, PollTypeOK
<1>7. \A t \in Slot \ {s} : fd[t] # NOBODY => stream'[fd[t]] = stream[fd[t]]
  BY <1>1, Turn DEF PollInv, PollTypeOK
<1>8. CASE output(s, extra) /\ UNCHANGED <<link, fd, state>>
  <2>1. PICK g \in Seq(Own(c)), w \in Seq(Own(c)) :
          /\ received' = [received EXCEPT ![c] = g]
          /\ wrbuf' = [wrbuf EXCEPT ![s] = w] /\ pollout' \in [Slot -> BOOLEAN]
    BY <1>2, <1>8, OutputOwn
  <2>2. PollTypeOK'
    BY <1>1, <1>2, <1>4, <1>5, <1>8, <2>1, Turn, OwnTyped, EmptySeq DEF PollInv, PollTypeOK
  <2>3. Connected'
    BY <1>8 DEF PollInv, Connected
  <2>4. Reports'
    BY <1>1, <1>7, <1>8, Turn DEF PollInv, Reports, Reported, Named
  <2>5. QueueCount'
    BY <1>2, <1>5, <1>8 DEF PollInv, PollTypeOK, QueueCount
  <2>6. OwnData'
    BY <1>1, <1>2, <1>3, <1>8, <2>1, Turn, EmptySeq DEF PollInv, PollTypeOK, OwnData
  <2>7. OwnGets'
    <3>1. \A q \in UnderWay(s)' : q.cmd.by = c
      BY <1>2, <1>4, <1>5 DEF PollInv, OwnGets
    <3> QED
      BY <1>5, <1>8, <3>1 DEF PollInv, OwnGets
  <2> QED
    BY <1>5, <2>2, <2>3, <2>4, <2>5, <2>6, <2>7 DEF PollInv
<1>9. CASE remove(s, gets) /\ UNCHANGED <<received, pollout>>
  <2>1. PollTypeOK'
    BY <1>1, <1>2, <1>4, <1>5, <1>9, Turn, Removed, EmptySeq DEF PollInv, PollTypeOK
  <2>2. Connected'
    BY <1>2, <1>9, Removed
  <2>3. Reports'
    <3>1. fd'[s] = NOBODY /\ \A t \in Slot \ {s} : fd'[t] = fd[t]
      BY <1>2, <1>9, Removed
    <3>2. /\ pc' = "fds" /\ Named(s)' = {} /\ ~Reported(s, "POLLIN")'
          /\ \A t \in Slot : Named(t)' \subseteq Named(t)
          /\ revents' \subseteq revents
      BY <1>1, Turn
    <3>3. \A t \in Slot : Named(t)' # {} => fd'[t] # NOBODY
      BY <3>1, <3>2 DEF PollInv, Reports
    <3>4. ASSUME NEW t \in Slot, Reported(t, "POLLIN")'
          PROVE  stream'[fd'[t]] # <<>>
      <4>1. t # s /\ Reported(t, "POLLIN")
        BY <3>2, <3>4 DEF Reported
      <4>2. fd[t] # NOBODY /\ stream[fd[t]] # <<>>
        BY <4>1 DEF PollInv, Reports, Reported, Named
      <4> QED
        BY <1>7, <3>1, <4>1, <4>2
    <3> QED
      BY <3>2, <3>3, <3>4 DEF Reports
  <2>4. QueueCount'
    <3>1. /\ fd'[s] = NOBODY /\ state'[s] = IF gets = 0 THEN "SHUT" ELSE "WAIT"
          /\ \A t \in Slot \ {s} : fd'[t] = fd[t] /\ state'[t] = state[t]
      BY <1>2, <1>9, Removed
    <3>2. queue_cnt'[s] = gets /\ \A t \in Slot \ {s} : queue_cnt'[t] = queue_cnt[t]
      BY <1>5 DEF PollInv, PollTypeOK
    <3>3. ASSUME NEW t \in Slot \ {s}
          PROVE  /\ queue_cnt'[t] = Cardinality(UnderWay(t))'
                 /\ state'[t] = "SHUT" => queue_cnt'[t] = 0
                 /\ fd'[t] # NOBODY <=> state'[t] = "OPEN"
      <4>1. /\ queue_cnt[t] = Cardinality(UnderWay(t))
            /\ state[t] = "SHUT" => queue_cnt[t] = 0
            /\ fd[t] # NOBODY <=> state[t] = "OPEN"
        BY DEF PollInv, QueueCount
      <4>2. Cardinality(UnderWay(t))' = Cardinality(UnderWay(t))
        BY <1>5
      <4> QED
        BY <3>1, <3>2, <4>1, <4>2
    <3>4. /\ queue_cnt'[s] = Cardinality(UnderWay(s))'
          /\ state'[s] = "SHUT" => queue_cnt'[s] = 0
          /\ fd'[s] # NOBODY <=> state'[s] = "OPEN"
      BY <1>5, <3>1, <3>2
    <3> QED
      BY <3>3, <3>4 DEF QueueCount
  <2>5. OwnData'
    BY <1>1, <1>2, <1>9, Turn, Removed, EmptySeq DEF PollInv, PollTypeOK, OwnData
  <2>6. OwnGets'
    BY <1>2, <1>5, <1>9, Removed, SMTT(30) DEF PollInv, OwnGets
  <2> QED
    BY <1>5, <2>1, <2>2, <2>3, <2>4, <2>5, <2>6 DEF PollInv
<1> QED
  BY <1>6, <1>8, <1>9

-----------------------------------------------------------------------------
(* The end of the server *)

LEMMA EndKeeps == ASSUME PollInv, remove_all
                  PROVE  PollInv'
<1>1. /\ pc = "loop" /\ pc' = "destroy"
      /\ link' = [c \in Conn |-> IF \E s \in Slot : fd[s] = c THEN "closed" ELSE link[c]]
      /\ state' = [s \in Slot |-> IF fd[s] = NOBODY THEN state[s]
                                  ELSE IF queue_cnt[s] = 0 THEN "SHUT" ELSE "WAIT"]
      /\ fd' = [s \in Slot |-> NOBODY] /\ wrbuf' = [s \in Slot |-> <<>>]
      /\ UNCHANGED <<sent, stream, received, running, revents, pollout, queue_cnt, buf,
                     db_vars, pipe>>
  BY DEF remove_all, go
<1>2. Numbered' /\ \A t \in Slot : UnderWay(t)' = UnderWay(t)
  BY <1>1, SameGets DEF PollInv, db_vars
<1>3. PollTypeOK'
  BY <1>1, EmptySeq DEF PollInv, PollTypeOK, Link, Place, db_vars
<1>4. Connected' /\ Reports'
  BY <1>1 DEF PollInv, Connected, Reports, Named, Reported
<1>5. QueueCount' /\ OwnGets'
  BY <1>1, <1>2 DEF PollInv, PollTypeOK, QueueCount, OwnGets
<1>6. OwnData'
  BY <1>1 DEF PollInv, OwnData
<1> QED
  BY <1>2, <1>3, <1>4, <1>5, <1>6 DEF PollInv

LEMMA PollStep == PollInv /\ [PollNext]_poll_vars => PollInv'
<1> SUFFICES ASSUME PollInv, [PollNext]_poll_vars
             PROVE  PollInv'
  OBVIOUS
<1>1. CASE server
  BY <1>1, LoopKeeps, ControlKeeps, AcceptKeeps, GoneKeeps, InputKeeps, OutputKeeps, EndKeeps
     DEF server, process_client
<1>2. CASE database
  BY <1>2, ResponseKeeps DEF database
<1>3. CASE term_handler \/ \E c \in Conn : client_acts(c)
  BY <1>3, SignalKeeps, ClientKeeps
<1>4. CASE UNCHANGED poll_vars
  <2>1. UNCHANGED <<client_vars, running, pc, revents, slot_vars, db_vars, pipe>>
    BY <1>4 DEF poll_vars
  <2>2. PollTypeOK' /\ Connected' /\ Reports'
    BY <2>1 DEF PollInv, PollTypeOK, Connected, Reports, Named, Reported, client_vars,
                slot_vars, db_vars
  <2> QED
    BY <2>1, <2>2, SlotsStay DEF PollInv, OwnData, client_vars
<1> QED
  BY <1>1, <1>2, <1>3, <1>4 DEF PollNext

-----------------------------------------------------------------------------
(* The variables of the server keep their types: queue_cnt is never        *)
(* counted below zero.                                                     *)
THEOREM PollTyped == PollSpec => []PollTypeOK
<1>1. PollInv => PollTypeOK
  BY DEF PollInv
<1> QED
  BY <1>1, InitHolds, PollStep, PTL DEF PollSpec

(* Whoever connects, asks and hangs up, and whenever the database answers, *)
(* queue_cnt is the number of gets under way, and a slot that is given     *)
(* away has none.                                                          *)
THEOREM GetsAreCounted == PollSpec => []QueueCount
<1>1. PollInv => QueueCount
  BY DEF PollInv
<1> QED
  BY <1>1, InitHolds, PollStep, PTL DEF PollSpec

(* Therefore no client ever gets an answer that another one has asked for, *)
(* although the slots are used again.                                      *)
THEOREM AnswersAreOwn == PollSpec => []NoCrossTalk
<1>1. PollInv => NoCrossTalk
  <2> SUFFICES ASSUME PollInv
               PROVE  NoCrossTalk
    OBVIOUS
  <2>1. \A c \in Conn : \A k \in 1..Len(received[c]) : received[c][k].by = c
    <3>1. ASSUME NEW c \in Conn, NEW k \in 1..Len(received[c])
          PROVE  received[c][k].by = c
      <4>1. received[c] \in Seq(Own(c))
        BY DEF PollInv, OwnData
      <4>2. received[c][k] \in Own(c)
        BY <4>1, ElementOfSeq
      <4> QED
        BY <4>2 DEF Own
    <3> QED
      BY <3>1
  <2>2. ASSUME NEW s \in Slot, NEW k \in 1..Len(wrbuf[s])
        PROVE  wrbuf[s][k].by = fd[s]
    <3>1. fd[s] # NOBODY
      BY EmptySeq DEF PollInv, OwnData
    <3>2. wrbuf[s] \in Seq(Own(fd[s]))
      BY <3>1 DEF PollInv, OwnData
    <3>3. wrbuf[s][k] \in Own(fd[s])
      BY <3>2, ElementOfSeq
    <3> QED
      BY <3>3 DEF Own
  <2> QED
    BY <2>1, <2>2 DEF NoCrossTalk
<1> QED
  BY <1>1, InitHolds, PollStep, PTL DEF PollSpec

-----------------------------------------------------------------------------
(* That a command is answered once depends on all places in which it can   *)
(* be: not processed yet, asked of the database, in the pipe, among the    *)
(* replies to be sent, or with the client.                                 *)

(* The last of m commands, in the order of their numbers. *)
LastOf(all, m) == Len(all) <= m /\ \A k \in 1..Len(all) : all[k].n = m - Len(all) + k

(* Of m commands that a client has sent, those in all are not processed;   *)
(* each of the others is in one place at most, and nowhere twice.          *)
OncePlaced(got, replies, gets, all, m) ==
  /\ LastOf(all, m)
  /\ IsInjective(got) /\ IsInjective(replies) /\ Range(got) \cap Range(replies) = {}
  /\ \A r, q \in gets : r.cmd = q.cmd => r = q
  /\ \A r \in gets : r.cmd \notin Range(got) \cup Range(replies)
  /\ \A cmd \in Range(got) \cup Range(replies) : cmd.n <= m - Len(all)
  /\ \A r \in gets : r.cmd.n <= m - Len(all)

(* What the client of a slot has sent and the server not processed. *)
Unread(s) == buf[s] \o stream[fd[s]]

Placed(s) ==
  fd[s] # NOBODY =>
    OncePlaced(received[fd[s]], wrbuf[s], UnderWay(s), Unread(s), sent[fd[s]])

(* A connection that has not been accepted was not answered either. *)
Unheard(c) ==
  link[c] \in {"none", "backlog"} =>
    received[c] = <<>> /\ LastOf(stream[c], sent[c]) /\ Len(stream[c]) = sent[c]

OnceInv ==
  /\ PollInv
  /\ \A c \in Conn : IsInjective(received[c]) /\ Unheard(c)
  /\ \A s \in Slot : Placed(s)

-----------------------------------------------------------------------------
(* What becomes of the places of a command *)

LEMMA AppendOnce ==
  ASSUME NEW S, NEW q \in Seq(S), NEW x \in S
  PROVE  /\ Range(Append(q, x)) = Range(q) \cup {x}
         /\ IsInjective(q) /\ x \notin Range(q) => IsInjective(Append(q, x))
<1> DEFINE a == Append(q, x)
<1>1. /\ a \in Seq(S) /\ Len(a) = Len(q) + 1 /\ Len(q) \in Nat
      /\ \A k \in 1..Len(q) : a[k] = q[k]
      /\ a[Len(q) + 1] = x
  BY AppendProperties, LenProperties
<1>2. DOMAIN a = 1..Len(a) /\ DOMAIN q = 1..Len(q)
  BY <1>1, LenProperties
<1> HIDE DEF a
<1>3. Range(a) = Range(q) \cup {x}
  BY <1>1, <1>2 DEF Range
<1>4. IsInjective(q) /\ x \notin Range(q) => IsInjective(a)
  BY <1>1, <1>2 DEF Range, IsInjective
<1> QED
  BY <1>3, <1>4 DEF a

LEMMA ConcatOnce ==
  ASSUME NEW S, NEW p \in Seq(S), NEW q \in Seq(S),
         IsInjective(p), IsInjective(q), Range(p) \cap Range(q) = {}
  PROVE  IsInjective(p \o q) /\ Range(p \o q) = Range(p) \cup Range(q)
<1> DEFINE a == p \o q
<1>1. /\ a \in Seq(S) /\ Len(a) = Len(p) + Len(q) /\ Len(p) \in Nat /\ Len(q) \in Nat
      /\ \A i \in 1..(Len(p) + Len(q)) : a[i] = IF i <= Len(p) THEN p[i] ELSE q[i - Len(p)]
  BY ConcatProperties, LenProperties
<1>2. DOMAIN a = 1..Len(a) /\ DOMAIN p = 1..Len(p) /\ DOMAIN q = 1..Len(q)
  BY <1>1, LenProperties
<1>3. Range(a) = Range(p) \cup Range(q)
  BY RangeConcatenation
<1> HIDE DEF a
<1>4. ASSUME NEW i \in 1..Len(a), NEW j \in 1..Len(a), a[i] = a[j]
      PROVE  i = j
  <2>1. CASE i <= Len(p) /\ j <= Len(p)
    BY <1>1, <1>2, <1>4, <2>1 DEF IsInjective
  <2>2. CASE i > Len(p) /\ j > Len(p)
    <3>1. /\ i - Len(p) \in 1..Len(q) /\ j - Len(p) \in 1..Len(q)
          /\ q[i - Len(p)] = q[j - Len(p)]
      BY <1>1, <1>4, <2>2
    <3>2. i - Len(p) = j - Len(p)
      BY <1>2, <3>1 DEF IsInjective
    <3> QED
      BY <1>1, <3>2
  <2>3. \A k \in 1..Len(p) : p[k] \in Range(p)
    BY <1>2 DEF Range
  <2>4. \A k \in 1..Len(q) : q[k] \in Range(q)
    BY <1>2 DEF Range
  <2>5. CASE i <= Len(p) /\ j > Len(p)
    <3>1. a[i] = p[i] /\ i \in 1..Len(p) /\ a[j] = q[j - Len(p)] /\ j - Len(p) \in 1..Len(q)
      BY <1>1, <2>5
    <3> QED
      BY <1>4, <2>3, <2>4, <3>1
  <2>6. CASE i > Len(p) /\ j <= Len(p)
    <3>1. a[j] = p[j] /\ j \in 1..Len(p) /\ a[i] = q[i - Len(p)] /\ i - Len(p) \in 1..Len(q)
      BY <1>1, <2>6
    <3> QED
      BY <1>4, <2>3, <2>4, <3>1
  <2> QED
    BY <1>1, <2>1, <2>2, <2>5, <2>6
<1> QED
  BY <1>2, <1>3, <1>4 DEF IsInjective, a

(* The two parts of a sequence share nothing. *)
LEMMA SplitOnce ==
  ASSUME NEW S, NEW p \in Seq(S), NEW t \in Seq(S), IsInjective(p \o t)
  PROVE  /\ IsInjective(p) /\ IsInjective(t) /\ Range(p) \cap Range(t) = {}
         /\ Range(p) \cup Range(t) = Range(p \o t)
<1> DEFINE a == p \o t
<1>0. PICK m \in Nat, n \in Nat : m = Len(p) /\ n = Len(t)
  BY LenProperties
<1>1. /\ DOMAIN p = 1..m /\ DOMAIN t = 1..n /\ DOMAIN a = 1..(m + n)
      /\ \A i \in 1..(m + n) : a[i] = IF i <= m THEN p[i] ELSE t[i - m]
  BY <1>0, ConcatProperties, LenProperties
<1> HIDE DEF a
<1>2. \A i, j \in 1..(m + n) : a[i] = a[j] => i = j
  BY <1>1 DEF IsInjective, a
<1>3. /\ \A i \in 1..m : i \in 1..(m + n) /\ a[i] = p[i]
      /\ \A i \in 1..n : m + i \in 1..(m + n) /\ a[m + i] = t[i]
  <2>1. \A i \in 1..m : i \in 1..(m + n) /\ i <= m
    OBVIOUS
  <2>2. \A i \in 1..n : m + i \in 1..(m + n) /\ ~(m + i <= m) /\ (m + i) - m = i
    OBVIOUS
  <2> QED
    BY <1>1, <2>1, <2>2
<1>4. \A i, j \in 1..n : t[i] = t[j] => i = j
  <2> SUFFICES ASSUME NEW i \in 1..n, NEW j \in 1..n, t[i] = t[j]
               PROVE  i = j
    OBVIOUS
  <2>1. a[m + i] = a[m + j] /\ m + i \in 1..(m + n) /\ m + j \in 1..(m + n)
    BY <1>3
  <2>2. m + i = m + j
    BY ONLY <1>2, <2>1
  <2> QED
    BY <2>2
<1>5. \A i \in 1..m : \A j \in 1..n : p[i] # t[j]
  <2> SUFFICES ASSUME NEW i \in 1..m, NEW j \in 1..n, p[i] = t[j]
               PROVE  FALSE
    OBVIOUS
  <2>1. i = m + j
    BY <1>2, <1>3
  <2> QED
    BY <2>1
<1>6. IsInjective(p) /\ IsInjective(t)
  BY <1>1, <1>2, <1>3, <1>4 DEF IsInjective
<1>7. Range(p) \cap Range(t) = {}
  BY <1>1, <1>5 DEF Range
<1> QED
  BY <1>6, <1>7, RangeConcatenation

LEMMA LastTail ==
  ASSUME NEW all \in Seq(Command), all # <<>>, NEW m \in Nat, LastOf(all, m)
  PROVE  /\ LastOf(Tail(all), m) /\ Len(Tail(all)) = Len(all) - 1 /\ Len(all) \in Nat
         /\ Head(all).n = m - Len(all) + 1 /\ Head(all) \in Command
         /\ Tail(all) \in Seq(Command)
<1>1. /\ Len(all) \in Nat /\ Len(all) > 0 /\ Head(all) = all[1]
      /\ Head(all) \in Command /\ Tail(all) \in Seq(Command)
      /\ Len(Tail(all)) = Len(all) - 1
      /\ \A i \in 1..Len(Tail(all)) : Tail(all)[i] = all[i + 1]
  BY HeadTailProperties, EmptySeq, LenProperties
<1> QED
  BY <1>1 DEF LastOf

LEMMA LastAppend ==
  ASSUME NEW all \in Seq(Command), NEW m \in Nat, LastOf(all, m),
         NEW cmd \in Command, cmd.n = m + 1
  PROVE  /\ LastOf(Append(all, cmd), m + 1) /\ Len(Append(all, cmd)) = Len(all) + 1
         /\ Len(all) \in Nat
<1> DEFINE a == Append(all, cmd)
<1>0. PICK n \in Nat : n = Len(all)
  BY LenProperties
<1>1. /\ Len(a) = n + 1 /\ \A i \in 1..n : a[i] = all[i]
      /\ a[n + 1] = cmd
  BY <1>0, AppendProperties
<1> HIDE DEF a
<1>2. n <= m /\ \A i \in 1..n : all[i].n = m - n + i
  BY <1>0 DEF LastOf
<1>3. ASSUME NEW i \in 1..(n + 1)
      PROVE  a[i].n = (m + 1) - (n + 1) + i
  <2>1. CASE i = n + 1
    BY <1>1, <2>1
  <2>2. CASE i \in 1..n
    BY <1>1, <1>2, <2>2
  <2> QED
    BY <1>3, <2>1, <2>2
<1>4. LastOf(a, m + 1)
  BY <1>1, <1>2, <1>3 DEF LastOf
<1> QED
  BY <1>0, <1>1, <1>4 DEF a


-----------------------------------------------------------------------------
(* The places of the commands of one client *)

LEMMA NoneYet ==
  ASSUME NEW all \in Seq(Command), NEW m \in Nat, LastOf(all, m)
  PROVE  OncePlaced(<<>>, <<>>, {}, all, m)
BY DEF OncePlaced, IsInjective, Range

LEMMA OneSent ==
  ASSUME NEW got \in Seq(Command), NEW replies \in Seq(Command), NEW gets \in SUBSET Request,
         NEW all \in Seq(Command), NEW m \in Nat, OncePlaced(got, replies, gets, all, m),
         NEW cmd \in Command, cmd.n = m + 1
  PROVE  OncePlaced(got, replies, gets, Append(all, cmd), m + 1)
<1>1. /\ LastOf(Append(all, cmd), m + 1) /\ Len(all) \in Nat
      /\ Len(Append(all, cmd)) = Len(all) + 1
  BY LastAppend DEF OncePlaced
<1>2. (m + 1) - Len(Append(all, cmd)) = m - Len(all)
  BY <1>1
<1> QED
  BY <1>1, <1>2 DEF OncePlaced

(* A get has its answer. *)
LEMMA OneAnswered ==
  ASSUME NEW got \in Seq(Command), NEW replies \in Seq(Command), NEW gets \in SUBSET Request,
         NEW all \in Seq(Command), NEW m \in Nat, OncePlaced(got, replies, gets, all, m),
         NEW r \in gets
  PROVE  OncePlaced(got, Append(replies, r.cmd), gets \ {r}, all, m)
<1>1. r.cmd \in Command
  BY DEF Request
<1>2. /\ Range(Append(replies, r.cmd)) = Range(replies) \cup {r.cmd}
      /\ IsInjective(Append(replies, r.cmd))
  BY <1>1, AppendOnce DEF OncePlaced
<1> QED
  BY <1>2 DEF OncePlaced

(* A get is asked of the database. *)
LEMMA OneAsked ==
  ASSUME NEW got \in Seq(Command), NEW replies \in Seq(Command), NEW gets \in SUBSET Request,
         NEW all \in Seq(Command), NEW m \in Nat, OncePlaced(got, replies, gets, all, m),
         all # <<>>, NEW r \in Request, r.cmd = Head(all)
  PROVE  OncePlaced(got, replies, gets \cup {r}, Tail(all), m)
<1>1. /\ LastOf(Tail(all), m) /\ Len(Tail(all)) = Len(all) - 1 /\ Len(all) \in Nat
      /\ Head(all).n = m - Len(all) + 1
  BY LastTail DEF OncePlaced
<1>2. PICK u \in Int : u = m - Len(all)
  BY <1>1
<1>3. m - Len(Tail(all)) = u + 1 /\ r.cmd.n = u + 1
  BY <1>1, <1>2
<1>4. /\ \A cmd \in Range(got) \cup Range(replies) : cmd.n <= u
      /\ \A q \in gets : q.cmd.n <= u
  BY <1>2 DEF OncePlaced
<1>5. Range(got) \subseteq Command /\ Range(replies) \subseteq Command
  BY RangeOfSeq
<1>6. /\ \A cmd \in Range(got) \cup Range(replies) : cmd.n <= u + 1 /\ cmd # r.cmd
      /\ \A q \in gets \cup {r} : q.cmd.n <= u + 1
      /\ \A q \in gets : q.cmd # r.cmd
  BY <1>3, <1>4, <1>5 DEF Command, Request
<1> QED
  BY <1>1, <1>3, <1>6 DEF OncePlaced

(* A set is answered at once. *)
LEMMA OneDone ==
  ASSUME NEW got \in Seq(Command), NEW replies \in Seq(Command), NEW gets \in SUBSET Request,
         NEW all \in Seq(Command), NEW m \in Nat, OncePlaced(got, replies, gets, all, m),
         all # <<>>
  PROVE  /\ OncePlaced(got \o <<Head(all)>>, replies, gets, Tail(all), m)
         /\ got \o <<Head(all)>> \in Seq(Command)
<1>1. /\ LastOf(Tail(all), m) /\ Len(Tail(all)) = Len(all) - 1 /\ Len(all) \in Nat
      /\ Head(all).n = m - Len(all) + 1 /\ Head(all) \in Command
  BY LastTail DEF OncePlaced
<1>2. PICK u \in Int : u = m - Len(all)
  BY <1>1
<1>3. m - Len(Tail(all)) = u + 1 /\ Head(all).n = u + 1
  BY <1>1, <1>2
<1>4. /\ \A cmd \in Range(got) \cup Range(replies) : cmd.n <= u
      /\ \A q \in gets : q.cmd.n <= u
  BY <1>2 DEF OncePlaced
<1>5. Range(got) \subseteq Command /\ Range(replies) \subseteq Command
  BY RangeOfSeq
<1>6. /\ \A cmd \in Range(got) \cup Range(replies) : cmd.n <= u + 1 /\ cmd # Head(all)
      /\ \A q \in gets : q.cmd.n <= u + 1 /\ q.cmd # Head(all)
  BY <1>3, <1>4, <1>5 DEF Command, Request
<1>7. got \o <<Head(all)>> = Append(got, Head(all))
  BY <1>1, AppendIsConcat
<1>8. /\ Range(Append(got, Head(all))) = Range(got) \cup {Head(all)}
      /\ IsInjective(Append(got, Head(all))) /\ Append(got, Head(all)) \in Seq(Command)
  BY <1>1, <1>6, AppendOnce, AppendProperties DEF OncePlaced
<1>9. \A cmd \in Range(Append(got, Head(all))) \cup Range(replies) : cmd.n <= u + 1
  BY <1>3, <1>6, <1>8
<1> QED
  BY <1>1, <1>3, <1>6, <1>7, <1>8, <1>9 DEF OncePlaced

(* Replies are sent. *)
LEMMA SomeSent ==
  ASSUME NEW got \in Seq(Command), NEW replies \in Seq(Command), NEW gets \in SUBSET Request,
         NEW all \in Seq(Command), NEW m \in Nat, OncePlaced(got, replies, gets, all, m),
         NEW k \in 1..Len(replies)
  PROVE  OncePlaced(got \o SubSeq(replies, 1, k), SubSeq(replies, k + 1, Len(replies)),
                    gets, all, m)
<1>0. PICK p \in Seq(Command), t \in Seq(Command) :
        p = SubSeq(replies, 1, k) /\ t = SubSeq(replies, k + 1, Len(replies)) /\ p \o t = replies
  <2>1. Len(replies) \in Nat
    BY LenProperties
  <2>2. SubSeq(replies, 1, k) \in Seq(Command) /\ SubSeq(replies, k + 1, Len(replies)) \in Seq(Command)
    <3>1. \A j \in 1..Len(replies) : replies[j] \in Command
      BY ElementOfSeq
    <3> QED
      BY <2>1, <3>1, SubSeqProperties
  <2>3. SubSeq(replies, 1, k) \o SubSeq(replies, k + 1, Len(replies)) = SubSeq(replies, 1, Len(replies))
    BY <2>1, ConcatAdjacentSubSeq
  <2>4. SubSeq(replies, 1, Len(replies)) = replies
    BY SubSeqFull
  <2> QED
    BY <2>2, <2>3, <2>4
<1>1. /\ IsInjective(p) /\ IsInjective(t) /\ Range(p) \cap Range(t) = {}
      /\ Range(p) \cup Range(t) = Range(replies)
  <2>1. \A S : \A u, v \in Seq(S) : IsInjective(u \o v) =>
          /\ IsInjective(u) /\ IsInjective(v) /\ Range(u) \cap Range(v) = {}
          /\ Range(u) \cup Range(v) = Range(u \o v)
    BY ONLY SplitOnce
  <2>2. IsInjective(p \o t)
    BY <1>0 DEF OncePlaced
  <2>3. /\ IsInjective(p) /\ IsInjective(t) /\ Range(p) \cap Range(t) = {}
        /\ Range(p) \cup Range(t) = Range(p \o t)
    BY ONLY <2>1, <2>2, p \in Seq(Command), t \in Seq(Command), Zenon
  <2> QED
    BY <1>0, <2>3
<1>2. Range(got) \cap Range(p) = {}
  BY <1>1 DEF OncePlaced
<1>3. IsInjective(got \o p) /\ Range(got \o p) = Range(got) \cup Range(p)
  BY <1>1, <1>2, ConcatOnce DEF OncePlaced
<1>4. OncePlaced(got \o p, t, gets, all, m)
  BY <1>1, <1>3 DEF OncePlaced
<1> QED
  BY <1>0, <1>4

-----------------------------------------------------------------------------
(* The steps of the server *)

LEMMA PlacedStays ==
  ASSUME NEW s \in Slot, Placed(s), fd'[s] = fd[s], wrbuf'[s] = wrbuf[s], buf'[s] = buf[s],
         UnderWay(s)' = UnderWay(s),
         fd[s] # NOBODY => /\ received'[fd[s]] = received[fd[s]] /\ stream'[fd[s]] = stream[fd[s]]
                           /\ sent'[fd[s]] = sent[fd[s]]
  PROVE  Placed(s)'
BY DEF Placed, Unread

LEMMA UnheardStays ==
  ASSUME NEW c \in Conn, Unheard(c), UNCHANGED <<received, stream, sent>>,
         link'[c] \in {"none", "backlog"} => link[c] \in {"none", "backlog"}
  PROVE  Unheard(c)'
BY DEF Unheard

LEMMA PlacesTyped ==
  ASSUME PollTypeOK, NEW s \in Slot, fd[s] # NOBODY
  PROVE  /\ fd[s] \in Conn /\ received[fd[s]] \in Seq(Command) /\ wrbuf[s] \in Seq(Command)
         /\ UnderWay(s) \in SUBSET Request /\ buf[s] \in Seq(Command)
         /\ stream[fd[s]] \in Seq(Command) /\ Unread(s) \in Seq(Command) /\ sent[fd[s]] \in Nat
<1>1. /\ fd[s] \in Conn /\ received[fd[s]] \in Seq(Command) /\ wrbuf[s] \in Seq(Command)
      /\ buf[s] \in Seq(Command) /\ stream[fd[s]] \in Seq(Command) /\ sent[fd[s]] \in Nat
  BY DEF PollTypeOK
<1>2. Unread(s) \in Seq(Command)
  BY <1>1, ConcatProperties DEF Unread
<1>3. \A k \in 1..Len(pipe) : pipe[k] \in Request
  BY ElementOfSeq DEF PollTypeOK
<1>4. UnderWay(s) \in SUBSET Request
  BY <1>3 DEF PollTypeOK, UnderWay, InPipe
<1> QED
  BY <1>1, <1>2, <1>4

LEMMA OnceInitHolds == PollInit => OnceInv
<1> SUFFICES ASSUME PollInit
             PROVE  OnceInv
  OBVIOUS
<1>1. PollInv
  BY InitHolds
<1>2. IsInjective(<<>>) /\ LastOf(<<>>, 0) /\ Len(<<>>) = 0
  BY DEF IsInjective, LastOf
<1>3. ASSUME NEW c \in Conn
      PROVE  IsInjective(received[c]) /\ Unheard(c)
  <2>1. received[c] = <<>> /\ stream[c] = <<>> /\ sent[c] = 0
    BY DEF PollInit
  <2> QED
    BY <1>2, <2>1 DEF Unheard
<1>4. \A s \in Slot : Placed(s)
  BY DEF PollInit, Placed
<1> QED
  BY <1>1, <1>3, <1>4 DEF OnceInv

LEMMA SendOnce ==
  ASSUME OnceInv, PollInv', NEW c \in Conn, Send(c),
         UNCHANGED <<slot_vars, db_vars, pipe>>
  PROVE  OnceInv'
<1>1. PICK t \in {"get", "set"} :
        stream' = [stream EXCEPT ![c] = Append(@, [by |-> c, n |-> sent[c] + 1, kind |-> t])]
  BY DEF Send, OnceInv, PollInv, PollTypeOK
<1>2. sent' = [sent EXCEPT ![c] = @ + 1] /\ UNCHANGED <<link, received>>
  BY DEF Send
<1>3. PICK cmd \in Command : cmd.n = sent[c] + 1 /\ stream' = [stream EXCEPT ![c] = Append(@, cmd)]
  <2> DEFINE new == [by |-> c, n |-> sent[c] + 1, kind |-> t]
  <2>1. sent[c] \in Nat
    BY DEF OnceInv, PollInv, PollTypeOK
  <2>2. new \in Command /\ new.n = sent[c] + 1
    BY <2>1 DEF Command
  <2> QED
    BY <1>1, <2>2
<1>4. /\ stream'[c] = Append(stream[c], cmd) /\ sent'[c] = sent[c] + 1
      /\ \A d \in Conn \ {c} : stream'[d] = stream[d] /\ sent'[d] = sent[d]
      /\ stream[c] \in Seq(Command) /\ sent[c] \in Nat
  BY <1>2, <1>3 DEF OnceInv, PollInv, PollTypeOK
<1>5. /\ UNCHANGED <<fd, wrbuf, buf>> /\ \A s \in Slot : UnderWay(s)' = UnderWay(s)
  BY DEF slot_vars, db_vars, UnderWay, InPipe
<1>6. Unheard(c)'
  <2> SUFFICES ASSUME link'[c] \in {"none", "backlog"}
               PROVE  /\ received'[c] = <<>> /\ LastOf(stream'[c], sent'[c])
                      /\ Len(stream'[c]) = sent'[c]
    BY DEF Unheard
  <2>1. received[c] = <<>> /\ LastOf(stream[c], sent[c]) /\ Len(stream[c]) = sent[c]
    BY <1>2 DEF OnceInv, Unheard
  <2> QED
    BY <1>2, <1>3, <1>4, <2>1, LastAppend
<1>7. \A d \in Conn \ {c} : Unheard(d)'
  BY <1>2, <1>4 DEF OnceInv, Unheard
<1>8. ASSUME NEW s \in Slot, fd[s] = c
      PROVE  Placed(s)'
  <2>1. fd[s] # NOBODY
    BY <1>8, PollAssumption
  <2>2. /\ received[c] \in Seq(Command) /\ wrbuf[s] \in Seq(Command)
        /\ UnderWay(s) \in SUBSET Request /\ buf[s] \in Seq(Command)
        /\ Unread(s) \in Seq(Command)
    BY <1>8, <2>1, PlacesTyped DEF OnceInv, PollInv
  <2>3. OncePlaced(received[c], wrbuf[s], UnderWay(s), Unread(s), sent[c])
    BY <1>8, <2>1 DEF OnceInv, Placed
  <2>4. Unread(s)' = Append(Unread(s), cmd)
    <3>1. Unread(s)' = buf[s] \o Append(stream[c], cmd)
      BY <1>4, <1>5, <1>8 DEF Unread
    <3>2. /\ Append(stream[c], cmd) = stream[c] \o <<cmd>> /\ <<cmd>> \in Seq(Command)
          /\ Append(Unread(s), cmd) = Unread(s) \o <<cmd>>
      BY <1>4, <2>2, AppendIsConcat
    <3>3. (buf[s] \o stream[c]) \o <<cmd>> = buf[s] \o (stream[c] \o <<cmd>>)
      <4>1. \A S : \A u, v, w \in Seq(S) : (u \o v) \o w = u \o (v \o w)
        BY ONLY ConcatAssociative
      <4>2. PICK u \in Seq(Command), v \in Seq(Command), w \in Seq(Command) :
              u = buf[s] /\ v = stream[c] /\ w = <<cmd>>
        BY <1>4, <2>2, <3>2
      <4>3. (u \o v) \o w = u \o (v \o w)
        BY ConcatAssociative
      <4> QED
        BY <4>2, <4>3, Zenon
    <3> QED
      BY <1>8, <3>1, <3>2, <3>3 DEF Unread
  <2>5. OncePlaced(received[c], wrbuf[s], UnderWay(s), Append(Unread(s), cmd), sent[c] + 1)
    BY <1>3, <1>4, <2>2, <2>3, OneSent
  <2> QED
    BY <1>2, <1>4, <1>5, <1>8, <2>4, <2>5 DEF Placed
<1>9. ASSUME NEW s \in Slot, fd[s] # c
      PROVE  Placed(s)'
  <2>1. fd[s] # NOBODY => fd[s] \in Conn
    BY DEF OnceInv, PollInv, PollTypeOK
  <2> QED
    BY <1>2, <1>4, <1>5, <1>9, <2>1, PlacedStays DEF OnceInv
<1> QED
  BY <1>2, <1>6, <1>7, <1>8, <1>9 DEF OnceInv

(* A step that moves no command. *)
LEMMA NoneMoved ==
  ASSUME OnceInv, PollInv', UNCHANGED <<received, stream, sent, fd, wrbuf, buf>>,
         \A c \in Conn : link'[c] \in {"none", "backlog"} => link[c] \in {"none", "backlog"},
         \A s \in Slot : UnderWay(s)' = UnderWay(s)
  PROVE  OnceInv'
<1>1. \A c \in Conn : IsInjective(received'[c]) /\ Unheard(c)'
  BY UnheardStays DEF OnceInv
<1>2. \A s \in Slot : Placed(s)'
  BY PlacedStays DEF OnceInv
<1> QED
  BY <1>1, <1>2 DEF OnceInv

LEMMA OthersOnce ==
  ASSUME OnceInv, PollInv',
         \/ test_running \/ poll \/ process_control_end \/ poll_end \/ destroy_server
         \/ term_handler \/ database \/ \E c \in Conn : client_acts(c)
  PROVE  OnceInv'
<1>1. CASE test_running \/ poll \/ process_control_end \/ poll_end \/ destroy_server \/ term_handler
  <2>1. UNCHANGED <<client_vars, slot_vars, db_vars, pipe>>
    BY <1>1 DEF test_running, poll, process_control_end, poll_end, destroy_server, term_handler
  <2> QED
    BY <2>1, NoneMoved DEF client_vars, slot_vars, db_vars, UnderWay, InPipe
<1>2. CASE database
  <2>1. PICK r \in waiting : async_response(r)
    BY <1>2 DEF database
  <2>2. UNCHANGED <<client_vars, slot_vars>> /\ \A s \in Slot : UnderWay(s)' = UnderWay(s)
    BY <2>1, Responded DEF OnceInv, PollInv, async_response
  <2> QED
    BY <2>2, NoneMoved DEF client_vars, slot_vars
<1>3. ASSUME NEW c \in Conn, client_acts(c)
      PROVE  OnceInv'
  <2>1. UNCHANGED <<slot_vars, db_vars, pipe>>
    BY <1>3 DEF client_acts
  <2>2. CASE Send(c)
    BY <2>1, <2>2, SendOnce
  <2>3. CASE Connect(c) \/ HangUp(c)
    <3>1. UNCHANGED <<received, stream, sent>>
      BY <2>3 DEF Connect, HangUp
    <3>2. \A d \in Conn : link'[d] \in {"none", "backlog"} => link[d] \in {"none", "backlog"}
      BY <2>3 DEF Connect, HangUp, OnceInv, PollInv, PollTypeOK
    <3> QED
      BY <2>1, <3>1, <3>2, NoneMoved DEF slot_vars, db_vars, UnderWay, InPipe
  <2> QED
    BY <1>3, <2>2, <2>3 DEF client_acts
<1> QED
  BY <1>1, <1>2, <1>3

(* An answer of the database is a reply of the slot's client now, or lost. *)
LEMMA ControlOnce == ASSUME OnceInv, PollInv', process_control
                     PROVE  OnceInv'
<1>1. /\ pipe # <<>> /\ pipe' = Tail(pipe)
      /\ UNCHANGED <<client_vars, running, pc, revents, fd, buf, db_vars>>
  BY DEF process_control
<1>2. PICK r \in Request, s \in Slot :
        /\ r = Head(pipe) /\ s = r.slot /\ r \in UnderWay(s)
        /\ \A t \in Slot : UnderWay(t)' = UnderWay(t) \ {r}
  BY <1>1, TakenOut DEF OnceInv, PollInv, db_vars, Request
<1>3. \A t \in Slot \ {s} : UnderWay(t)' = UnderWay(t)
  BY <1>2 DEF UnderWay
<1>4. IF fd[s] = NOBODY THEN UNCHANGED wrbuf
      ELSE wrbuf' = [wrbuf EXCEPT ![s] = Append(@, r.cmd)]
  BY <1>2 DEF process_control
<1>5. UNCHANGED <<link, sent, stream, received, fd, buf>>
  BY <1>1 DEF client_vars
<1>6. \A c \in Conn : IsInjective(received'[c]) /\ Unheard(c)'
  BY <1>5, UnheardStays DEF OnceInv
<1>7. wrbuf'[s] = (IF fd[s] = NOBODY THEN wrbuf[s] ELSE Append(wrbuf[s], r.cmd))
      /\ \A t \in Slot \ {s} : wrbuf'[t] = wrbuf[t]
  BY <1>2, <1>4 DEF OnceInv, PollInv, PollTypeOK
<1>8. \A t \in Slot \ {s} : Placed(t)'
  BY <1>3, <1>5, <1>7, PlacedStays DEF OnceInv
<1>9. Placed(s)'
  <2> SUFFICES ASSUME fd[s] # NOBODY
               PROVE  OncePlaced(received[fd[s]], Append(wrbuf[s], r.cmd), UnderWay(s) \ {r},
                                 Unread(s), sent[fd[s]])
    BY <1>2, <1>5, <1>7 DEF Placed, Unread
  <2>1. /\ received[fd[s]] \in Seq(Command) /\ wrbuf[s] \in Seq(Command)
        /\ UnderWay(s) \in SUBSET Request
        /\ Unread(s) \in Seq(Command) /\ sent[fd[s]] \in Nat
    BY <1>2, PlacesTyped DEF OnceInv, PollInv
  <2>2. OncePlaced(received[fd[s]], wrbuf[s], UnderWay(s), Unread(s), sent[fd[s]])
    BY <1>2 DEF OnceInv, Placed
  <2> QED
    BY <1>2, <2>1, <2>2, OneAnswered
<1> QED
  BY <1>6, <1>8, <1>9 DEF OnceInv

(* Nothing of a client that is accepted is anywhere but in the network.    *)
LEMMA AcceptOnce == ASSUME OnceInv, PollInv', accept_connection
                    PROVE  OnceInv'
<1>1. PICK c \in Conn :
        /\ link[c] = "backlog"
        /\ \/ /\ \E s \in Slot : add_fd(c, s)
              /\ link' = [link EXCEPT ![c] = "open"]
           \/ /\ link' = [link EXCEPT ![c] = "closed"]
              /\ UNCHANGED <<fd, buf>>
  BY DEF accept_connection
<1>2. UNCHANGED <<sent, stream, received, wrbuf, db_vars, pipe>>
  BY DEF accept_connection
<1>3. /\ \A s \in Slot : UnderWay(s)' = UnderWay(s)
      /\ \A d \in Conn : link'[d] \in {"none", "backlog"} => link[d] \in {"none", "backlog"}
  <2>1. \A s \in Slot : UnderWay(s)' = UnderWay(s)
    BY <1>2 DEF db_vars, UnderWay, InPipe
  <2>2. link \in [Conn -> Link]
    BY DEF OnceInv, PollInv, PollTypeOK
  <2>3. link' = [link EXCEPT ![c] = "open"] \/ link' = [link EXCEPT ![c] = "closed"]
    BY <1>1
  <2> QED
    BY <2>1, <2>2, <2>3
<1>4. CASE UNCHANGED <<fd, buf>>
  BY <1>2, <1>3, <1>4, NoneMoved
<1>5. ASSUME NEW s \in Slot, add_fd(c, s)
      PROVE  OnceInv'
  <2>1. state[s] = "SHUT" /\ fd' = [fd EXCEPT ![s] = c] /\ buf' = [buf EXCEPT ![s] = <<>>]
    BY <1>5 DEF add_fd, Free
  <2>2. fd[s] = NOBODY /\ UnderWay(s) = {} /\ wrbuf[s] = <<>>
    BY <2>1, UnderWayFinite, FS_EmptySet DEF OnceInv, PollInv, QueueCount, OwnData
  <2>3. /\ fd'[s] = c /\ buf'[s] = <<>>
        /\ \A t \in Slot \ {s} : fd'[t] = fd[t] /\ buf'[t] = buf[t]
    BY <2>1 DEF OnceInv, PollInv, PollTypeOK
  <2>4. \A d \in Conn : IsInjective(received'[d]) /\ Unheard(d)'
    BY <1>2, <1>3, UnheardStays DEF OnceInv
  <2>5. \A t \in Slot \ {s} : Placed(t)'
    BY <1>2, <1>3, <2>3, PlacedStays DEF OnceInv
  <2>6. received[c] = <<>> /\ LastOf(stream[c], sent[c])
    BY <1>1 DEF OnceInv, Unheard
  <2>7. stream[c] \in Seq(Command) /\ sent[c] \in Nat
    BY DEF OnceInv, PollInv, PollTypeOK
  <2>8. Unread(s)' = stream[c]
    BY <1>2, <2>3, <2>7, ConcatEmptySeq DEF Unread
  <2>9. OncePlaced(<<>>, <<>>, {}, stream[c], sent[c])
    BY <2>6, <2>7, NoneYet
  <2>10. Placed(s)'
    BY <1>2, <1>3, <2>2, <2>3, <2>6, <2>8, <2>9 DEF Placed
  <2> QED
    BY <2>4, <2>5, <2>10 DEF OnceInv
<1> QED
  BY <1>1, <1>4, <1>5

(* Whoever is removed gets nothing more. *)
LEMMA RemovedOnce ==
  ASSUME OnceInv, NEW s \in Slot, fd[s] # NOBODY, NEW gets \in Nat, remove(s, gets),
         NEW t \in Slot, UNCHANGED <<received, sent>>,
         t # s => buf'[t] = buf[t] /\ UnderWay(t)' = UnderWay(t)
                  /\ (fd[t] # NOBODY => stream'[fd[t]] = stream[fd[t]])
  PROVE  Placed(t)'
<1>1. /\ fd'[s] = NOBODY
      /\ \A u \in Slot \ {s} : fd'[u] = fd[u] /\ wrbuf'[u] = wrbuf[u]
  BY Removed DEF OnceInv
<1>2. CASE t = s
  BY <1>1, <1>2 DEF Placed
<1>3. CASE t # s
  BY <1>1, <1>3, PlacedStays DEF OnceInv
<1> QED
  BY <1>2, <1>3

LEMMA RemovedLink ==
  ASSUME OnceInv, NEW s \in Slot, fd[s] # NOBODY, NEW gets, remove(s, gets), NEW c \in Conn,
         link'[c] \in {"none", "backlog"}
  PROVE  link[c] \in {"none", "backlog"} /\ c # fd[s]
BY DEF remove, OnceInv, PollInv, PollTypeOK

LEMMA GoneOnce == ASSUME OnceInv, PollInv', NEW s \in Slot, process_client_gone(s)
                  PROVE  OnceInv'
<1>1. /\ turn(s) /\ remove(s, queue_cnt[s])
      /\ UNCHANGED <<sent, stream, received, buf, db_vars, pipe>>
  BY DEF process_client_gone
<1>2. queue_cnt[s] \in Nat /\ fd[s] # NOBODY
  BY <1>1, Turn DEF OnceInv, PollInv, PollTypeOK
<1>3. \A t \in Slot : UnderWay(t)' = UnderWay(t)
  BY <1>1 DEF db_vars, UnderWay, InPipe
<1>4. \A t \in Slot : Placed(t)'
  BY <1>1, <1>2, <1>3, RemovedOnce
<1>5. \A c \in Conn : IsInjective(received'[c]) /\ Unheard(c)'
  BY <1>1, <1>2, RemovedLink, UnheardStays DEF OnceInv
<1> QED
  BY <1>4, <1>5 DEF OnceInv

LEMMA EndOnce == ASSUME OnceInv, PollInv', remove_all
                 PROVE  OnceInv'
<1>1. /\ link' = [c \in Conn |-> IF \E s \in Slot : fd[s] = c THEN "closed" ELSE link[c]]
      /\ fd' = [s \in Slot |-> NOBODY] /\ UNCHANGED <<sent, stream, received>>
  BY DEF remove_all
<1>2. \A s \in Slot : Placed(s)'
  BY <1>1 DEF Placed
<1>3. \A c \in Conn : IsInjective(received'[c]) /\ Unheard(c)'
  BY <1>1, UnheardStays DEF OnceInv
<1> QED
  BY <1>2, <1>3 DEF OnceInv

(* A reply moves to the client, and one that was made before them. *)
LEMMA OutputPlaces ==
  ASSUME OnceInv, NEW s \in Slot, fd[s] # NOBODY, NEW extra,
         received[fd[s]] \o extra \in Seq(Command), output(s, extra),
         NEW gets \in SUBSET Request, NEW all \in Seq(Command),
         OncePlaced(received[fd[s]] \o extra, wrbuf[s], gets, all, sent[fd[s]])
  PROVE  \E got, w : /\ received' = [received EXCEPT ![fd[s]] = got]
                     /\ wrbuf' = [wrbuf EXCEPT ![s] = w]
                     /\ OncePlaced(got, w, gets, all, sent[fd[s]])
<1>1. wrbuf[s] \in Seq(Command) /\ sent[fd[s]] \in Nat /\ wrbuf = [wrbuf EXCEPT ![s] = wrbuf[s]]
  BY DEF OnceInv, PollInv, PollTypeOK
<1>2. PICK g \in Seq(Command) : g = received[fd[s]] \o extra
  OBVIOUS
<1>3. OncePlaced(g, wrbuf[s], gets, all, sent[fd[s]])
  BY <1>2
<1>4. CASE send_wrbuffer(s, extra)
  <2>1. PICK k \in 1..Len(wrbuf[s]) :
          /\ received' = [received EXCEPT ![fd[s]] = @ \o extra \o SubSeq(wrbuf[s], 1, k)]
          /\ wrbuf' = [wrbuf EXCEPT ![s] = SubSeq(@, k + 1, Len(@))]
    BY <1>4 DEF send_wrbuffer
  <2>2. /\ received' = [received EXCEPT ![fd[s]] = g \o SubSeq(wrbuf[s], 1, k)]
        /\ wrbuf' = [wrbuf EXCEPT ![s] = SubSeq(wrbuf[s], k + 1, Len(wrbuf[s]))]
    BY <1>2, <2>1
  <2>3. OncePlaced(g \o SubSeq(wrbuf[s], 1, k), SubSeq(wrbuf[s], k + 1, Len(wrbuf[s])),
                   gets, all, sent[fd[s]])
    BY <1>1, <1>3, SomeSent
  <2> QED
    BY <2>2, <2>3
<1>5. CASE received' = [received EXCEPT ![fd[s]] = @ \o extra] /\ UNCHANGED wrbuf
  <2>1. received' = [received EXCEPT ![fd[s]] = g] /\ wrbuf' = [wrbuf EXCEPT ![s] = wrbuf[s]]
    BY <1>1, <1>2, <1>5
  <2> QED
    BY <1>3, <2>1
<1> QED
  BY <1>4, <1>5 DEF output

(* After that, the others are where they were. *)
LEMMA OutputSent ==
  ASSUME OnceInv, PollInv', NEW s \in Slot, fd[s] # NOBODY, NEW got, NEW w,
         received' = [received EXCEPT ![fd[s]] = got], wrbuf' = [wrbuf EXCEPT ![s] = w],
         UNCHANGED <<link, sent, fd>>,
         OncePlaced(got, w, UnderWay(s)', Unread(s)', sent[fd[s]]),
         \A t \in Slot \ {s} : buf'[t] = buf[t] /\ UnderWay(t)' = UnderWay(t),
         \A c \in Conn \ {fd[s]} : stream'[c] = stream[c]
  PROVE  OnceInv'
<1>1. /\ fd[s] \in Conn /\ link[fd[s]] \notin {"none", "backlog"}
      /\ \A t \in Slot \ {s} : fd[t] # fd[s]
      /\ \A t \in Slot : fd[t] # NOBODY => fd[t] \in Conn
  <2>1. fd \in [Slot -> Conn \cup {NOBODY}] /\ Connected
    BY DEF OnceInv, PollInv, PollTypeOK
  <2> QED
    BY <2>1 DEF Connected
<1>2. /\ received'[fd[s]] = got /\ \A c \in Conn \ {fd[s]} : received'[c] = received[c]
      /\ wrbuf'[s] = w /\ \A t \in Slot \ {s} : wrbuf'[t] = wrbuf[t]
  BY <1>1 DEF OnceInv, PollInv, PollTypeOK
<1>3. Placed(s)'
  BY <1>2 DEF Placed
<1>4. \A t \in Slot \ {s} : Placed(t)'
  BY <1>1, <1>2, PlacedStays DEF OnceInv
<1>5. \A c \in Conn : IsInjective(received'[c])
  BY <1>2 DEF OnceInv, OncePlaced
<1>6. \A c \in Conn : Unheard(c)'
  BY <1>1, <1>2 DEF OnceInv, Unheard
<1> QED
  BY <1>3, <1>4, <1>5, <1>6 DEF OnceInv

LEMMA OutputOnce == ASSUME OnceInv, PollInv', NEW s \in Slot, process_client_output(s)
                    PROVE  OnceInv'
<1>1. /\ turn(s) /\ output(s, <<>>)
      /\ UNCHANGED <<link, sent, stream, fd, buf, db_vars, pipe>>
  BY DEF process_client_output
<1>2. fd[s] # NOBODY
  BY <1>1, Turn DEF OnceInv
<1>3. /\ received[fd[s]] \in Seq(Command) /\ UnderWay(s) \in SUBSET Request
      /\ Unread(s) \in Seq(Command)
  BY <1>2, PlacesTyped DEF OnceInv, PollInv
<1>4. received[fd[s]] \o <<>> = received[fd[s]]
  BY <1>3, ConcatEmptySeq
<1>5. OncePlaced(received[fd[s]], wrbuf[s], UnderWay(s), Unread(s), sent[fd[s]])
  BY <1>2 DEF OnceInv, Placed
<1>6. PICK got, w : /\ received' = [received EXCEPT ![fd[s]] = got]
                    /\ wrbuf' = [wrbuf EXCEPT ![s] = w]
                    /\ OncePlaced(got, w, UnderWay(s), Unread(s), sent[fd[s]])
  <2>1. PICK extra : extra = <<>>
    OBVIOUS
  <2>2. received[fd[s]] \o extra = received[fd[s]]
    BY <1>4, <2>1
  <2>3. output(s, extra) /\ received[fd[s]] \o extra \in Seq(Command)
    BY <1>1, <1>3, <2>1, <2>2
  <2>4. OncePlaced(received[fd[s]] \o extra, wrbuf[s], UnderWay(s), Unread(s), sent[fd[s]])
    BY <1>5, <2>2
  <2> QED
    BY <1>2, <1>3, <2>3, <2>4, OutputPlaces
<1>7. Unread(s)' = Unread(s) /\ \A t \in Slot : UnderWay(t)' = UnderWay(t)
  BY <1>1 DEF Unread, db_vars, UnderWay, InPipe
<1> QED
  BY <1>1, <1>2, <1>6, <1>7, OutputSent

LEMMA InputOnce == ASSUME OnceInv, PollInv', NEW s \in Slot, process_client_input(s)
                   PROVE  OnceInv'
<1> DEFINE r == [id |-> asked, slot |-> s, cmd |-> Head(Unread(s))]
           get == Head(Unread(s)).kind = "get"
<1>1. /\ turn(s) /\ Reported(s, "POLLIN")
      /\ buf' = [buf EXCEPT ![s] = Tail(Unread(s))]
      /\ stream' = [stream EXCEPT ![fd[s]] = <<>>]
      /\ IF get THEN queue_cnt' = [queue_cnt EXCEPT ![s] = @ + 1]
                      /\ waiting' = waiting \cup {r} /\ asked' = asked + 1
         ELSE UNCHANGED <<queue_cnt, waiting, asked>>
      /\ \/ output(s, IF get THEN <<>> ELSE <<Head(Unread(s))>>) /\ UNCHANGED <<link, fd>>
         \/ remove(s, queue_cnt'[s]) /\ UNCHANGED received
      /\ UNCHANGED <<sent, pipe>>
  <2> DEFINE all == buf[s] \o stream[fd[s]]
  <2>1. Unread(s) = all
    BY DEF Unread
  <2>2. /\ turn(s) /\ Reported(s, "POLLIN")
        /\ buf' = [buf EXCEPT ![s] = Tail(all)]
        /\ stream' = [stream EXCEPT ![fd[s]] = <<>>]
        /\ IF Head(all).kind = "get"
           THEN /\ queue_cnt' = [queue_cnt EXCEPT ![s] = @ + 1]
                /\ waiting' = waiting \cup {[id |-> asked, slot |-> s, cmd |-> Head(all)]}
                /\ asked' = asked + 1
           ELSE UNCHANGED <<queue_cnt, waiting, asked>>
        /\ \/ /\ output(s, IF Head(all).kind = "get" THEN <<>> ELSE <<Head(all)>>)
              /\ UNCHANGED <<link, fd>>
           \/ remove(s, queue_cnt'[s]) /\ UNCHANGED received
        /\ UNCHANGED <<sent, pipe>>
    BY DEF process_client_input
  <2> HIDE DEF all
  <2> QED
    BY <2>1, <2>2
<1>2. fd[s] # NOBODY /\ fd[s] \in Conn /\ \A t \in Slot \ {s} : fd[t] # fd[s]
  BY <1>1, Turn DEF OnceInv
<1>3. /\ received[fd[s]] \in Seq(Command) /\ wrbuf[s] \in Seq(Command)
      /\ UnderWay(s) \in SUBSET Request /\ buf[s] \in Seq(Command)
      /\ Unread(s) \in Seq(Command) /\ sent[fd[s]] \in Nat /\ stream[fd[s]] \in Seq(Command)
  BY <1>2, PlacesTyped DEF OnceInv, PollInv
<1>4. Unread(s) # <<>>
  BY <1>1, <1>2, <1>3, ConcatEqualIffEmpty DEF OnceInv, PollInv, Reports, Unread
<1>5. Head(Unread(s)) \in Command /\ Tail(Unread(s)) \in Seq(Command)
  BY <1>3, <1>4, HeadTailProperties
<1>6. OncePlaced(received[fd[s]], wrbuf[s], UnderWay(s), Unread(s), sent[fd[s]])
  BY <1>2 DEF OnceInv, Placed
<1>7. /\ buf'[s] = Tail(Unread(s)) /\ stream'[fd[s]] = <<>>
      /\ \A t \in Slot \ {s} : buf'[t] = buf[t]
      /\ \A c \in Conn \ {fd[s]} : stream'[c] = stream[c]
  BY <1>1, <1>2 DEF OnceInv, PollInv, PollTypeOK
<1>8. r \in Request
  BY <1>5 DEF Request, OnceInv, PollInv, PollTypeOK
<1>9. /\ UnderWay(s)' = IF get THEN UnderWay(s) \cup {r} ELSE UnderWay(s)
      /\ \A t \in Slot \ {s} : UnderWay(t)' = UnderWay(t)
  <2>1. InPipe' = InPipe /\ r.slot = s
    BY <1>1 DEF InPipe
  <2> HIDE DEF r
  <2> QED
    BY <1>1, <2>1 DEF UnderWay
<1>10. UnderWay(s)' \in SUBSET Request
  BY <1>3, <1>8, <1>9
<1>11. PICK extra : /\ extra = IF get THEN <<>> ELSE <<Head(Unread(s))>>
                    /\ received[fd[s]] \o extra \in Seq(Command)
                    /\ OncePlaced(received[fd[s]] \o extra, wrbuf[s], UnderWay(s)',
                                  Tail(Unread(s)), sent[fd[s]])
  <2>1. CASE get
    <3>1. OncePlaced(received[fd[s]], wrbuf[s], UnderWay(s) \cup {r}, Tail(Unread(s)),
                     sent[fd[s]])
      <4>1. r.cmd = Head(Unread(s))
        OBVIOUS
      <4> HIDE DEF r
      <4> QED
        BY <1>3, <1>4, <1>6, <1>8, <4>1, OneAsked
    <3>2. received[fd[s]] \o <<>> = received[fd[s]]
      BY <1>3, ConcatEmptySeq
    <3> QED
      BY <1>3, <1>9, <2>1, <3>1, <3>2
  <2>2. CASE ~get
    BY <1>3, <1>4, <1>6, <1>9, <2>2, OneDone
  <2> QED
    BY <2>1, <2>2
<1> HIDE DEF r
<1>12. CASE output(s, extra) /\ UNCHANGED <<link, fd>>
  <2>1. PICK got, w : /\ received' = [received EXCEPT ![fd[s]] = got]
                      /\ wrbuf' = [wrbuf EXCEPT ![s] = w]
                      /\ OncePlaced(got, w, UnderWay(s)', Tail(Unread(s)), sent[fd[s]])
    BY <1>2, <1>5, <1>10, <1>11, <1>12, OutputPlaces
  <2>2. Unread(s)' = Tail(Unread(s))
    BY <1>5, <1>7, <1>12, ConcatEmptySeq DEF Unread
  <2> QED
    BY <1>1, <1>2, <1>7, <1>9, <1>12, <2>1, <2>2, OutputSent
<1>13. CASE remove(s, queue_cnt'[s]) /\ UNCHANGED received
  <2>1. queue_cnt'[s] \in Nat
    BY DEF PollInv, PollTypeOK
  <2>2. \A t \in Slot : Placed(t)'
    <3> SUFFICES ASSUME NEW t \in Slot
                 PROVE  Placed(t)'
      OBVIOUS
    <3>1. t # s => /\ buf'[t] = buf[t] /\ UnderWay(t)' = UnderWay(t)
                   /\ fd[t] # NOBODY => stream'[fd[t]] = stream[fd[t]]
      BY <1>2, <1>7, <1>9 DEF OnceInv, PollInv, PollTypeOK
    <3> QED
      BY <1>1, <1>2, <1>13, <2>1, <3>1, RemovedOnce
  <2>3. ASSUME NEW c \in Conn
        PROVE  IsInjective(received'[c]) /\ Unheard(c)'
    <3>1. link'[c] \in {"none", "backlog"} => link[c] \in {"none", "backlog"} /\ c # fd[s]
      BY <1>2, <1>13, RemovedLink
    <3> QED
      BY <1>1, <1>7, <1>13, <3>1 DEF OnceInv, Unheard
  <2> QED
    BY <2>2, <2>3 DEF OnceInv
<1> QED
  BY <1>1, <1>11, <1>12, <1>13

LEMMA OnceStep == OnceInv /\ [PollNext]_poll_vars => OnceInv'
<1> SUFFICES ASSUME OnceInv, [PollNext]_poll_vars
             PROVE  OnceInv'
  OBVIOUS
<1>1. PollInv'
  BY PollStep DEF OnceInv
<1>2. CASE server
  BY <1>1, <1>2, OthersOnce, ControlOnce, AcceptOnce, GoneOnce, InputOnce, OutputOnce, EndOnce
     DEF server, process_client
<1>3. CASE database \/ term_handler \/ \E c \in Conn : client_acts(c)
  BY <1>1, <1>3, OthersOnce
<1>4. CASE UNCHANGED poll_vars
  <2>1. UNCHANGED <<received, stream, sent, link, fd, wrbuf, buf, waiting, pipe>>
    BY <1>4 DEF poll_vars, client_vars, slot_vars, db_vars
  <2> QED
    BY <1>1, <2>1, NoneMoved DEF UnderWay, InPipe
<1> QED
  BY <1>2, <1>3, <1>4 DEF PollNext

-----------------------------------------------------------------------------
(* No command is answered twice, in whatever order the database finds the  *)
(* values and however the replies are cut.                                 *)
THEOREM EveryCommandOnce == PollSpec => []AnsweredOnce
<1>1. OnceInv => AnsweredOnce
  <2> SUFFICES ASSUME OnceInv, NEW c \in Conn
               PROVE  Cardinality({received[c][k] : k \in 1..Len(received[c])}) = Len(received[c])
    BY DEF AnsweredOnce
  <2>1. PICK n \in Nat : n = Len(received[c]) /\ DOMAIN received[c] = 1..n
    BY LenProperties DEF OnceInv, PollInv, PollTypeOK
  <2>2. IsInjective(received[c])
    BY DEF OnceInv
  <2> DEFINE got == {received[c][k] : k \in 1..n}
  <2>3. ExistsBijection(1..n, got)
    <3> DEFINE f == [k \in 1..n |-> received[c][k]]
    <3>1. f \in Bijection(1..n, got)
      BY <2>1, <2>2 DEF IsInjective, Bijection, Injection, Surjection
    <3> QED
      BY <3>1 DEF ExistsBijection
  <2>4. IsFiniteSet(1..n) /\ Cardinality(1..n) = n
    BY FS_Interval
  <2> HIDE DEF got
  <2>5. Cardinality(got) = n
    BY <2>3, <2>4, FS_Bijection
  <2> QED
    BY <2>1, <2>5 DEF got
<1> QED
  BY <1>1, OnceInitHolds, OnceStep, PTL DEF PollSpec

(* The three together: whatever the order of connections, answers and ends *)
(* of slots, what a client receives are the answers to its own requests,   *)
(* each of them once.                                                      *)
THEOREM AnswersAreRight == PollSpec => []AnswersRight
<1>1. PollTypeOK /\ NoCrossTalk /\ AnsweredOnce => AnswersRight
  BY DEF AnswersRight
<1> QED
  BY <1>1, PollTyped, AnswersAreOwn, EveryCommandOnce, PTL

=============================================================================
