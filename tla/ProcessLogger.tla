--------------------------- MODULE ProcessLogger ---------------------------
(***************************************************************************)
(* QueueProcessLogger: processes put records into a multiprocessing.Queue, *)
(* and the logging process takes them from it and writes them to the file. *)
(*                                                                         *)
(* put_nowait() only appends to a buffer of the calling process, which a   *)
(* thread of that process feeds into the pipe of the queue; a process that *)
(* is over waits for that thread before it is gone.                        *)
(***************************************************************************)
EXTENDS Naturals, Sequences

CONSTANTS
  Proc,       (* the processes that log                                    *)
  RecordMax,  (* bound on the records one process logs                     *)
  PipeMax     (* records the pipe holds                                    *)

(* What is assumed of the constants.                                       *)
LoggerAssumption ==
  /\ RecordMax \in Nat
  /\ PipeMax \in Nat \ {0}

VARIABLES
  logged,  (* how many records each process has logged                     *)
  buffer,  (* the records the process has not yet fed into the pipe        *)
  place,   (* is the process running, over, or gone?                       *)
  pipe,    (* the records in the pipe                                      *)
  record,  (* what get_nowait() returned and is not yet written            *)
  active,  (* QueueProcessLogger.active, as the logging process has it     *)
  file     (* the records written                                          *)

vars == <<logged, buffer, place, pipe, record, active, file>>

Record == [proc : Proc, number : 1..RecordMax]

-----------------------------------------------------------------------------
(* log(): put_nowait() never waits.                                        *)
log(p) ==
  /\ place[p] = "runs"
  /\ logged[p] < RecordMax
  /\ logged' = [logged EXCEPT ![p] = @ + 1]
  /\ buffer' = [buffer EXCEPT ![p] = Append(@, [proc |-> p, number |-> logged'[p]])]
  /\ UNCHANGED <<place, pipe, record, active, file>>

(* The feeder thread writes the oldest record into the pipe, which waits   *)
(* while the pipe is full.                                                 *)
Feed(p) ==
  /\ place[p] # "gone"
  /\ buffer[p] # <<>>
  /\ Len(pipe) < PipeMax
  /\ pipe' = Append(pipe, Head(buffer[p]))
  /\ buffer' = [buffer EXCEPT ![p] = Tail(@)]
  /\ UNCHANGED <<logged, place, record, active, file>>

(* The process is over; it waits for its feeder thread.                    *)
End(p) ==
  /\ place[p] = "runs"
  /\ place' = [place EXCEPT ![p] = "over"]
  /\ UNCHANGED <<logged, buffer, pipe, record, active, file>>

(* Mutant of Leave: the process does not wait for its feeder thread.        *)
LeaveAtOnce(p) ==
  /\ place[p] = "over"
  /\ place' = [place EXCEPT ![p] = "gone"]
  /\ UNCHANGED <<logged, buffer, pipe, record, active, file>>

Leave(p) ==
  /\ place[p] = "over"
  /\ buffer[p] = <<>>
  /\ place' = [place EXCEPT ![p] = "gone"]
  /\ UNCHANGED <<logged, buffer, pipe, record, active, file>>

(* One turn of the loop of run() takes a record...  An empty queue raises  *)
(* queue.Empty, and the loop goes round: a stuttering step.                *)
Get ==
  /\ active
  /\ record = <<>>
  /\ pipe # <<>>
  /\ record' = <<Head(pipe)>>
  /\ pipe' = Tail(pipe)
  /\ UNCHANGED <<logged, buffer, place, active, file>>

(* ... and writes it.                                                      *)
Write ==
  /\ active
  /\ record # <<>>
  /\ file' = file \o record
  /\ record' = <<>>
  /\ UNCHANGED <<logged, buffer, place, pipe, active>>

(* KeyboardInterrupt leaves the loop wherever it strikes, with the record  *)
(* in hand unwritten.                                                      *)
Interrupt ==
  /\ active
  /\ active' = FALSE
  /\ UNCHANGED <<logged, buffer, place, pipe, record, file>>

-----------------------------------------------------------------------------
Init ==
  /\ logged = [p \in Proc |-> 0]
  /\ buffer = [p \in Proc |-> <<>>]
  /\ place = [p \in Proc |-> "runs"]
  /\ pipe = <<>> /\ record = <<>> /\ file = <<>>
  /\ active = TRUE

run == Get \/ Write

ProcStep(p) == log(p) \/ Feed(p) \/ End(p) \/ Leave(p)

Next == run \/ Interrupt \/ \E p \in Proc : ProcStep(p)

(* The logging process and the feeder threads are scheduled.               *)
Spec ==
  /\ Init /\ [][Next]_vars
  /\ WF_vars(run)
  /\ \A p \in Proc : WF_vars(Feed(p)) /\ WF_vars(Leave(p))

-----------------------------------------------------------------------------
(* The variables keep their types. *)
TypeOK ==
  /\ logged \in [Proc -> 0..RecordMax]
  /\ buffer \in [Proc -> Seq(Record)]
  /\ place \in [Proc -> {"runs", "over", "gone"}]
  /\ pipe \in Seq(Record) /\ Len(pipe) <= PipeMax
  /\ record \in Seq(Record) /\ Len(record) <= 1
  /\ active \in BOOLEAN
  /\ file \in Seq(Record)

(* What was fed into the pipe, from the oldest record to the latest.       *)
Fed == file \o record \o pipe

(* The records of one process stand in the file in the order in which it   *)
(* logged them, none twice and without gaps; those that are missing are    *)
(* all on their way, in this order: in hand, in the pipe, in the buffer.   *)
InOrder ==
  \A p \in Proc :
    LET fed == logged[p] - Len(buffer[p])
    IN  /\ \A n \in 1..fed : \E i \in 1..Len(Fed) : Fed[i] = [proc |-> p, number |-> n]
        /\ \A i \in 1..Len(Fed) : Fed[i].proc = p => Fed[i].number <= fed
        /\ \A i, j \in 1..Len(Fed) :
             i < j /\ Fed[i].proc = p /\ Fed[j].proc = p => Fed[i].number < Fed[j].number
        /\ \A n \in 1..Len(buffer[p]) : buffer[p][n] = [proc |-> p, number |-> fed + n]

(* What a process has logged is in the file in the end, even if it is gone *)
(* by then, unless the logging process was interrupted.                    *)
EverythingWritten ==
  \A p \in Proc :
    \A n \in 1..RecordMax :
      logged[p] >= n ~> (~active \/ \E i \in DOMAIN file :
                                     file[i] = [proc |-> p, number |-> n])

(* A process that is over is gone in the end, unless the logging process   *)
(* was interrupted: then its feeder thread can wait for room in the pipe.  *)
EndsCleanly ==
  \A p \in Proc : place[p] = "over" ~> (place[p] = "gone" \/ ~active)

=============================================================================
