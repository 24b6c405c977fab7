-------------------------- MODULE ProcessesProofs ---------------------------
(***************************************************************************)
(* Proofs about the processes: AcceptPool for any set of processes, any    *)
(* set of connections and any backlog; ServerLifecycle for any number of   *)
(* processes and sessions; MaildirHandoff for any files and any number of  *)
(* callers; ProcessLogger for any processes, records and pipe.             *)
(***************************************************************************)
EXTENDS AcceptPool, ServerLifecycle, MaildirHandoff, SequenceTheorems, TLAPS

-----------------------------------------------------------------------------
(* The pool that accepts.                                                  *)

(* A process that does not wait inside accept(), and did not die there.    *)
Spared(w) == pc[w] \in {"select", "serve", "error", "interrupt"}

(* RaceLeavesAWorker is not inductive: a timeout could strike the last     *)
(* process.  It cannot, because whoever emptied the backlog went on to     *)
(* serve, and nobody enters accept() while the backlog is empty.           *)
RaceInv ==
  /\ PoolTypeOK
  /\ pending = {} => \E w \in Worker : Spared(w)
  /\ \E w \in Worker : pc[w] # "timeout"

(* Every step keeps the variables in their types.                          *)
LEMMA PoolTypeStep == PoolTypeOK /\ [PoolNext]_pool_vars => PoolTypeOK'
<1> SUFFICES ASSUME PoolTypeOK, [PoolNext]_pool_vars
             PROVE  PoolTypeOK'
  OBVIOUS
<1> USE DEF PoolTypeOK, Running, Ended
<1>1. ASSUME NEW c \in Conn, Connect(c)
      PROVE  PoolTypeOK'
  BY <1>1 DEF Connect
<1>2. ASSUME NEW w \in Worker, Iterate(w)
      PROVE  PoolTypeOK'
  BY <1>2 DEF Iterate, SelectListener, SelectClients, Accept, AcceptTimeout,
              EndIteration, Goto
<1>3. ASSUME NEW w \in Worker, NEW c \in Conn, FinishClient(w, c)
      PROVE  PoolTypeOK'
  BY <1>3 DEF FinishClient
<1>4. ASSUME NEW w \in Worker, HandlerError(w) \/ Interrupt(w)
      PROVE  PoolTypeOK'
  BY <1>4 DEF HandlerError, Interrupt, Goto
<1>5. CASE UNCHANGED pool_vars
  BY <1>5 DEF pool_vars
<1> QED
  BY <1>1, <1>2, <1>3, <1>4, <1>5 DEF PoolNext

(* The variables of the pool keep their types for every pool.              *)
THEOREM PoolTyped == PoolSpec => []PoolTypeOK
<1>1. PoolInit => PoolTypeOK
  BY DEF PoolInit, PoolTypeOK, Running
<1> QED
  BY <1>1, PoolTypeStep, PTL DEF PoolSpec

LEMMA RaceInit == PoolInit => RaceInv
<1> SUFFICES ASSUME PoolInit
             PROVE  RaceInv
  OBVIOUS
<1>1. PoolTypeOK
  BY DEF PoolInit, PoolTypeOK, Running
<1>2. PICK w \in Worker : TRUE
  BY PoolAssumption
<1>3. pc[w] = "select"
  BY <1>2 DEF PoolInit
<1> QED
  BY <1>1, <1>2, <1>3 DEF RaceInv, Spared

LEMMA RaceStep == RaceInv /\ [PoolNext]_pool_vars => RaceInv'
<1> SUFFICES ASSUME RaceInv, [PoolNext]_pool_vars
             PROVE  RaceInv'
  OBVIOUS
<1>0. PoolTypeOK /\ PoolTypeOK'
  BY PoolTypeStep DEF RaceInv
<1> USE DEF RaceInv, Spared
<1>1. ASSUME NEW c \in Conn, Connect(c)
      PROVE  RaceInv'
  (* The backlog is not empty any more. *)
  BY <1>0, <1>1 DEF Connect
<1>2. ASSUME NEW w \in Worker, SelectListener(w)
      PROVE  RaceInv'
  (* The backlog is not empty, and w does not time out. *)
  <2>1. pc'[w] = "accept" /\ pending' # {}
    BY <1>0, <1>2 DEF SelectListener, Goto, PoolTypeOK
  <2> QED
    BY <1>0, <2>1
<1>3. ASSUME NEW w \in Worker, SelectClients(w) \/ Accept(w) \/ EndIteration(w)
      PROVE  RaceInv'
  (* The process that moves is itself outside accept() afterwards. *)
  <2>1. pc'[w] \in {"select", "serve"}
    BY <1>0, <1>3 DEF SelectClients, Accept, EndIteration, Goto, PoolTypeOK
  <2> QED
    BY <1>0, <2>1
<1>4. ASSUME NEW w \in Worker, AcceptTimeout(w)
      PROVE  RaceInv'
  (* The backlog is empty, so another process was spared and still is. *)
  <2>1. PICK v \in Worker : Spared(v)
    BY <1>4 DEF AcceptTimeout
  <2>2. v # w /\ pc'[v] = pc[v]
    BY <1>0, <1>4, <2>1 DEF AcceptTimeout, Goto, PoolTypeOK
  <2> QED
    BY <1>0, <2>1, <2>2
<1>5. ASSUME NEW w \in Worker, NEW c \in Conn, FinishClient(w, c)
      PROVE  RaceInv'
  BY <1>0, <1>5 DEF FinishClient
<1>6. ASSUME NEW w \in Worker, HandlerError(w) \/ Interrupt(w)
      PROVE  RaceInv'
  <2>1. pc'[w] \in {"error", "interrupt"}
    BY <1>0, <1>6 DEF HandlerError, Interrupt, Goto, PoolTypeOK
  <2> QED
    BY <1>0, <2>1
<1>7. CASE UNCHANGED pool_vars
  BY <1>0, <1>7 DEF pool_vars
<1> QED
  BY <1>1, <1>2, <1>3, <1>4, <1>5, <1>6, <1>7 DEF PoolNext, Iterate

(* However many processes race for however many connections, the timeouts  *)
(* of accept() alone never end the last process of the pool.               *)
THEOREM RaceNeverKillsThePool == PoolSpec => []RaceLeavesAWorker
<1>1. RaceInv => RaceLeavesAWorker
  BY DEF RaceInv, RaceLeavesAWorker
<1> QED
  BY <1>1, RaceInit, RaceStep, PTL DEF PoolSpec

-----------------------------------------------------------------------------
(* The lifecycle of the server.                                            *)

(* What interrupts and ends of processes leave to the next state: the      *)
(* types; a process for every logger of a session that goes on; and none   *)
(* of these where a process is about to give up its join, for the Ctrl-C   *)
(* that makes it do so was posted to them, too, and it forks no more.      *)
LifeInv ==
  /\ LifecycleTypeOK
  /\ LoggersHaveParents
  /\ \A w \in signalled : worker[w] = "joins" => sessions[w] = 0

LEMMA LifeInit == LifecycleInit => LifeInv
<1> SUFFICES ASSUME LifecycleInit
             PROVE  LifeInv
  OBVIOUS
<1>1. \A w \in Process : sessions[w] = 0 /\ ending[w] = 0 /\ sessions[w] + ending[w] <= SessionMax
  BY LifecycleAssumption DEF LifecycleInit
<1>2. /\ sessions \in [Process -> 0..SessionMax] /\ ending \in [Process -> 0..SessionMax]
  BY LifecycleAssumption DEF LifecycleInit
<1>3. /\ blocking \in BOOLEAN /\ main \in MainPlace /\ sock \in BOOLEAN
      /\ active \in [Process -> BOOLEAN] /\ worker \in [Process -> WorkerPlace]
  BY DEF LifecycleInit, MainPlace, WorkerPlace
<1>4. /\ signalled = {} /\ late = {} /\ stuck = {} /\ logger = "runs" /\ main_signalled = FALSE
  BY DEF LifecycleInit
<1>5. LifecycleTypeOK
  <2>1. signalled \subseteq { w \in Process : worker[w] \in {"runs", "joins"} }
    BY <1>4
  <2> QED
    BY ONLY <1>1, <1>2, <1>3, <1>4, <2>1 DEF LifecycleTypeOK
<1> QED
  BY <1>1, <1>4, <1>5 DEF LifeInv, LoggersHaveParents

(* An interrupt of the main process touches its own variables only. *)
LEMMA InterruptedTyped ==
  ASSUME LifecycleTypeOK, main # "gone", MainInterrupted
  PROVE  /\ main' \in MainPlace
         /\ sock' \in BOOLEAN
         /\ active' \in [Process -> BOOLEAN]
<1>1. CASE main = "sleeps"
  BY <1>1 DEF MainInterrupted, exit, LifecycleTypeOK, MainPlace
<1>2. CASE main \in {"starts", "body"}
  BY <1>2 DEF MainInterrupted, exit, LifecycleTypeOK, MainPlace
<1>3. CASE main = "joins"
  BY <1>3 DEF MainInterrupted, LifecycleTypeOK, MainPlace
<1> QED
  BY <1>1, <1>2, <1>3 DEF LifecycleTypeOK, MainPlace

(* A step of a working process: it or its loggers end, or it has one more. *)
LEMMA LifeWorkerStep ==
  ASSUME LifeInv, NEW w \in Process, OpenSession(w) \/ EndRun(w) \/ EndStep(w)
  PROVE  LifeInv'
<1> USE LifecycleAssumption DEF LifeInv, LifecycleTypeOK, LoggersHaveParents, WorkerPlace
<1>1. CASE OpenSession(w)
  <2>1. /\ sessions' \in [Process -> 0..SessionMax]
        /\ sessions'[w] + ending[w] <= SessionMax
        /\ \A v \in Process \ {w} : sessions'[v] = sessions[v]
    BY <1>1 DEF OpenSession
  <2>2. worker[w] = "runs" /\ late' \subseteq Process
    BY <1>1 DEF OpenSession
  <2>3. UNCHANGED <<blocking, main, sock, active, worker, ending, logger, main_signalled, signalled, stuck>>
    BY <1>1 DEF OpenSession
  <2> QED
    BY <2>1, <2>2, <2>3
<1>2. CASE EndRun(w)
  BY <1>2 DEF EndRun, signal_vars
<1>3. CASE WorkerJoined(w)
  BY <1>3 DEF WorkerJoined, Gone
<1>4. CASE WorkerTakes(w)
  <2>1. /\ worker[w] \in {"runs", "joins"} /\ worker' \in [Process -> WorkerPlace]
        /\ worker'[w] = IF worker[w] = "runs" THEN "joins" ELSE "gone"
        /\ \A v \in Process \ {w} : worker'[v] = worker[v]
        /\ signalled' = signalled \ {w} /\ w \in signalled
    BY <1>4 DEF WorkerTakes
  <2>2. UNCHANGED <<blocking, main, sock, active, sessions, ending, logger, main_signalled, late, stuck>>
    BY <1>4 DEF WorkerTakes
  <2> QED
    BY <2>1, <2>2
<1>5. CASE SessionLoggerTakes(w)
  <2>1. /\ ending' \in [Process -> 0..SessionMax]
        /\ \A v \in Process : ending'[v] <= ending[v]
    BY <1>5 DEF SessionLoggerTakes
  <2>2. stuck' \subseteq Process
    BY <1>5 DEF SessionLoggerTakes
  <2>3. UNCHANGED <<blocking, main, sock, active, worker, sessions, logger, main_signalled, signalled, late>>
    BY <1>5 DEF SessionLoggerTakes
  <2>4. \A v \in Process : sessions'[v] + ending'[v] <= SessionMax
    BY <2>1, <2>3
  <2> QED
    BY <2>1, <2>2, <2>3, <2>4
<1> QED
  BY <1>1, <1>2, <1>3, <1>4, <1>5 DEF EndStep

LEMMA LifeStep == LifeInv /\ [LifecycleNext]_lifecycle_vars => LifeInv'
<1> SUFFICES ASSUME LifeInv, [LifecycleNext]_lifecycle_vars
             PROVE  LifeInv'
  OBVIOUS
<1> USE DEF LifeInv
<1>1. CASE MainStep
  <2> USE DEF LifecycleTypeOK, LoggersHaveParents, signal_vars
  <2>1. ASSUME NEW w \in Process, StartProcess(w)
        PROVE  LifeInv'
    BY <2>1 DEF StartProcess, WorkerPlace
  <2>2. CASE AllStarted \/ MainJoined
    BY <2>2 DEF AllStarted, MainJoined, MainPlace
  <2>3. CASE LeaveBlock
    BY <2>3 DEF LeaveBlock, exit, MainPlace
  <2> QED
    BY <1>1, <2>1, <2>2, <2>3 DEF MainStep
<1>2. CASE MainTakes
  <2>1. /\ MainInterrupted /\ main # "gone" /\ main_signalled' = FALSE
        /\ UNCHANGED <<blocking, worker, sessions, ending, logger, signalled, late, stuck>>
    BY <1>2 DEF MainTakes
  <2> QED
    BY <2>1, InterruptedTyped DEF LifecycleTypeOK, LoggersHaveParents
<1>3. CASE LoggerTakes \/ InterruptMain
  BY <1>3 DEF LoggerTakes, InterruptMain, LifecycleTypeOK, LoggersHaveParents, signal_vars
<1>4. CASE CtrlC
  <2>1. /\ main_signalled' = TRUE
        /\ signalled' = { w \in Process : worker[w] \in {"runs", "joins"} }
        /\ UNCHANGED <<blocking, main, sock, active, worker, late, stuck>>
    BY <1>4 DEF CtrlC
  <2>2. /\ sessions' = [w \in Process |-> 0]
        /\ ending' = [w \in Process |-> ending[w] + sessions[w]]
        /\ logger' \in {"runs", "signalled", "gone"}
    BY <1>4 DEF CtrlC, LoggersSignalled, LifecycleTypeOK
  <2>3. /\ sessions' \in [Process -> 0..SessionMax] /\ ending' \in [Process -> 0..SessionMax]
        /\ \A w \in Process : sessions'[w] = 0 /\ sessions'[w] + ending'[w] <= SessionMax
    BY <2>2, LifecycleAssumption DEF LifecycleTypeOK
  <2> QED
    BY <2>1, <2>2, <2>3 DEF LifecycleTypeOK, LoggersHaveParents
<1>5. CASE UNCHANGED lifecycle_vars
  BY <1>5 DEF lifecycle_vars, signal_vars, LifecycleTypeOK, LoggersHaveParents
<1> QED
  BY <1>1, <1>2, <1>3, <1>4, <1>5, LifeWorkerStep DEF LifecycleNext

(* The variables of the lifecycle keep their types for any processes.      *)
THEOREM LifecycleTyped == LifecycleSpec => []LifecycleTypeOK
<1>1. LifeInv => LifecycleTypeOK
  BY DEF LifeInv
<1> QED
  BY <1>1, LifeInit, LifeStep, PTL DEF LifecycleSpec

(* However processes end and take their interrupts, no logging process of  *)
(* a session is left behind by the process that started it, unless the     *)
(* Ctrl-C that ended this one is on its way to the logging process, too.   *)
THEOREM NoLoggerIsOrphaned == LifecycleSpec => []LoggersHaveParents
<1>1. LifeInv => LoggersHaveParents
  BY DEF LifeInv
<1> QED
  BY <1>1, LifeInit, LifeStep, PTL DEF LifecycleSpec

-----------------------------------------------------------------------------
(* The files in the maildir.                                               *)

(* The files a caller has, returned or not yet. *)
Held(c) == taken[c] \cup handed[c]

(* Why no file is with two callers: who has a file has renamed it, and     *)
(* only a file of the plain name can be renamed.  Why a failed rename has  *)
(* a winner: a listed file has a name, and one that is marked is held.     *)
HandInv ==
  /\ HandoffTypeOK
  /\ HandedOnce
  /\ MissingIsElsewhere
  /\ \A c \in Caller : \A f \in Held(c) : name[f] = "marked"
  /\ \A f \in File : name[f] = "marked" => \E c \in Caller : f \in Held(c)
  /\ \A c \in Caller : files[c] \cap Held(c) = {}
  /\ \A c \in Caller : \A f \in files[c] : name[f] # "none"

LEMMA HandInit == HandoffInit => HandInv
BY DEF HandoffInit, HandInv, HandoffTypeOK, HandedOnce, MissingIsElsewhere, Held, Name

LEMMA HandoffTypeStep == HandoffTypeOK /\ [HandoffNext]_handoff_vars => HandoffTypeOK'
<1> SUFFICES ASSUME HandoffTypeOK, [HandoffNext]_handoff_vars
             PROVE  HandoffTypeOK'
  OBVIOUS
<1> USE DEF HandoffTypeOK, Name
<1>1. ASSUME NEW f \in File, open(f)
      PROVE  HandoffTypeOK'
  BY <1>1 DEF open
<1>2. ASSUME NEW c \in Caller, walk(c) \/ return(c) \/ Kill(c)
      PROVE  HandoffTypeOK'
  BY <1>2 DEF walk, return, Kill
<1>3. ASSUME NEW c \in Caller, NEW f \in File, rename(c, f) \/ rename_fails(c, f)
      PROVE  HandoffTypeOK'
  BY <1>3 DEF rename, rename_fails
<1>4. CASE UNCHANGED handoff_vars
  BY <1>4 DEF handoff_vars
<1> QED
  BY <1>1, <1>2, <1>3, <1>4 DEF HandoffNext, maildir_handler

LEMMA HandStep == HandInv /\ [HandoffNext]_handoff_vars => HandInv'
<1> SUFFICES ASSUME HandInv, [HandoffNext]_handoff_vars
             PROVE  HandInv'
  OBVIOUS
<1>0. HandoffTypeOK /\ HandoffTypeOK'
  BY HandoffTypeStep DEF HandInv
<1> USE DEF HandInv, HandedOnce, MissingIsElsewhere, Held
<1>1. ASSUME NEW f \in File, open(f)
      PROVE  HandInv'
  (* The file has no name yet, so nobody has it. *)
  BY <1>0, <1>1 DEF open, HandoffTypeOK
<1>2. ASSUME NEW c \in Caller, walk(c)
      PROVE  HandInv'
  (* What is listed has the plain name, what is held has not. *)
  BY <1>0, <1>2 DEF walk, HandoffTypeOK
<1>3. ASSUME NEW c \in Caller, NEW f \in File, rename(c, f)
      PROVE  HandInv'
  (* The file had the plain name, so nobody had it. *)
  <2>1. \A d \in Caller : f \notin Held(d)
    BY <1>0, <1>3 DEF rename
  <2>2. UNCHANGED <<handed, missing>> /\ name[f] # "none"
    BY <1>3 DEF rename
  <2>3. /\ taken'[c] = taken[c] \cup {f} /\ files'[c] = files[c] \ {f}
        /\ \A d \in Caller \ {c} : taken'[d] = taken[d] /\ files'[d] = files[d]
    <3> HIDE DEF HandInv
    <3> QED
      BY <1>0, <1>3 DEF rename, HandoffTypeOK
  <2>4. \A g \in File : name'[g] = IF g = f THEN "marked" ELSE name[g]
    BY <1>0, <1>3 DEF rename, HandoffTypeOK
  <2>5. HandedOnce'
    BY <2>1, <2>2, <2>3
  <2>6. MissingIsElsewhere'
    BY <2>2, <2>3
  <2>7. \A g \in File : name'[g] = "marked" => \E d \in Caller : g \in Held(d)'
    BY <2>2, <2>3, <2>4
  <2>8. /\ \A d \in Caller : \A g \in Held(d)' : name'[g] = "marked"
        /\ \A d \in Caller : \A g \in files'[d] : name'[g] # "none"
    BY <1>0, <2>2, <2>3, <2>4 DEF HandoffTypeOK
  <2>9. \A d \in Caller : files'[d] \cap Held(d)' = {}
    BY <2>1, <2>2, <2>3
  <2> QED
    BY <1>0, <2>5, <2>6, <2>7, <2>8, <2>9
<1>4. ASSUME NEW c \in Caller, NEW f \in File, rename_fails(c, f)
      PROVE  HandInv'
  (* A listed file whose name is not the plain one is held, not by c. *)
  <2>1. PICK d \in Caller : d # c /\ f \in Held(d)
    BY <1>0, <1>4 DEF rename_fails, HandoffTypeOK, Name
  <2> QED
    BY <1>0, <1>4, <2>1 DEF rename_fails, HandoffTypeOK
<1>5. ASSUME NEW c \in Caller, return(c)
      PROVE  HandInv'
  <2>1. /\ \A d \in Caller : d # c => taken'[d] = taken[d] /\ handed'[d] = handed[d]
        /\ taken'[c] = {} /\ handed'[c] = taken[c] \cup handed[c]
        /\ UNCHANGED <<name, files, missing>>
    BY <1>0, <1>5 DEF return, HandoffTypeOK
  <2> QED
    BY <1>0, <2>1
<1>6. ASSUME NEW c \in Caller, Kill(c)
      PROVE  HandInv'
  BY <1>0, <1>6 DEF Kill
<1>7. CASE UNCHANGED handoff_vars
  BY <1>0, <1>7 DEF handoff_vars
<1> QED
  BY <1>1, <1>2, <1>3, <1>4, <1>5, <1>6, <1>7 DEF HandoffNext, maildir_handler

(* No file is ever with two callers, nor taken again once it was returned, *)
(* for any number of clients that scan the directory at once.              *)
THEOREM EveryFileHandedOnce == HandoffSpec => []HandedOnce
<1>1. HandInv => HandedOnce
  BY DEF HandInv
<1> QED
  BY <1>1, HandInit, HandStep, PTL DEF HandoffSpec

(* A client is ended by FileNotFoundError only if another one was faster.  *)
THEOREM SoleCallerNeverFails == HandoffSpec => []MissingIsElsewhere
<1>1. HandInv => MissingIsElsewhere
  BY DEF HandInv
<1> QED
  BY <1>1, HandInit, HandStep, PTL DEF HandoffSpec

-----------------------------------------------------------------------------
(* The process logger.                                                     *)
CONSTANTS Proc, RecordMax, PipeMax
VARIABLES logged, buffer, place, pipe, record, log_active, file

Log == INSTANCE ProcessLogger WITH active <- log_active

(* InOrder is inductive together with the types. *)
LogInv == Log!TypeOK /\ Log!InOrder

LEMMA LogInit == Log!LoggerAssumption /\ Log!Init => LogInv
<1> SUFFICES ASSUME Log!LoggerAssumption, Log!Init
             PROVE  LogInv
  OBVIOUS
<1>1. Log!TypeOK
  BY EmptySeq DEF Log!LoggerAssumption, Log!Init, Log!TypeOK
<1>2. Log!Fed = <<>> /\ Len(Log!Fed) = 0
  BY ConcatEmptySeq, EmptySeq DEF Log!Init, Log!Fed
<1> QED
  BY <1>1, <1>2, EmptySeq DEF Log!Init, Log!InOrder, LogInv

(* Every step of the logger keeps the variables in their types.            *)
LEMMA LogTypes == ASSUME Log!LoggerAssumption, LogInv, [Log!Next]_(Log!vars)
                  PROVE  Log!TypeOK'
<1> USE DEF Log!LoggerAssumption, LogInv, Log!TypeOK
<1>1. ASSUME NEW p \in Proc, Log!log(p)
      PROVE  Log!TypeOK'
  <2>1. /\ logged'[p] \in 1..RecordMax /\ logged' = [logged EXCEPT ![p] = logged[p] + 1]
        /\ logged[p] + 1 \in 0..RecordMax
    BY <1>1 DEF Log!log
  <2>2. PICK r : r = [proc |-> p, number |-> logged'[p]]
    OBVIOUS
  <2>3. Append(buffer[p], r) \in Seq(Log!Record)
    <3>1. buffer[p] \in Seq(Log!Record) /\ r \in Log!Record
      BY <2>1, <2>2 DEF Log!Record
    <3> QED
      BY ONLY <3>1, AppendProperties
  <2>4. buffer' = [buffer EXCEPT ![p] = Append(buffer[p], r)]
    BY <1>1, <2>2 DEF Log!log
  <2> QED
    BY <1>1, <2>1, <2>3, <2>4 DEF Log!log
<1>2. ASSUME NEW p \in Proc, Log!Feed(p)
      PROVE  Log!TypeOK'
  <2>1. /\ Head(buffer[p]) \in Log!Record /\ Tail(buffer[p]) \in Seq(Log!Record)
    BY <1>2, HeadTailProperties DEF Log!Feed
  <2>2. pipe' \in Seq(Log!Record) /\ Len(pipe') = Len(pipe) + 1
    BY <1>2, <2>1, AppendProperties DEF Log!Feed
  <2> QED
    BY <1>2, <2>1, <2>2, LenProperties DEF Log!Feed
<1>3. CASE Log!Get
  <2>1. Head(pipe) \in Log!Record /\ Tail(pipe) \in Seq(Log!Record) /\ Len(Tail(pipe)) = Len(pipe) - 1
    BY <1>3, HeadTailProperties DEF Log!Get
  <2>2. record' \in Seq(Log!Record) /\ Len(record') = 1
    BY <1>3, <2>1 DEF Log!Get
  <2> QED
    BY <1>3, <2>1, <2>2, LenProperties DEF Log!Get
<1>4. CASE Log!Write
  BY <1>4, ConcatProperties, EmptySeq DEF Log!Write
<1>5. ASSUME NEW p \in Proc, Log!End(p) \/ Log!Leave(p)
      PROVE  Log!TypeOK'
  BY <1>5 DEF Log!End, Log!Leave
<1>6. CASE Log!Interrupt
  BY <1>6 DEF Log!Interrupt
<1>7. CASE UNCHANGED Log!vars
  BY <1>7 DEF Log!vars
<1> QED
  BY <1>1, <1>2, <1>3, <1>4, <1>5, <1>6, <1>7 DEF Log!Next, Log!run, Log!ProcStep

(* get_nowait() and the write take nothing out of the way. *)
LEMMA FedIs == ASSUME LogInv
               PROVE  /\ Log!Fed \in Seq(Log!Record)
                      /\ Log!Get \/ Log!Write => Log!Fed' = Log!Fed
                      /\ \A p \in Proc : Log!Feed(p) => Log!Fed' = Append(Log!Fed, Head(buffer[p]))
<1>1. /\ file \in Seq(Log!Record) /\ record \in Seq(Log!Record) /\ pipe \in Seq(Log!Record)
      /\ file \o record \in Seq(Log!Record) /\ Log!Fed \in Seq(Log!Record)
  BY ConcatProperties DEF LogInv, Log!TypeOK, Log!Fed
<1>2. ASSUME Log!Get
      PROVE  Log!Fed' = Log!Fed
  <2>1. /\ record = <<>> /\ record' = <<Head(pipe)>> /\ pipe # <<>> /\ pipe' = Tail(pipe) /\ file' = file
    BY <1>2 DEF Log!Get
  <2>2. Head(pipe) \in Log!Record /\ Tail(pipe) \in Seq(Log!Record) /\ pipe = <<Head(pipe)>> \o Tail(pipe)
    BY <1>1, <2>1, HeadTailProperties
  <2>3. <<Head(pipe)>> \in Seq(Log!Record)
    BY <2>2
  <2>4. (file \o <<Head(pipe)>>) \o Tail(pipe) = file \o (<<Head(pipe)>> \o Tail(pipe))
    BY <1>1, <2>2, <2>3, ConcatAssociative, SMTT(30)
  <2>5. file \o record = file
    BY <1>1, <2>1, ConcatEmptySeq
  <2> QED
    BY <2>1, <2>2, <2>4, <2>5 DEF Log!Fed
<1>3. ASSUME Log!Write
      PROVE  Log!Fed' = Log!Fed
  <2>1. file' = file \o record /\ record' = <<>> /\ pipe' = pipe
    BY <1>3 DEF Log!Write
  <2>2. file' \o record' = file \o record
    BY <1>1, <2>1, ConcatEmptySeq
  <2> QED
    BY <2>1, <2>2 DEF Log!Fed
<1>4. ASSUME NEW p \in Proc, Log!Feed(p)
      PROVE  Log!Fed' = Append(Log!Fed, Head(buffer[p]))
  <2>1. PICK r \in Log!Record : r = Head(buffer[p])
    BY <1>4, HeadTailProperties DEF LogInv, Log!TypeOK, Log!Feed
  <2>2. file' = file /\ record' = record /\ pipe' = Append(pipe, r)
    BY <1>4, <2>1 DEF Log!Feed
  <2>3. PICK f \in Seq(Log!Record) : f = file \o record
    BY <1>1
  <2>4. f \o Append(pipe, r) = Append(f \o pipe, r)
    <3>1. <<r>> \in Seq(Log!Record)
      OBVIOUS
    <3>2. Append(pipe, r) = pipe \o <<r>> /\ Append(f \o pipe, r) = (f \o pipe) \o <<r>>
      BY <1>1, <2>3, AppendIsConcat, ConcatProperties
    <3> QED
      BY <1>1, <3>1, <3>2, ConcatAssociative
  <2> QED
    BY <2>1, <2>2, <2>3, <2>4 DEF Log!Fed
<1> QED
  BY <1>1, <1>2, <1>3, <1>4

(* What a process does to its records leaves those of the others in order. *)
LEMMA LogStep == ASSUME Log!LoggerAssumption, LogInv, [Log!Next]_(Log!vars)
                 PROVE  LogInv'
<1>1. Log!TypeOK'
  BY LogTypes
<1>2. /\ logged \in [Proc -> 0..RecordMax] /\ buffer \in [Proc -> Seq(Log!Record)] /\ RecordMax \in Nat
      /\ Log!Fed \in Seq(Log!Record) /\ Len(Log!Fed) \in Nat /\ \A p \in Proc : Len(buffer[p]) \in Nat
  BY FedIs, LenProperties DEF LogInv, Log!TypeOK, Log!LoggerAssumption
<1>3. ASSUME Log!Fed' = Log!Fed, logged' = logged, buffer' = buffer
      PROVE  Log!InOrder'
  BY <1>3 DEF LogInv, Log!InOrder
<1>4. ASSUME NEW p \in Proc, Log!log(p)
      PROVE  Log!InOrder'
  <2>1. /\ Log!Fed' = Log!Fed /\ logged' = [logged EXCEPT ![p] = logged[p] + 1]
        /\ buffer' = [buffer EXCEPT ![p] = Append(buffer[p], [proc |-> p, number |-> logged[p] + 1])]
    BY <1>2, <1>4 DEF Log!log, Log!Fed
  <2>2. PICK r : r = [proc |-> p, number |-> logged[p] + 1] /\ r \in Log!Record
    <3>1. logged[p] + 1 \in 1..RecordMax
      BY <1>2, <1>4 DEF Log!log
    <3>2. [proc |-> p, number |-> logged[p] + 1] \in Log!Record
      BY <3>1 DEF Log!Record
    <3> QED
      BY <3>2
  <2>3. /\ Len(buffer'[p]) = Len(buffer[p]) + 1 /\ buffer'[p][Len(buffer[p]) + 1] = r
        /\ \A n \in 1..Len(buffer[p]) : buffer'[p][n] = buffer[p][n]
    BY <1>2, <2>1, <2>2, AppendProperties
  <2>4. ASSUME NEW o \in Proc
        PROVE  /\ logged'[o] - Len(buffer'[o]) = logged[o] - Len(buffer[o])
               /\ \A n \in 1..Len(buffer'[o]) :
                    buffer'[o][n] = [proc |-> o, number |-> logged'[o] - Len(buffer'[o]) + n]
    <3>1. \A n \in 1..Len(buffer[o]) : buffer[o][n] = [proc |-> o, number |-> logged[o] - Len(buffer[o]) + n]
      BY DEF LogInv, Log!InOrder
    <3>2. CASE o = p
      BY <1>2, <2>1, <2>2, <2>3, <3>1, <3>2
    <3>3. CASE o # p
      BY <1>2, <2>1, <3>1, <3>3
    <3> QED
      BY <3>2, <3>3
  <2> QED
    BY <2>1, <2>4 DEF LogInv, Log!InOrder
<1>5. ASSUME NEW p \in Proc, Log!Feed(p)
      PROVE  Log!InOrder'
  <2>1. /\ buffer[p] \in Seq(Log!Record) /\ buffer[p] # <<>> /\ logged' = logged
        /\ buffer' = [buffer EXCEPT ![p] = Tail(buffer[p])] /\ buffer'[p] = Tail(buffer[p])
    BY <1>2, <1>5 DEF Log!Feed
  <2>2. /\ Len(buffer'[p]) = Len(buffer[p]) - 1 /\ Head(buffer[p]) = buffer[p][1]
        /\ \A n \in 1..Len(buffer'[p]) : buffer'[p][n] = buffer[p][n + 1]
        /\ 1 \in 1..Len(buffer[p])
    <3>1. PICK b \in Seq(Log!Record) : b = buffer[p] /\ b # <<>> /\ buffer'[p] = Tail(b)
      BY <2>1
    <3>2. /\ Len(Tail(b)) = Len(b) - 1 /\ Head(b) = b[1]
          /\ \A n \in 1..Len(Tail(b)) : Tail(b)[n] = b[n + 1]
          /\ Len(b) \in Nat \ {0}
      BY HeadTailProperties, LenProperties, EmptySeq, <3>1
    <3> QED
      BY <3>1, <3>2
  <2>3. PICK fed : fed = logged[p] - Len(buffer[p])
    OBVIOUS
  <2>4. PICK r \in Log!Record : r = Head(buffer[p]) /\ r = [proc |-> p, number |-> fed + 1]
    <3>1. buffer[p][1] = [proc |-> p, number |-> fed + 1]
      BY <2>2, <2>3 DEF LogInv, Log!InOrder
    <3>2. Head(buffer[p]) \in Log!Record
      BY <2>1, HeadTailProperties
    <3> QED
      BY <2>2, <3>1, <3>2
  <2>5. PICK l \in Nat : /\ l = Len(Log!Fed) /\ Len(Log!Fed') = l + 1 /\ Log!Fed'[l + 1] = r
                         /\ \A i \in 1..l : Log!Fed'[i] = Log!Fed[i]
    <3>1. Log!Fed' = Append(Log!Fed, r)
      BY <1>5, <2>4, FedIs
    <3> QED
      BY <1>2, <3>1, AppendProperties
  <2>6. ASSUME NEW o \in Proc \ {p}
        PROVE  LET fed_o == logged'[o] - Len(buffer'[o])
               IN  /\ \A n \in 1..fed_o : \E i \in 1..Len(Log!Fed') : Log!Fed'[i] = [proc |-> o, number |-> n]
                   /\ \A i \in 1..Len(Log!Fed') : Log!Fed'[i].proc = o => Log!Fed'[i].number <= fed_o
                   /\ \A i, j \in 1..Len(Log!Fed') :
                        i < j /\ Log!Fed'[i].proc = o /\ Log!Fed'[j].proc = o => Log!Fed'[i].number < Log!Fed'[j].number
                   /\ \A n \in 1..Len(buffer'[o]) : buffer'[o][n] = [proc |-> o, number |-> fed_o + n]
    <3>1. logged'[o] = logged[o] /\ buffer'[o] = buffer[o]
      BY <1>2, <2>1
    <3>2. r.proc # o
      BY <2>4
    <3>3. \A i \in 1..(l + 1) : Log!Fed'[i].proc = o => i \in 1..l /\ Log!Fed'[i] = Log!Fed[i]
      BY <2>5, <3>2
    <3>4. \A n \in 1..(logged[o] - Len(buffer[o])) : \E i \in 1..(l + 1) : Log!Fed'[i] = [proc |-> o, number |-> n]
      <4>1. \A n \in 1..(logged[o] - Len(buffer[o])) : \E i \in 1..l : Log!Fed[i] = [proc |-> o, number |-> n]
        BY <2>5 DEF LogInv, Log!InOrder
      <4>2. \A i \in 1..l : i \in 1..(l + 1)
        OBVIOUS
      <4> QED
        BY <2>5, <4>1, <4>2
    <3>5. /\ \A i \in 1..(l + 1) : Log!Fed'[i].proc = o => Log!Fed'[i].number <= logged[o] - Len(buffer[o])
          /\ \A i, j \in 1..(l + 1) :
               i < j /\ Log!Fed'[i].proc = o /\ Log!Fed'[j].proc = o => Log!Fed'[i].number < Log!Fed'[j].number
      BY <2>5, <3>3 DEF LogInv, Log!InOrder
    <3>6. \A n \in 1..Len(buffer[o]) : buffer[o][n] = [proc |-> o, number |-> logged[o] - Len(buffer[o]) + n]
      BY DEF LogInv, Log!InOrder
    <3> QED
      BY <2>5, <3>1, <3>4, <3>5, <3>6
  <2>7. logged'[p] - Len(buffer'[p]) = fed + 1
    BY <1>2, <2>1, <2>2, <2>3
  <2>8. ASSUME NEW n \in 1..(fed + 1)
        PROVE  \E i \in 1..(l + 1) : Log!Fed'[i] = [proc |-> p, number |-> n]
    <3>1. CASE n = fed + 1
      BY <2>4, <2>5, <3>1
    <3>2. CASE n # fed + 1
      <4>1. n \in 1..fed
        BY <1>2, <2>3, <3>2
      <4>2. PICK i \in 1..l : Log!Fed[i] = [proc |-> p, number |-> n]
        BY <2>3, <2>5, <4>1 DEF LogInv, Log!InOrder
      <4> QED
        BY <2>5, <4>2
    <3> QED
      BY <3>1, <3>2
  <2>9. \A i \in 1..l : /\ Log!Fed[i] \in Log!Record /\ Log!Fed[i].number \in Nat
                        /\ Log!Fed[i].proc = p => Log!Fed[i].number <= fed
    <3>1. \A i \in 1..l : Log!Fed[i] \in Log!Record
      BY <1>2, <2>5, ElementOfSeq
    <3>2. \A e \in Log!Record : e.number \in Nat
      BY <1>2 DEF Log!Record
    <3>3. \A i \in 1..l : Log!Fed[i].proc = p => Log!Fed[i].number <= fed
      BY <2>3, <2>5 DEF LogInv, Log!InOrder
    <3> QED
      BY <3>1, <3>2, <3>3
  <2>10. \A i \in 1..(l + 1) : Log!Fed'[i].proc = p => Log!Fed'[i].number <= fed + 1
    <3>1. fed \in Int
      BY <1>2, <2>3
    <3> QED
      BY <2>4, <2>5, <2>9, <3>1
  <2>11. ASSUME NEW i \in 1..(l + 1), NEW j \in 1..(l + 1), i < j, Log!Fed'[i].proc = p, Log!Fed'[j].proc = p
         PROVE  Log!Fed'[i].number < Log!Fed'[j].number
    <3>1. fed \in Int /\ i \in 1..l /\ Log!Fed'[i] = Log!Fed[i]
      BY <1>2, <2>3, <2>5, <2>11
    <3>2. CASE j = l + 1
      BY <2>4, <2>5, <2>9, <2>11, <3>1, <3>2
    <3>3. CASE j # l + 1
      <4>1. j \in 1..l /\ Log!Fed'[j] = Log!Fed[j]
        BY <2>5, <3>3
      <4> QED
        BY <2>5, <2>11, <3>1, <4>1 DEF LogInv, Log!InOrder
    <3> QED
      BY <3>2, <3>3
  <2>12. \A n \in 1..Len(buffer'[p]) : buffer'[p][n] = [proc |-> p, number |-> (fed + 1) + n]
    <3>1. \A n \in 1..Len(buffer[p]) : buffer[p][n] = [proc |-> p, number |-> fed + n]
      BY <2>3 DEF LogInv, Log!InOrder
    <3> QED
      BY <1>2, <2>1, <2>2, <2>3, <3>1
  <2> QED
    <3>1. ASSUME NEW o \in Proc
          PROVE  LET fed_o == logged'[o] - Len(buffer'[o])
                 IN  /\ \A n \in 1..fed_o : \E i \in 1..Len(Log!Fed') : Log!Fed'[i] = [proc |-> o, number |-> n]
                     /\ \A i \in 1..Len(Log!Fed') : Log!Fed'[i].proc = o => Log!Fed'[i].number <= fed_o
                     /\ \A i, j \in 1..Len(Log!Fed') :
                          i < j /\ Log!Fed'[i].proc = o /\ Log!Fed'[j].proc = o => Log!Fed'[i].number < Log!Fed'[j].number
                     /\ \A n \in 1..Len(buffer'[o]) : buffer'[o][n] = [proc |-> o, number |-> fed_o + n]
      <4>1. CASE o = p
        BY <2>5, <2>7, <2>8, <2>10, <2>11, <2>12, <4>1
      <4> QED
        BY <2>6, <4>1
    <3> QED
      BY <3>1 DEF Log!InOrder
<1>6. CASE Log!run
  <2>1. Log!Fed' = Log!Fed
    BY <1>6, FedIs DEF Log!run
  <2>2. logged' = logged /\ buffer' = buffer
    BY <1>6 DEF Log!run, Log!Get, Log!Write
  <2> QED
    BY <1>1, <1>3, <2>1, <2>2 DEF LogInv
<1>7. CASE Log!Interrupt \/ UNCHANGED Log!vars \/ \E p \in Proc : Log!End(p) \/ Log!Leave(p)
  BY <1>1, <1>3, <1>7 DEF LogInv, Log!Interrupt, Log!vars, Log!End, Log!Leave, Log!Fed
<1> QED
  BY <1>1, <1>4, <1>5, <1>6, <1>7 DEF LogInv, Log!Next, Log!ProcStep

(* Whatever the logging process and the feeder threads do, the log file    *)
(* has the first records of each process in their order, none twice and    *)
(* without gaps; the others are, in this order, in hand, in the pipe and   *)
(* in the buffer of the process, where an interrupt of run() leaves them.  *)
THEOREM RecordsStayInOrder ==
  ASSUME Log!LoggerAssumption
  PROVE  Log!Spec => [](Log!TypeOK /\ Log!InOrder)
BY LogInit, LogStep, PTL DEF Log!Spec, LogInv
=============================================================================
