# Verification of the SMTP server and of its reference programs

TLA+ models of the two bodies of code in this repository, with the runs of the
model checker TLC and the proofs checked by TLAPS:

- the mail server, in Python (`server/`, `common/`), and the part of its client
  that meets it in the mail directory (`client/utils.py`);
- the programs the course work builds on, in C (`refs/`): the databases, queues,
  servers, services and loggers of `examples/posix-programming_labs`, the
  template library and its tools of `libs/cfsm_lib`, and the session server of
  `libs/autogen`.

`PROJECT.json` lists the components, the runs, the lines each definition stands
for, the findings, the hazards and the theorems; this file explains them.

## 1. Inventory

### The mail server

`MailServer` opens a listening socket and forks `processes_cnt` working
processes; each runs the same `select()` loop and serves its own clients; each
session has a state machine (the `transitions` library), a `Mail`, and a logging
process. Finished mails become files.

| component | state | operations | interacts with |
|---|---|---|---|
| pool of processes (`mail_server.py`, `WorkingProcess`) | where each process is in `run()`; its copy of `server.clients`; the shared listening socket | `select`, `accept`, timeout of `accept`, exceptions, interrupt | the kernel's backlog; each other, through the one socket |
| loop and handlers (`handle_client_read`, `handle_client_write`, `Client`, `ClientsCollection`, `ClientSocket`) | `clients`, the lists of `select()`, per client: state, flag, recipients, body, file name | one read or write handler per ready socket | state machine, storage, sockets |
| session state machine (`SMTP_FSM.py`, `state.py`) | 13 states | 17 triggers; regular expressions choose them | called by both handlers; replies are sent by its `before` handlers |
| mail storage (`common/mail.py`) | files in one directory per local user, and one for foreign mail | `to_file`, `from_file` | called at the end of a message; read by the client |
| lifecycle (`serve`, `__enter__`, `__exit__`, `main.py`) | main process, flags, children | start, leave the `with` block, Ctrl-C | all processes; joins of children |
| process logger (`custom_logger_proc.py`) | queue, loop, file | `log`, `run`, `terminate` | one process for the server, one per session |
| maildir handler (`client/utils.py`) | `files_in_process` | scan, rename, return | the files of `to_file` |

What is hard, and what has to be right:

- **Several processes, one listening socket.** All are woken by one connection;
  those that lose the race wait in `accept()` until its timeout ends them. The
  pool must not die of it, and a connection must be accepted in the end.
- **A loop over lists that get stale.** `rfds` and `wfds` are computed once per
  turn, while the handlers fire triggers and remove clients.
- **TCP is a stream.** What one `recv()` returns is taken for a line, though
  lines arrive joined and cut. Replies must stay in step with commands, and the
  stored message must be the one that was sent.
- **Flags and lists that survive.** `data_start_already_matched`, `mail.to` and
  `mail.body` live as long as the session and not as long as a mail.
- **Failure in the middle.** `to_file` writes several files in a loop and its
  result is ignored; an exception of one client ends all clients of the process.
- **Processes that wait for processes.** Every process joins its children; the
  flags that should end them are set in another process's memory.
- **Two programs, one directory.** The client renames files that the server may
  still be writing, and that another client may be renaming.

### posix-programming_labs

A server is linked with a database (`struct vdb`), a database with queues
(`struct vqueue`); a service library turns any of them into a daemon with a pid
file, and a logging library sends its output through pipes to plug-ins.

| component | state | operations | interacts with |
|---|---|---|---|
| request queues (`req_queue_cnd`, `req_queue_sem`) | a list under a mutex and a condition variable; a ring between two semaphores | `push`, `pop`, `stop` | used by `db_parallel`, one queue for each of its threads |
| databases (`db_simple`, `db_lock`, `db_parallel`) | a red-black tree; the same for each of `N_SUBS` hash values, behind a read-write lock, or with a thread and a queue | `set`, `geta`, `destroy` | called by all threads of a server; answers through `async_result()` |
| servers (`server_thread`, `server_poll`, `server_dumb`, `server_lib`) | list of threads, slots of connections, buffers, a pipe of answers | accept, receive, process, answer, hang up, end by a signal | database, clients |
| services (`srvc_lib`, `srvc_runner`) | pid file, processes, signal handlers | start, stop | each other, through the pid file and signals |
| logging (`log_lib`, `log_dlibs`, `log_setup`) | redirected descriptors, loggers, line buffer | start, print, SIGPIPE, stop | the program whose output it takes |

What is hard: a look at a queue outside its mutex; a value that is freed before
its successor is there, with readers about; the order in which threads and queues
end; an entry that its thread and the main thread may both free; a slot used
again while the answers of its last client are still under way; a pipe that is
full when nobody will read it any more; requests cut and joined by the network;
a pid file that two programs create and remove; a signal before its handler.

### cfsm_lib and autogen

| component | state | operations | interacts with |
|---|---|---|---|
| objects (`mobject.c`, `helpers.c`) | strings, numbers, arrays, dictionaries; who owns each | create, set, insert, pull, delete, copy, free | used by all the others |
| name space (`mnamespace.c`) | a tree of dictionaries and arrays | set, lookup of `a.b[1].c` | templates |
| templates (`mtemplate.c`) | nodes, the open block, activations | parse, run | name space |
| programs (`cfsm.c`, `mtc.c`) | options, files | compile, render | templates, files |
| session server (`libs/autogen`) | generated state machine, `user`, `password` | `USER:`, `PASSWORD:`, `QUIT` from a file | - |

What is hard: containers that own what they hold while their slots keep old
pointers; a call that makes half of a path and fails; the nesting of blocks with
an `else` part; words of an earlier attempt that are still there at a later one.

## 2. Modules

| module | what it models | uses |
|---|---|---|
| `AcceptPool` | the processes of the pool and the race for `accept()` | - |
| `SmtpFsm` | states and transition table | - |
| `SmtpLine` | what `recv()` returns, and what the patterns accept of it | - |
| `Mail` | `to_file`: boxes, order, refusals, failures | `SmtpLine` |
| `WorkerLoop` | the loop of one process with both handlers, its sockets and any clients | `SmtpFsm`, `Mail` |
| `SmtpDialog` | the same with clients that wait for each reply, as `smtplib` in the tests | `WorkerLoop` |
| `MailTransfer` | abstract: a mail enters its boxes at once, then its sender is told | - |
| `ServerLifecycle` | main process, working processes, loggers: start, end, join, Ctrl-C | - |
| `ProcessLogger` | the queue from `log()` to the file | - |
| `MaildirHandoff` | `to_file` against `maildir_handler` | - |
| `RequestQueue` | abstract: requests in order, NULL at the end | - |
| `CndQueue`, `SemQueue` | `req_queue_cnd`, `req_queue_sem` | - |
| `VirtualQueue` | one of the two behind `struct vqueue` | both, `RequestQueue` |
| `VdbCalls`, `Vdb` | the calls of a database; abstract: what it promises | - |
| `StringHash` | which part a key lives in | - |
| `LockDb`, `ParallelDb` | `db_lock`, `db_parallel` | `VdbCalls`, `StringHash` |
| `VirtualDb` | one of the two behind `struct vdb` | both, `Vdb` |
| `RbTree`, `SimpleDb` | the macros of `tree.h`; `db_simple` in them | - |
| `ThreadServer`, `PollServer` | `server_thread`, `server_poll` | - |
| `Telnet` | the protocol by the character, `server_dumb`, `telnet_client` | - |
| `Service` | `srvc_lib`, `srvc_runner` | - |
| `LogRedirect`, `LineBuffer` | `log_lib` and its plug-ins; the cutting of lines | - |
| `Mobject`, `Mnamespace`, `Mtemplate`, `TemplateTools` | `cfsm_lib` | - |
| `Session` | `libs/autogen` | - |
| `WorkerLoopProofs`, `SmtpDialogProofs`, `PollServerProofs`, `SimpleDbProofs` | theorems | the module named; `SmtpDialogProofs` also `WorkerLoopProofs` |
| `LabsServersProofs` | theorems | `Service`, `LogRedirect`, `ThreadServer` |
| `ProcessesProofs` | theorems | `AcceptPool`, `ServerLifecycle`, `MaildirHandoff`; an instance of `ProcessLogger` |
| `LabsDataProofs` | theorems | `LockDb`, `CndQueue`, `LineBuffer`; instances of `ParallelDb`, `SemQueue` |
| `LibsProofs` | theorems | `Session`, `Mobject`, `Mnamespace`, `Mtemplate`, `TemplateTools` |
| `WorkerLoopMC` | constants of the runs of `WorkerLoop` and `SmtpDialog` | `SmtpDialog` |
| `ProcessesMC`, `LabsDataMC`, `LabsServersMC`, `LibsMC` | suites, see section 3 | see there |

### AcceptPool

`pc[w]` says where process `w` is in `run()`; `pending` is the backlog of the
socket, `clients[w]` the process's `server.clients`. `SelectListener` is the
return of `select()` with the listening socket, which is always the first entry
of `rfds`, so that `accept()` comes before any client. `Accept` and
`AcceptTimeout` are its two ends; the exceptions `run()` catches and those it
does not both end it (`HandlerError`, `Interrupt`). What a handler does to a
client is left to `WorkerLoop`; here a client stays, is finished, or causes an
exception.

### SmtpFsm, SmtpLine, Mail

`Table` is the list of `init_transition` calls; the `'*'` rows are expanded as
the library expands them. `WriteTrigger` is the chain of tests of
`handle_client_write`.

A text that `recv()` returns is a non-empty sequence of *pieces*, where a piece
is a stretch of what was sent up to the next place at which TCP may cut it. The
kinds of pieces are those that the patterns of `state.py` and the tests of
`handle_client_read` tell apart: a command, a line that only begins like one, a
line whose last character is a dot, one with a dot among its last eight
characters, a short line, a lone dot, a text torn inside a character. A line can
be one piece or be cut anywhere inside: `Part(p)` is the line `p` up to a place
behind its first word (`RCPT TO:<a`, or a final dot without its line end),
`Stub(p)` up to a place inside it, and `REST` or `LF` what follows; a stretch of a
message that reads like something else is a piece of that kind (`TEXT`,
`DATAWORD`, `SENTENCE`, and so on). `LF` is there because the patterns take a line
that ends with `\r`, while QUIT and RSET are compared with their whole line end.
The patterns are operators on such sequences, with their anchors: one that is
anchored at the start only looks at `FirstLine`, one anchored at the end at
`LastLine`, and `DATA_start_pattern`, anchored at both, at the whole text. So
lines that arrive joined, cut or both are read as the code reads them.

`to_file(to)` is the set of its possible ends: the boxes written, the boxes with
a file that is broken off, and the exception raised. Two early returns write
nothing and raise nothing. A null recipient has no `split()`, so the loop raises
`AttributeError` there, after the boxes before it. A failing disk raises
`OSError` at any box: `makedirs()` and `open()` leave no file there, `write()` and
the `close()` of its buffer leave one that is cut.

### WorkerLoop

One step is one handler, run to its end, since nothing else runs in the process
meanwhile; between the steps clients connect, send, receive and close, other
processes of the pool accept connections, and an interrupt may come. The actions
and the code:

| action | code in `mail_server.py` |
|---|---|
| `Select` | 178-180; when nothing is ready for `READ_TIMEOUT` the loop turns, a stuttering step |
| `Accept`, `AcceptTimeout` | 182-185; 190 |
| `ReadCommand`, `ReadMailFrom`, `ReadRecipient`, `ReadDataStart`, `ReadDataAdditional`, `ReadDataEnd`, `ReadDropped` | the branches of `handle_client_read`, chosen by `ReadTrigger` in their order |
| `ReadEof`, `ReadFails` | `recv()` returns `''` (no branch removes the client), raises, or returns what does not decode |
| `WriteReply`, `WriteNothing`, `WriteFails` | `handle_client_write`, with `clients.pop` after `QUIT_write` |
| `Lookup` | `self.server.clients[fds]` of both loops, `KeyError` when it misses |
| `ReadsDone`, `WritesDone` | the ends of the two `for` loops |

`rfds` and `wfds` are sets whose elements are handled in any order; the code uses
the order of the dictionary. The sets include that order and are what lets the
properties be proved. `Fire` is a trigger of the machine with its
`MachineError`: the `before` handler runs first, so a reply whose `send()` fails
leaves the state as it was. A client that closes with unread replies resets the
connection, as does a reply to a client that has closed.

Not in the module: the branch for `socket.timeout` in `handle_client_read`
(67-70), which needs a socket that `select()` reported and `recv()` then waits
on; a `send()` that waits, for the same reason; `log()`, whose effects are
`ProcessLogger`'s.

### SmtpDialog and MailTransfer

`SmtpDialog` replaces the free clients by clients that do what the tests do
through `smtplib`: each command waits for the last reply, the message is sent
at once, so it arrives joined and cut in any way.

Not every cut is harmless, since the server looks at the beginning and the end of
what one `recv()` returned: a chunk that ends behind a dot in the middle of a
line is dropped, a final dot without its line end is dropped and the message
never ends, and a chunk that begins with `data` or `rcpt to:` is taken for a
command. Nothing can be promised to a client whose message is cut so. `Calm` is
the set of connections on which every cut falls where the server takes it
(`IsCalm`): between lines or inside them, but not behind a dot or before such a
word, and not inside a command or the final dot. The other connections are cut
anyhow, and what is promised to those in `Calm` is promised in spite of them.

`MailTransfer` is this promise; the refinement maps the files of a session, by the
name the session holds, to the abstract `delivered`, and the sessions that sent
`250 Ok: queued` to `told`. A delivery to several boxes is one abstract step:
`to_file` must write all of them before anybody is told. A disk that fails is
`BreakOff`: some boxes are whole, one may have a `FragmentOf` the letter, and the
server is over (`broken`); `Stop` is any other end, as by a character that is cut
on another connection.

### ServerLifecycle

The main process goes from `serve()` to its blocking loop or to the body of the
`with` block, then to the join of its children at its exit. A fork copies
objects, so `active` has only the main process's values of the flags: no action
of a working process reads it, because a working process has its own copy, which
nobody changes. `CtrlC` posts the interrupt to every process of the terminal
group, `InterruptMain` to the main process alone; each process takes it in a step
of its own (`MainTakes`, `WorkerTakes`, `SessionLoggerTakes`, `LoggerTakes`) while
the others go on. So a working process may fork the logger of a session between
the Ctrl-C and its own `KeyboardInterrupt`; that logger gets nothing, and the
process then joins it (`late`). A process that is over joins its children and
then the threads that feed the pipes of its queues: when an interrupted logger
has left a full pipe unread, such a thread never ends (`stuck`, which
`SessionLoggerTakes` may add to, since whether the pipe is or becomes full is the
matter of `ProcessLogger`). `CtrlCEndsPool` names both: a Ctrl-C ends a process
or leaves it held up at one of these joins (`HeldUp`), and then the next one ends
it, because it gives up the join. Signals that strike inside `fork()` or a second
time inside a handler are left out.

### ProcessLogger

`log()` appends to a buffer of the calling process, a feeder thread moves it to
the pipe, and `run()` takes it from there and writes it. A process that is over
waits for its feeder thread. `Interrupt` ends the loop of `run()` and loses what
is in hand.

### MaildirHandoff

`open` is the `open(...)` of `to_file`, which gives a file its final name in the
directory that is scanned. `walk`, `rename`, `rename_fails` and `return` are
`maildir_handler`, called in a loop by any number of clients; `Kill` ends one
anywhere. What the server writes into a file after `open`, and what a client
reads, is not in the module: nothing that loads reads the returned files.

### RequestQueue, CndQueue, SemQueue, VirtualQueue

`RequestQueue` is the promise: requests come out as they went in, once each, and
`pop()` gives NULL only after `stop()` and the last request. In `CndQueue`
whatever stands between the lock of the mutex and its unlock or wait is one step;
the look at the queue outside the mutex at the top of the loop of `pop()` is
another, and a wait may wake for no reason. The abstract `contents` is what
`pop()` has moved to its own list, followed by the shared one. In `SemQueue` the
slot with its index is one step and each semaphore another; the NULL that
`stop()` pushes is an entry like the others, and the `assert()` that a slot is
empty is `SlotIsFree`. `VirtualQueue` is the choice of `create_queue`: both
implement `RequestQueue` under one refinement each.

### VdbCalls, StringHash, Vdb, LockDb, ParallelDb, VirtualDb

`Vdb` is the promise to the threads of a server: the calls of one caller on one
key take effect in the order of the calls, each at one moment, and every `geta()`
is answered once with the value of its moment. `LockDb` has the read-write lock
of each part and, inside it, the steps another thread would see without it: the
old value freed (`HOLE`), the new one stored, a node found, its value copied.
`ParallelDb` has the creation of queues and threads with every failure in the
middle, the requests as `RequestQueue` keeps them, one thread per part, and
`destroy()`, which must stop, join and free in that order while requests are in
the queues. `StringHash` is `string_hash()` with its mask and the sign of `>>`.

### RbTree, SimpleDb

`RbTree` has one operator per turn of the loops of `tree.h` (`RB_INSERT_COLOR`,
`RB_REMOVE_COLOR`, the rotations), written once for both sides where the macros
write it twice; the steps of a turn of `RB_REMOVE_COLOR` have names of their own
(`BlackSibling`, `RedOuter`, `MakeUp`). `SimpleDb` calls them from `set()` and
`destroy()`. A node is its key; the tree is the pointers and the colours, not an
abstract set.

### ThreadServer, PollServer, Telnet

`ThreadServer` has the main thread of `server_thread` (accept, create, count,
join), the threads, `threads.lock`, `state_lock` and the list. SIGTERM clears
`running` in whichever thread the kernel picks. Entries are freed, not forgotten,
so that a use after a free is a state. The code has two: a thread that has removed
its entry reads `thread->server` in it to unlock the state (`thread_server.c:72`),
and `LIST_FOREACH` reads the link of the entry that was just joined and freed
(`client_thread.c:83`). Both are steps of the module (`thread_unlock`,
`join_next`, which may crash). `FreedReadAtTwoPlaces` says that there is no third
and that nothing is freed twice; it does not say that these two are right.

`PollServer` has the slots of `server_poll`, their buffers, the counters of gets,
and the pipe of answers. The database is external and what `Vdb` says: it takes a
get over, finds values in any order, calls `async_response()` once for each; it
waits in `write()` while the pipe is full.

Of the end of both servers, `ThreadsEnd` and `ShutdownEnds` (in `EveryStopEnds`)
speak from the moment at which the signal is noticed (`StopNoticed`,
`TermNoticed`): a signal that comes between the test of `running` and `accept()`
or `poll()` is noticed only with the next connection or event, if there is one,
and both servers wait until then. They name the ends that go wrong: a crash at a
freed entry, a failed `pthread_create()` that keeps the lock (`LockLost`), a
failed `accept()` (`AcceptFailed`); a pipe that is full when nobody reads it any
more, and the assertion that fails when an answer is left in it.

`Telnet` has the protocol by the character: a `recv()` brings any part of what
was sent, `buffer_find` looks for the first `\r\n`, the answers of `server_poll`
pass its write buffer. The server is `server_dumb` or one connection of `server_poll`; the
client waits for each answer, or does not, or is `telnet_client`. `AnswersMatch`
says that a client gets the right answers in the order of its requests, with one
exception: the client of `server_poll` that does not wait, for which the reply to
a set or a delete overtakes the answers of earlier gets. That each of its answers
is right and comes once is `AnswersRight` of `PollServer`.

### Service

`start` and `stop` of the sample program (which supervises its service) and of
the runner (which becomes it), with the pid file as an object that may be held
open after it was removed, failures of `open()`, `fdopen()` and `fork()`, and
SIGTERM before and after its handlers are set.

### LogRedirect, LineBuffer

`LogRedirect` has the descriptors of the two streams, the pipes with their
writers, the processes of `logfile` (one per stream, whose end the program learns
by SIGPIPE and answers by taking the stream back) and of `logfile2` (one that
polls both), and `stop()`. Until `set_sig_handlers()` has said that its children
leave no zombies, a logger that ends is one, which `kill(pid, 0)` still finds: its
stream never comes back, and `ComesBack` leaves it out. `LineBuffer` is the cutting of what `read()` returns
into lines, with the `...` of a line that does not fit.

### Mobject, Mnamespace, Mtemplate, TemplateTools

`Mobject` has the heap of objects, the slots of an array beyond its `nused`, and
who owns what; every call of `mobject.c` that creates, moves or frees is an
action, with its failures and its limits. One failure is left out:
`mobject_deepcopy()` does not look at what `marray_set()` returns, so that a copy
made when memory ends lacks an entry that nobody frees. What is
below an object (`Below`) is the least set that has it and is closed under
holding; that is how far `mobject_free()` and `mobject_deepcopy()` descend.
`Mnamespace` has `mnamespace_set()` as
one step that returns its code and leaves what it made: the containers it comes
through (`Current`), the step of the location where it ends (`End`), and what
that makes of them, from the last back to the first (`After`). These, and
`mnamespace_lookup()`, are recursive functions, so that they can be proved about.
`Mtemplate` has the
parser as a step per directive, with the open block and the list that grows, and
the run as a stack of activations of `mtemplate_run_nodes()`, each with its own
copy of the local namespace: the key and the value of each loop variable, or
neither yet (`Locals`). A loop ends early without an error when
`miterator_next()` has no memory for a key (`loop_starves`); the run goes on, and
what it writes is not the whole. `starved` records that, and `Rendered` makes its promise for the
runs in which it did not happen. `Meaning` is what the tree should
give, without the stack; `TreeIsTemplate` ties the tree to the template, by writing it as a
template again (`Rewritten`). The blocks that are open then (`Open`) are the
least set that has the block being parsed, and the block around each of its
blocks. `Meaning` and `Rewritten` are recursive functions, so that they can be
proved about. Loops are over arrays: those over dictionaries differ only in their keys.
`TemplateTools` has the options of `cfsm` and `xtc`, the files they make and the
failures in between. The text that is rendered waits in the buffer of its stream
until `fclose()`, whose result neither program looks at: with a full disk it ends
well and the end of a text is lost (`lost`). So `MadeWhatWasAsked` does not promise
that a text is whole; it promises that each is made in its own place and is whole
unless its own `fclose()` lost its end, and that no other file is cut.

### Session

The table of `server-fsm.c` and the functions that `server-cmd.c` and
`server-parse.c` run around it, for a file of commands and of lines that are
none; `DefStep` is the transition of `server.def`, from which AutoFSM has
generated the table. A user counts for `SessionIsAuthorized` only if it was taken
(`UserTaken`): one that comes while another waits for its password is refused.

## 3. Runs

Four runs are *suites*: parts that share no state stand in one configuration, and
the variable `part` says which of them a behaviour is about, while the others
rest in an initial state. Such a run is the union of the runs of its parts, not a
product.

| run | instance | distinct states | shows |
|---|---|---|---|
| `worker_one` | 1 client, about 500 scripts, buffer of 2 pieces, lines cut inside, disk may fail | 3.6 million | `DispatchSound`, `SpokenTo`, `RecipientsAnswered`, `WholeOrEnded`, `QueuedIsStored`, `QueuedAfter354` |
| `dialog` | 2 lock-step clients, one of them cut anyhow; 8 scripts; disk may fail | 120 000 | `RepliesInOrder`, `StoredIntact`, `DialogCompletes`, the refinement `TransferSpec` |
| `processes` | `AcceptPool`, `WorkerLoop` with two clients, `ServerLifecycle`, `ProcessLogger`, `MaildirHandoff` | 110 000 | `RaceLeavesAWorker`, `PendingAccepted`; `EveryoneIsRead`; `LoggersHaveParents`, `CtrlCEndsPool`; `EverythingWritten`; `HandedOnce`, `MissingIsElsewhere`, `EveryFileTaken` |
| `labs_data` | `VirtualQueue`, `VirtualDb`, `SimpleDb`, `LineBuffer` | 52 500 | the refinements `QueueSpec` and `VdbSpec`; `NoHoleRead`; `TreeOfKeys`; `PiecesDontMatter` |
| `labs_servers` | `ThreadServer`, `PollServer`, `Telnet`, `Service`, `LogRedirect` | 266 000 | `FreedReadAtTwoPlaces`; `QueueCount`, `AnswersRight`, `EveryoneServed`; `OneService`, `PidfileRemoved`; `LogKept`; `EveryStopEnds` |
| `libs` | `Mobject`, `Mnamespace`, `Mtemplate`, `TemplateTools`, `Session` | 205 000 | `OneOwner`; `SetIsFound`; `Rendered`; `MadeWhatWasAsked`; `ServerFollowsDef`, `SessionIsAuthorized` |

Each property is stated in its module, or for a suite in the suite's module from
those of its parts, with a comment that says what it promises. The other runs are
expected to find a violation, each of one property that a document, a comment, an
assertion or a reply of the program states (section 4).

Bounds, and why they are enough for what is asked:

- `worker_one`: the scripts are an envelope and `DATA` followed by up to three
  pieces out of seven kinds, an `EHLO` followed by up to two of eight kinds,
  three long ones (two mails in a session, `DOT` without `DATA` after a first
  mail, lines that begin like commands), and three with lines that are cut inside:
  before the line end of the final dot, before a line feed, inside a command and
  inside its first word. A buffer of two pieces both joins and separates them.
  `MaxRecipients` 2 is exceeded by three recipients.
- `dialog`: of the two clients one is in `Calm`, with a mail to the maildir and a
  local box or to one box, and a message of two lines, one of which reads like
  `QUIT`, or of none; the other is of the same kind or cut at a wrong place: before
  `data` or `rcpt to:` in a line, inside a character, around the line end of the
  final dot, inside a command. The buffer takes all of a message or parts. The disk
  may fail at any box.
- `processes`: of the pool's three processes two can lose one race while the
  third serves, and a later of three connections can still save one of the
  losers; a backlog of one is what `listen(0)` keeps. In the loop the second
  client, with another of three scripts, is what makes lists stale and turns
  unfair. In the lifecycle two processes with one session each are what the
  properties tell apart, a process and its own loggers: no working process looks at
  another one, and a logger that was there before a Ctrl-C or came after it can be
  the one. (`lifecycle_exit` has two sessions.) Two processes that log three records each fill a
  pipe of two and keep one waiting. Two files and two clients of the maildir are
  the first number with a race. `SndBuf` 20 is never reached by a few replies.
- `labs_data`: two producers with three requests each make the list of `pop()`
  and the shared one both non-empty, one of three requests goes round the ring
  of two. One caller with two calls and one with one call have an order to keep
  and a race; two keys of two different parts separate the locks; `N_SUBS` is 3
  instead of 255, a power of two less one as there. The tree has up to seven
  nodes, in which every case of the recolouring occurs. Eight characters meet a
  buffer of five with its null.
- `labs_servers`: two threads end while the main thread joins. Two connections
  compete for two slots; one of them asks for two gets without waiting, so that
  its slot is left while they are under way and a pipe of two can be full. One
  client of the protocol sends two requests, which are joined or cut anywhere in
  a buffer of seven. Two starts and two stops meet at one pid file. Three lines
  go through pipes of two.
- `libs`: three objects are a container, what it holds and what comes in its
  place; the allocation of an array begins at one and its limit is five, so that
  growth, refusal and the overflow of `size_t` occur. Locations have up to three
  steps and two calls meet. Templates have up to five directives and texts (comments are not counted), enough for a
  block in the `else` part of another. Command lines have up to three options,
  files of the session up to five lines: a failed attempt and a good one.

Only `libs` uses symmetry, of the objects of `Mobject`: nothing distinguishes
them, and the run's properties are invariants and an action property, no
liveness. Deadlock is not checked, because all of these systems may stop: every
client has said everything, every process has ended.

### Fairness

Assumed is only that what can go on does, which the scheduler of the operating
system gives. In the mail server that is weak fairness of `Iterate` (one process
of the pool), `run` (the loop of a working process), `MainStep` and
`WorkerJoined` (a process whose children are gone), `MainTakes`, `WorkerTakes` and
`SessionLoggerTakes` (a process takes an interrupt that was posted to it; in which
order is open), `run`, `Feed` and `Leave` of
the logger, and `maildir_handler` of a client that calls in a loop. In C it is
the next step of a thread: a producer and the popper of a queue, a caller inside
a database, the threads of `db_parallel`, the main thread and the live threads of
`server_thread`, the loop of `server_poll` when `poll()` reports, a start of a
service, the loggers and the stop of logging. `VirtualDb` and `PollServer` need
no fairness of mutexes and locks beyond that: the waits that the properties
speak of end in the finite number of calls of the other side. The database of
`PollServer` answers in the end, as `Vdb` promises and `VirtualDb` shows.

Nothing is assumed of clients that connect, send or hang up, of errors, signals
and interrupts, with three exceptions: the clients of `SmtpDialog`, which like
`smtplib` do not give up (`ClientStep`), without which `DialogCompletes` would be
false; the client of `Telnet` that receives what has arrived; and `ThreadsEnd`
of `ThreadServer`, whose premise is that every client hangs up or asks on, because
a thread sits in `recv()` until then. `ThreadsEnd` and `ShutdownEnds` start when
the signal is noticed; nothing is assumed about when that is.

## 4. Findings

Each is a run that TLC ends with a counterexample; PROJECT.json quotes the lines.

| run | property | the code |
|---|---|---|
| `worker_two_mails` | `SingleBody` | RSET keeps recipients and body: the next mail contains the last |
| `dialog_dotted` | `NothingLost` | a chunk with a dot in its last eight characters is dropped |
| `dialog_sentence` | `EndsAtLoneDot` | any line that ends with a dot ends the message |
| `dialog_duplicate` | `QueuedFileExists` | a refused mail is acknowledged as queued |
| `lifecycle_exit` | `ExitFinishesProcesses` | `__exit__` ends no working process |
| `hash_range` | `HashInRange` | `string_hash()` gives 0 to 255, `N_SUBS` is 255: the assertion fails for some keys |

Other weaknesses that the modules contain, about which no text of the repository
promises anything, are named in the hazards of PROJECT.json: the pool shrinks
with use; commands are recognised inside a message; a failed `pthread_create()`
keeps `threads.lock`; `server_thread` reads two words of entries that were just
freed; both servers may miss a signal until the next connection or event; the pipe
of `server_poll` can stay full at the end; a process may need a second Ctrl-C; a
failing `write()` leaves a broken mail, and a failing `fclose()` a broken text of
`cfsm` and `xtc` without a word; a message that is cut near a dot loses lines or
its end; the runner's `stop`
removes the file of a service that still runs; `marray_pull()` leaves a pointer
behind that a later `marray_set()` frees.

## 5. Proofs

TLAPS proves the following, for all values of the constants that satisfy the
named assumptions. TLC evaluates each assumption on the instance of a run.

### The working process

`WorkerLoopProofs` (`WorkerAssumption`, `MailAssumption`, `AddressAssumption`:
scripts are made of pieces, sizes are positive):

- `WorkerTyped`. It rests on lemmas about what `recv()` returns
  (`ReceivedTyped`), the patterns' groups, `to_file` and the machine
  (`DestTyped`).
- `DispatchNeverFails` (`DispatchSound`). It needs `ListInv`: whoever is on a
  list is a client, and when the writes begin, `rfds` is used up, so that the one
  client `QUIT_write` removes is on no list any more; and two lemmas of the table:
  the read handler and the write handler fire only triggers the state has
  (`ReadFits`, `WriteFits`).
- `ServerSpeaksWhenSpokenTo` (`SpokenTo`). It needs `SpokenInv`: what `accept()`
  returns has not been spoken to, because the backlog has each connection once and
  none that is a client; and `ReplyPays`: no reply leads to a state that owes
  another one.
- `MailIsWholeOrEnded` (`WholeOrEnded`) and `QueuedMailIsStored`
  (`QueuedIsStored`), from `StoreInv`: no file has a number that is still to come,
  so that a new mail touches no old one, and an exception has ended the loop, so
  that nothing follows a mail that was broken off. `StepEffect` says once what any
  step can do to a session and to the store.
- `RecipientsAreAnswered` (`RecipientsAnswered`) and `QueuedAnswers354`
  (`QueuedAfter354`), under `RoomForReplies`: the send buffer holds the replies to
  a whole script. Both need `TurnInv`: whoever is read in a turn of the loop
  is written to in the same turn, so that no line is read while a reply is due.
  The second adds `MessageInv`: the flag `data_start_already_matched` is set only
  by a client that has got its 354 or is about to. The hypothesis was found by TLC:
  with a full send buffer the reply to a RCPT stays due, the next RSET is read and
  its reply takes the place of the other, and the session keeps a recipient that
  was never answered. A reply has some twenty bytes and a send buffer thousands,
  so this needs a client that sends and does not read.

`SmtpDialogProofs` has no hypotheses beyond the named assumptions of the constants.
The connections in `Calm` have scripts that are dialogs (`IsDialog`: EHLO, MAIL,
RCPTs, DATA, the message, QUIT, none cut at a wrong place) with recipients that are
not refused; of the others nothing is known, and the disk may fail:

- `DialogsAreAnsweredInOrder` (`RepliesInOrder`) and `LettersAreIntact`
  (`StoredIntact`), from `DialogInv`: by the number of pieces received, `Talk`
  says in which state a session is and how many replies it has had, and `Holds`
  what of the letter it has; whatever lies in a box was written by a client that
  has come to the end of its message (`Sender`), but for one file that is broken
  off when the disk has ended the process. The lemmas about `recv()` say that such
  a client's commands come one by one, and that what comes of its message is read
  as a part of it, whatever pieces it comes in.
- `DialogsTransferMail`: `DialogSpec` implements the safety part of
  `MailTransfer`, `Init` by `Init` and each step by a step or a stutter; the end of
  a mail is `Deliver` when it is written whole and `BreakOff` when the disk fails,
  and any other end of the process is `Stop`. A letter that the server refuses is
  acknowledged all the same (the finding of `dialog_duplicate`), so `Calm` has
  none (`Storable`). The liveness of `MailTransfer` stays with the run `dialog`.

### Processes

`ProcessesProofs`:

- `PoolTyped` and `RaceNeverKillsThePool` (`RaceLeavesAWorker`), under
  `PoolAssumption`. The property is not inductive, since nothing in it forbids a
  timeout of the last process. `RaceInv` adds: when the backlog is empty, some
  process is outside `accept()` and not dead of a timeout. Whoever emptied the
  backlog goes on to serve, and nobody enters `accept()` while it is empty.
- `LifecycleTyped` and `NoLoggerIsOrphaned` (`LoggersHaveParents`), inductive
  together with the types, under `LifecycleAssumption`: a process gives up the join
  of a logger only for an interrupt, and the Ctrl-C that posted it was posted to
  that logger, too, or found none (a logger that was forked meanwhile is joined
  after the interrupt was taken). `LifeInv` adds just this: a process that is about
  to give up its join has no logger that goes on.
- `EveryFileHandedOnce` (`HandedOnce`) and `SoleCallerNeverFails`
  (`MissingIsElsewhere`), from `HandInv`: a file is held by a client exactly if
  its name is marked, and a listed file has a name.
- `RecordsStayInOrder` (`InOrder` of `ProcessLogger`, a part of
  `EverythingWritten`), under `LoggerAssumption`. `InOrder` is inductive with the
  types: it speaks of file, hand and pipe as one sequence (`Fed`), which `get()` and
  the write leave alone, and to which a feeder thread appends the record whose
  number comes next in its process.

### The labs

`LabsDataProofs`:

- `LockTyped` and `NothingHalfWrittenIsRead` (`NoHoleRead`), under
  `LockAssumption`, from `LockInv`: a thread that is inside a part has its lock in
  the mode of its place (`LocksHeld`: no reader beside a writer), and a hole is
  there only while the writer of its part is about to fill it (`HolesFilled`).
- `LockDbIsVdb`: `LockDb` implements the safety part of `Vdb`. `VdbInv` adds to
  `LockInv` that the call a thread is in is its own last one (`CallsOwn`; two
  threads in equal calls would be one call for `Vdb`) and that a writer on its
  way to store a value has left a hole (`HolesHeld`). `set()` takes effect when the
  value is stored, `get()` when it is copied, and the hole is the step between
  them that `Vdb` does not see.
- `PopSleepsWithReason` and `CndQueueIsQueue`, under `CndAssumption`: the
  thread in `pop()` sleeps only while nothing is queued and `stop()` was not
  called, and `CndQueue` implements the safety part of `RequestQueue`. `CndInv`
  adds what `stop()` may rely on, that all producers are done, and that what `pop()`
  has seen of `running` is still so inside the mutex.
- `SlotsAreFree` (`SlotIsFree`) and `SemQueueIsQueue`, under `SemAssumption`
  (`Size > 0`, which `init_queue_sem()` asserts): `SemQueue` implements the safety
  part of `RequestQueue`, with a ring of any size. `Ring(u)` says that the first
  `u` slots from the tail on are used and no other, and that the two semaphores
  count them but for what is between a `sem_wait()` and its `sem_post()`; the NULL
  of `stop()` takes a slot (`Stopping`) although the slot looks free. From
  this the slot that `queue_sem_push()` asserts to be empty is.
- `QueuesOutlive` (`QueuesOutliveThreads`) and `ParallelDbIsVdb`, under
  `ParAssumption`: `ParallelDb` implements the safety part of `Vdb`. `OwnerInv`
  and `ThreadInv` say how far the loops of `init_parallel_db()` and `destroy()`
  have come, and that a thread ends only when its queue is stopped and empty, so
  that what is freed is used by nobody. `QueueInv` says that a request is in the
  queue of its key's part and nowhere else, in the order of its caller's calls,
  and behind the one in the thread's hand: so the call that takes effect is the
  first of its caller on its key.
- `PiecesAreLines` (`PiecesDontMatter`), under `LineAssumption` (a buffer has room
  for its null). `LineInv` adds that no newline stays in the buffer, where it would
  be found again. Both sides are folds: that `process_buffer()` of one more
  character ends a line or lengthens the rest (`BufferEnds`, `BufferGrows`) and
  that `Cut` of one more is one more `Turn` (`CutAppend`) are their steps, and
  `DoneAll` goes through a piece with them, by the least place at which the two
  would differ (`Smallest`). The overrun can come before the first character of a
  piece and before no other, because `read()` is not given room for more.

`SimpleDbProofs`, under `NodeAssumption` (a key is an integer, and NULL is no key):

- `TreeIsOfKeys` (`TreeOfKeys`). Between its turns a loop of `tree.h` leaves a tree that
  is no red-black tree, and `destroy()` walks on from a node that it has just
  removed; `TreeInv` says for each place in a call what the tree is there. It is `Shaped`
  between two calls, `Growing` in `RB_INSERT_COLOR` (only `elm` may be red below
  a red node) and `Shrinking` in `RB_REMOVE_COLOR` (every way down on one side of
  `parent` is a black node short); nodes outside point nowhere, but the one that
  is about to be freed (`Apart`). In `destroy()` what was freed is in order and
  before what is left, and `next` is the least of that.
- A tree is described by what a proof can carry from step to step: `D`, what hangs on each
  node, and `h`, how many black nodes every way down from it has. Each macro is
  shown to keep them by giving those of the new tree from those of the old one, so
  that no induction over trees is needed: `RotatedHangs`, with three lemmas for what a
  rotation does to the heights; `InsertColorKeeps` and `RemoveColorKeeps`, with a lemma
  for each case of the macro, for both sides at once; `InsertKeeps`; and
  `RemoveKeeps`. For a node with two children, `REMOVE()` is a cut of the next node
  (`CutKeeps`), which then takes the place and the colour of the other
  (`RenamedKeeps`), whether or not it was its child (`SuccessorFits`). The
  case of `Instead`, where the recolouring starts, is in there.
  `InsertsInto`, `Grows`, `RemovesFrom` and `Shrinks` are the results, for each macro.
- The loops that walk through the tree are recursive functions, which are what their
  definitions say only where such functions exist. They do, because less hangs on
  a child (`SizeIs`, `WalkExists`). Of what they return `WalksFurthest`, `WalksLast`,
  `WalksNext` and `WalksHeight` say what it is, each by going up or down the
  tree from the least place at which it would not be (`FromBelow`, `FromAbove`);
  hence `StillWalks`, and that a `Shaped` tree is what `IsRedBlack` asks for
  (`RedBlackIs`).

`LabsServersProofs`, on the server with threads (`ThreadAssumption`): `ThreadsTyped`, `NoThirdUseAfterFree`
(`FreedReadAtTwoPlaces`), `JoinNeverAborts` (`assert(threads->n == 0)`),
from `ThreadInv`: the main thread holds `threads.lock` between the two halves of
`new_thread()` and of `join_threads()` (`LockHeld`), the list has no entry
twice and none that is freed, a thread that has not come to its own removal is on
it, what was just accepted has no entry yet (`FreshInv`), and `threads->n` counts
the list but for the one entry that `pthread_create()` failed for (`Counted`).

`PollServerProofs` (`PollAssumption`):

- `PollTyped`; `GetsAreCounted` (`QueueCount`); `AnswersAreOwn` (`NoCrossTalk`).
  Neither is inductive. `PollInv` adds: a slot has a connection of its own
  (`Connected`); an event that `poll()` reported is about a client that is still
  there (`Reports`); a get is in one place and has a number of its own
  (`Numbered`), so that the counter of its slot can be the number of those under
  way; and what is in the buffers of a client and under way for its slot is its
  own (`OwnData`, `OwnGets`).
- `EveryCommandOnce` (`AnsweredOnce`) and, from the three, `AnswersAreRight`
  (`AnswersRight`). `OnceInv` adds that a command is in one place of its slot at
  most, be it the input, the gets under way, the pipe or the output (`Placed`), and
  what was received is in none of them (`Unheard`).

`LabsServersProofs`, on the service programs (`ServiceAssumption`): `ServiceTyped`; `NeverTwoServices`
(`OneService`); `NoPidfileStays` (`PidfileRemoved`). Two services seem possible
because a stop could remove a pid file; what excludes it is `Supervised`: in
the sample program the pid file of a start is in the directory until that start
comes to its removal, and a service lives only as long as its supervisor
attends to it. A number that can be read is that of a start that
catches SIGTERM, so that it is not killed before it removes the file.

It also has `LinesAreKept` (`LogKept`, under `RedirectAssumption`): the types, `LoggedOnce`,
`StopKeepsAll` and `ComesBack` of `LogRedirect`. `RedInv`
adds that a line is printed with a number above all others, so that nothing that
is gone can be in a log (`Numbered`); that a pipe without a reader is empty, and
that a running program has the number of the logger of each stream it
redirected (`Streaming`); and that as long as nothing was killed each stream is what
its log and its pipe hold, and `stop()` has come past a logger only when it was
gone (`Undisturbed`). A logger that is gone before `set_sig_handlers()` is a zombie and
not in the premise of `ComesBack`.

### The session server and the objects

`LibsProofs`, on the session server:

- `OnlyAuthorized` (`SessionIsAuthorized`), from `SessionInv`: in each state of
  the machine the words in the session are those of the commands read last, the
  user among them was taken and not refused, and between them there was nothing
  that counts. A step appends a line; the lemmas say what appending keeps.
- `MachineFollowsDef` (`ServerFollowsDef`). The property compares the state with
  a fold of `server.def` over all events. `FollowInv` adds that the loop is left
  by the last command and by no other. That a fold over `Append(s, x)` is a step
  from the fold over `s` (`FoldAppend`) needs an induction over data; it is done
  by the least counterexample, which the well-foundedness of `<` on `Nat` gives
  without an operator parameter (`Smallest`).

and on the objects, under `ObjectAssumption` (`ALLOC_MIN` and `SIZE_MOD` are
positive, and `ALLOC_MIN` is at most `MARRAY_MAX`):

- `ObjectsHaveOneOwner` (`OneOwner`, which has the types, `KeysDiffer`, `OwnedOnce`
  and `NothingLeaks` as its parts). `OwnedOnce` is not inductive: from
  a heap in which a container holds itself and nobody else does, every object
  would have one owner, but what is freed with another one could be held
  from outside. `Owned` is what is needed of a heap: what the caller
  has or a container holds is alive; it is held once, and what the caller has not
  at all; and a set that has what the caller has and is closed under holding
  has everything that is alive. The last is `NothingLeaks`, and it excludes cycles: the objects are a
  forest whose roots are the caller's. From it follows what the calls rely on:
  what is below an object of the caller is below nothing else
  (`BelowInside`), so that `mobject_free()` leaves no pointer behind; and a
  container is not below what it holds (`HolderAbove`), so that replacing an entry
  does not free the container. One lemma for each way to change a heap says that
  `Owned` is kept (`FreeKeeps`, `GiveKeeps`, `TakeKeeps`, `DropKeeps`,
  `CreateKeeps`, `GiveNewKeeps`, `CopyKeeps`), one for each call what it makes of the
  container (`AppendedIs`, `SetIs`, `PulledIs`, `RemovedIs`, ...), and one for each
  action that these two fit.
- `Shaped` says of what lies behind the used slots of an array no more than that
  it is a pointer: `marray_pull()` leaves one there. That an array has always a slot more than it uses, and
  that a copy fits whenever its original did, needs how far `marray_resize()`
  goes: its allocations are the doublings of `ALLOC_MIN` below `MARRAY_MAX` (`Size`), and it
  stops at the least that is enough (`GrownIs`).

and on the programs, under `ToolAssumption` (`Options` is a natural number):

- `ToolsMakeWhatWasAsked` (`MadeWhatWasAsked`). Neither `TextsMade` nor
  `FailKeepsOld` speaks of the moments in between; `ToolInv` says that the flags are what the
  options make of them (`FlagsAreGiven`), that the options end only if `Usage`
  refuses nothing, and that the files and the standard output are what the jobs that are
  done made of them, each whole unless its `fclose()` lost its end (`Rendering`, `Kept`). That at most one of dot, header and manual is
  asked for is the argument about a cardinality in `FlagsDiffer`; with it there are
  one or two jobs, and two only for a source and its header (`JobsAre`).

and on the name space, under `SpaceAssumption` (`""`, the empty name, is none of
`Name`; the indices, the bounds and `ArrayMax` are natural numbers):

- `SetsAreFound` (`SetIsFound`). The property speaks of one call and of any other
  location, so the invariant `SpaceInv` adds only that the name space is a
  dictionary of the right form (`Formed`: it lies in a set of objects whose items
  lie in that set). The rest is about one call. `Leads` says of the containers on its
  way that each leads to the next, before and after it, and that in each of them
  no entry but the one of its step has changed (`Keeps`); it is proved from the end
  back to the first (`CallLeads`). A lookup of the location goes that way and finds
  what was stored (`Stored`). A lookup of another one, before and after the call,
  goes the same way for a while and then leaves it, where what it finds is the same
  or was not there (`OtherKept`). The recursive functions are what their
  definitions say because such functions exist (`LooksExist`, `ComesExist`,
  `GoesExist`), by `Smallest` again.

and on the templates, under `TemplateAssumption` (a loop has a variable; a name that
is looked up alone is none of a loop variable; what is in a name space or an
array is an object):

- `TemplatesAreRendered` (`Rendered`). Neither half is inductive. For the tree,
  `ParseInv` says that it is one (`IsTree`: a list holds later nodes than the one
  it belongs to, in the order in which they were made) and that what is open of
  it is its right edge (`Spine`): an open block but the root is the last of the
  list that grows in the block around it. Hence what a directive adds comes after all that
  is written already (`InsertGrows`, `ElseGrows`, `EndGrows`), and at the end of
  a block the list that grows is the one of the block around. For the
  run, `RunInv` says that what was written, followed by what the activations on the stack
  have still to write from the top down (`Remaining`), is what the tree means.
  Each step moves words from the one to the other (`WordWritten`), or leaves
  both as they are: a block that is called (`BlockCalled`), a turn of a loop
  (`TurnTaken`), a return (`TopReturns`). That the copy of the local namespace may keep
  the last item of a loop from turn to turn is `TurnsBound`: the next turn binds
  the variable again. The two recursive functions are what their definitions say
  because such functions exist (`TextExists`, `MeaningExists`), by `Smallest`
  from the last node back to the first.

### Only model-checked

- All liveness properties, and with them the fairness part of the refinements
  `TransferSpec`, `QueueSpec` and `VdbSpec`: TLAPS has no `ENABLED`.
- `RequestsIntact` and `AnswersMatch` of `Telnet` (in `EveryoneServed`), which are
  defined by recursion over data.
- The types of the modules that are not named above.

## 6. Not modelled

- `client/new_client.py`, `SMTP_CLIENT_FSM.py`, `client_state.py`: the module
  does not compile (a method without a body before the next one) and its machine
  names states that are not defined, so there is no behaviour to model. Of the
  client only what works alone, `maildir_handler`, is modelled; `from_file` of
  `common/mail.py`, which only a client would call, and `socket_init` and
  `get_mx` of `client/utils.py` (network and DNS) are not.
- `common/logger_threads.py`: nothing that runs uses it. `client/old_other/`:
  sketches that nothing imports.
- What becomes of clients whose process ended by the timeout of `accept()` or by
  another client's exception: `AcceptPool` and `WorkerLoop` have these steps
  (`AcceptTimeout`, `ReadFails`, `WriteFails`), and their properties hold in spite
  of them; that they are harmless is not claimed. The same holds for commands that
  are recognised inside a message, and for QUIT and RSET that are dropped there.
- Memory that fails, where the code does not come back to a state the modules have:
  in the labs, an entry of a queue, the request of a `geta()`, a copy made by
  `strdup()` in a database or by `strndup()` for a line (`SimpleDb` ends there,
  `broken`); in `cfsm_lib`, the keys that `mnamespace.c` makes for a lookup
  (`helpers.c:172`: an entry then looks missing, and `mnamespace_set()` replaces it),
  the copy of an object, and what a run of a template copies but for the key of a
  loop. A NUL in what is logged hides the rest
  of the buffer from `strchr()` and `strlen()`; `LineBuffer` has none.
- Directives of templates with words glued to them: `classify_node()` compares
  prefixes, so that `{{text...}}` is a text node without text and `{{elsewhere}}` an
  `else`. The tokens of `Mtemplate` are the documented ones.
- Of the labs: the splay trees of `tree.h` and the lists of `queue.h` (used as
  sequences and sets); the plug-ins `logdumb` and `logsyslog`, which differ from
  `logfile` only in where they write; the `status` command, which only reads; the
  failures of initialisation that end a program before it serves (sockets,
  mutexes, semaphores); tests and makefiles.
- Of `cfsm_lib`: the grammar `cfsm_parse.y` and its scanner, which fill the name
  space; `mobject_cmp()` and the reuse of iterators; `vis.c`, `strlcpy.c`,
  `strlcat.c`, `strstcpy.c`, which convert strings; `sys-queue.h`; `regress/`.
- Of `libs/autogen`: the options of `checkoptn.def`. `examples/server-2008` is a
  copy of it; `examples/sockets.c` is a collection of snippets.
- `report/`, `pst/`, `docs`: documents and samples. The contents of replies and
  log records, and the kernel beyond the rules about sockets, pipes, signals and
  files that the modules name.

## 7. Plan

Done, in this order: the mail server (`AcceptPool`; `SmtpFsm`, `SmtpLine`,
`Mail`, `WorkerLoop`; `MailTransfer`, `SmtpDialog`; `ServerLifecycle`,
`ProcessLogger`, `MaildirHandoff`) with its proofs; the labs (queues, databases,
servers, services, logging), the session server, the template library, with the
proofs of `LockDb`, `ParallelDb`, `CndQueue`, `SemQueue`, `ThreadServer`,
`Service`, `LogRedirect`, `LineBuffer`, `PollServer`, `Session`, `Mobject`,
`Mnamespace`, `TemplateTools` and `Mtemplate`.

Next:

1. A resource model: descriptors and logging processes of a working process as
   sessions come and go, with the client that closes without QUIT and is never
   removed, up to the limit of `select()`. (Abstract specification: what is open
   belongs to a live session.)
2. The whole server: `AcceptPool` with `WorkerLoop`'s sessions in more than one
   process and one store, and `WorkerLoop` shown to implement one process of
   `AcceptPool`; in C, `PollServer` with `ParallelDb` in the place of its
   external database.
3. `RSET`, `QUIT` and dropped lines in the dialog: clients that abandon a mail and
   start over, with what such a client may rely on.
4. Theorems: the order of lines of `Telnet`.
