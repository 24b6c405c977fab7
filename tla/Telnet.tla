------------------------------- MODULE Telnet -------------------------------
(***************************************************************************)
(* The protocol of the database servers, character by character: requests  *)
(* and answers end with \r\n and come in any pieces.  The sample server    *)
(* serves one client after the other; of the server with poll() this has   *)
(* one connection, whose answers to ?k go through the write buffer.        *)
(*                                                                         *)
(* There is one key, k.  A client waits for each answer before its next    *)
(* request, or sends its requests without waiting, or is telnet_client.    *)
(***************************************************************************)
EXTENDS Integers, Sequences, FiniteSets, FiniteSetsExt, SequencesExt

CONSTANTS
  Client,    (* clients of the server                                      *)
  Requests,  (* bound: requests of a client                                *)
  BUF_SIZE   (* of the server's receive buffer                             *)

SUFFIX == <<"\r", "\n">>
Values == {<<>>, <<"a">>, <<"\r">>}
NOBODY == "nobody"

Set(v) == <<"=", "k", " ">> \o v
Get == <<"?", "k">>
Delete == <<"-", "k">>
Request == {Set(v) : v \in Values} \cup {Get, Delete}

VARIABLES
  server,   (* "dumb" or "poll"                                            *)
  kind,     (* "waits", "sends" or "telnet_client"                         *)
  client,   (* what each client is about to do                             *)
  sent,     (* the requests of each client                                 *)
  answer,   (* the receive buffer of each client                           *)
  got,      (* the answers that each client has cut out of it              *)
  in, out,  (* what is on the way to the server, and back                  *)
  pc,       (* what the server is about to do                              *)
  running,
  cnct,     (* the client that is being served                             *)
  served,   (* the clients that were accepted                              *)
  buf,      (* the receive buffer of the connection                        *)
  reply,    (* what send_all() has still to send                           *)
  pipe,     (* results of geta() on their way to process_control()         *)
  wrbuf,    (* struct wrbuffer: its strings, the first from pos on         *)
  db,       (* the value of k, if it has one                               *)
  done      (* the requests that were processed, with their clients        *)

client_vars == <<client, sent, answer, got>>
cnct_vars == <<buf, reply, pipe, wrbuf>>
vars == <<server, kind, client_vars, in, out, pc, running, cnct, served, cnct_vars, db, done>>

Shorter(s, n) == SubSeq(s, n + 1, Len(s))

-----------------------------------------------------------------------------
(* struct buffer *)

buffer_find(s, i) == SubSeq(s, i, i + 1) = SUFFIX

(* The length of the first line, or 0. *)
LineLength(s) ==
  LET found == {i \in 1..(Len(s) - 1) : buffer_find(s, i)}
  IN  IF found = {} THEN 0 ELSE Min(found) + 1

(* What remains. *)
buffer_cut(s, len) == Shorter(s, len)

-----------------------------------------------------------------------------
(* Clients *)

connect(c) ==
  /\ client[c] = "out"
  /\ client' = [client EXCEPT ![c] = "ready"]
  /\ UNCHANGED <<server, kind, sent, answer, got, in, out, pc, running, cnct, served, cnct_vars, db, done>>

send_request(c) ==
  /\ client[c] = "ready" /\ Len(sent[c]) < Requests
  /\ \E r \in Request :
       /\ sent' = [sent EXCEPT ![c] = Append(@, r)]
       /\ in' = [in EXCEPT ![c] = @ \o r \o SUFFIX]
  /\ client' = [client EXCEPT ![c] = IF kind = "sends" THEN "ready" ELSE "waiting"]
  /\ UNCHANGED <<server, kind, answer, got, out, pc, running, cnct, served, cnct_vars, db, done>>

hang_up(c) ==
  /\ client[c] \in {"ready", "waiting"}
  /\ client' = [client EXCEPT ![c] = "closed"]
  /\ UNCHANGED <<server, kind, sent, answer, got, in, out, pc, running, cnct, served, cnct_vars, db, done>>

(* recv_until() has the end of the answer.  telnet_client cuts as many     *)
(* characters as its request had.                                          *)
cut_answer(c) ==
  LET end == LineLength(answer[c])
      len == IF kind = "telnet_client" THEN Len(Last(sent[c])) + 1 ELSE end
  IN  /\ client[c] = "waiting" /\ end # 0
      /\ IF len > Len(answer[c])
         THEN client' = [client EXCEPT ![c] = "closed"] /\ UNCHANGED <<answer, got>>
         ELSE /\ client' = [client EXCEPT ![c] = "ready"]
              /\ answer' = [answer EXCEPT ![c] = buffer_cut(@, len)]
              /\ got' = [got EXCEPT ![c] = Append(@, SubSeq(answer[c], 1, len))]
      /\ UNCHANGED <<server, kind, sent, in, out, pc, running, cnct, served, cnct_vars, db, done>>

(* The server has closed the connection: a client that was accepted and is *)
(* not served any more, or whose server is gone.                           *)
Shut(c) == pc \in {"ended", "aborted"} \/ (c \in served /\ cnct # c)

(* safe_recv() in recv_until(): a piece, or the end of the stream. *)
recv_until(c) ==
  /\ client[c] = "waiting" /\ LineLength(answer[c]) = 0
  /\ \/ /\ \E n \in 1..Len(out[c]) :
             /\ answer' = [answer EXCEPT ![c] = @ \o SubSeq(out[c], 1, n)]
             /\ out' = [out EXCEPT ![c] = Shorter(@, n)]
        /\ UNCHANGED client
     \/ /\ out[c] = <<>> /\ Shut(c)
        /\ client' = [client EXCEPT ![c] = "closed"]
        /\ UNCHANGED <<answer, out>>
  /\ UNCHANGED <<server, kind, sent, got, in, pc, running, cnct, served, cnct_vars, db, done>>

-----------------------------------------------------------------------------
(* run_server() *)

test_running ==
  /\ pc = "test"
  /\ pc' = IF ~running THEN IF cnct = NOBODY THEN "ended" ELSE "close"
           ELSE IF cnct = NOBODY THEN "accept" ELSE "recv"
  /\ UNCHANGED <<server, kind, client_vars, in, out, running, cnct, served, cnct_vars, db, done>>

accept(c) ==
  /\ pc = "accept" /\ client[c] # "out" /\ c \notin served
  /\ cnct' = c /\ served' = served \cup {c} /\ pc' = "test"
  /\ buf' = <<>> /\ reply' = <<>> /\ wrbuf' = <<>>
  /\ UNCHANGED <<server, kind, client_vars, in, out, running, pipe, db, done>>

(* The connection is closed with what it has still to send; results that   *)
(* are under way are dropped when they come.                               *)
close ==
  /\ pc = "close" /\ cnct' = NOBODY /\ pc' = "test"
  /\ buf' = <<>> /\ reply' = <<>> /\ wrbuf' = <<>> /\ pipe' = <<>>
  /\ UNCHANGED <<server, kind, client_vars, in, out, running, served, db, done>>

(* process_cmd(): the value is that of k for a get, which the server with  *)
(* poll() answers later.                                                   *)
process_cmd(r) ==
  /\ done' = Append(done, [client |-> cnct, request |-> r])
  /\ db' = CASE r = Get -> db [] r = Delete -> {} [] OTHER -> {Shorter(r, 3)}
  /\ IF r = Get /\ server = "poll"
     THEN pipe' = Append(pipe, db) /\ pc' = "test" /\ UNCHANGED reply
     ELSE /\ reply' = (IF r = Get /\ db # {} THEN CHOOSE v \in db : TRUE ELSE <<>>) \o SUFFIX
          /\ pc' = "send" /\ UNCHANGED pipe

(* safe_recv() of what fits, and one request, if it is there.              *)
process_cnct ==
  /\ pc = "recv" /\ Len(buf) < BUF_SIZE
  /\ \E n \in 1..(BUF_SIZE - Len(buf)) :
       LET s == buf \o SubSeq(in[cnct], 1, n)
           len == LineLength(s)
       IN  /\ n <= Len(in[cnct])
           /\ in' = [in EXCEPT ![cnct] = Shorter(@, n)]
           /\ IF len = 0
              THEN buf' = s /\ pc' = "test" /\ UNCHANGED <<reply, pipe, db, done>>
              ELSE buf' = buffer_cut(s, len) /\ process_cmd(SubSeq(s, 1, len - 2))
  /\ UNCHANGED <<server, kind, client_vars, out, running, cnct, served, wrbuf>>

(* The buffer is full without a request, or the client has hung up. *)
process_cnct_ends ==
  /\ pc = "recv"
  /\ Len(buf) = BUF_SIZE \/ (client[cnct] = "closed" /\ in[cnct] = <<>>)
  /\ pc' = "close"
  /\ UNCHANGED <<server, kind, client_vars, in, out, running, cnct, served, cnct_vars, db, done>>

(* send() of a part, or to nobody. *)
send_all ==
  /\ pc = "send"
  /\ IF client[cnct] = "closed"
     THEN pc' = "close" /\ UNCHANGED <<out, reply>>
     ELSE \E n \in 1..Len(reply) :
            /\ out' = [out EXCEPT ![cnct] = @ \o SubSeq(reply, 1, n)]
            /\ reply' = Shorter(reply, n)
            /\ pc' = IF n = Len(reply) THEN "test" ELSE "send"
  /\ UNCHANGED <<server, kind, client_vars, in, running, cnct, served, buf, pipe, wrbuf, db, done>>

(* A signal breaks off a call that waits, but not one that is just about   *)
(* to be made.                                                             *)
term_handler ==
  /\ server = "dumb" /\ running /\ running' = FALSE
  /\ pc' \in IF pc \in {"recv", "accept"} THEN {pc, "test"} ELSE {pc}
  /\ UNCHANGED <<server, kind, client_vars, in, out, cnct, served, cnct_vars, db, done>>

-----------------------------------------------------------------------------
(* The server with poll(), between two turns *)

process_control ==
  /\ server = "poll" /\ pc = "recv" /\ pipe # <<>>
  /\ pipe' = Tail(pipe)
  /\ wrbuf' = wrbuf \o SetToSeq(Head(pipe)) \o <<SUFFIX>>
  /\ UNCHANGED <<server, kind, client_vars, in, out, pc, running, cnct, served, buf, reply, db, done>>

wrbuffer_shift(n) ==
  IF n = Len(wrbuf[1]) THEN Tail(wrbuf) ELSE <<Shorter(wrbuf[1], n)>> \o Tail(wrbuf)

(* A turn of send_wrbuffer(): wrbuffer_remained() asserts that something   *)
(* remains of the first string.                                            *)
send_wrbuffer ==
  /\ server = "poll" /\ pc = "recv" /\ wrbuf # <<>>
  /\ IF wrbuf[1] = <<>>
     THEN pc' = "aborted" /\ UNCHANGED <<out, wrbuf>>
     ELSE \E n \in 1..Len(wrbuf[1]) :
            /\ client[cnct] # "closed"
            /\ out' = [out EXCEPT ![cnct] = @ \o SubSeq(wrbuf[1], 1, n)]
            /\ wrbuf' = wrbuffer_shift(n)
            /\ UNCHANGED pc
  /\ UNCHANGED <<server, kind, client_vars, in, running, cnct, served, buf, reply, pipe, db, done>>

-----------------------------------------------------------------------------
Init ==
  /\ server \in {"dumb", "poll"} /\ kind \in {"waits", "sends", "telnet_client"}
  /\ client = [c \in Client |-> "out"] /\ sent = [c \in Client |-> <<>>]
  /\ answer = [c \in Client |-> <<>>] /\ got = [c \in Client |-> <<>>]
  /\ in = [c \in Client |-> <<>>] /\ out = [c \in Client |-> <<>>]
  /\ pc = "test" /\ running = TRUE /\ cnct = NOBODY /\ served = {}
  /\ buf = <<>> /\ reply = <<>> /\ pipe = <<>> /\ wrbuf = <<>>
  /\ db = {} /\ done = <<>>

Serve ==
  \/ test_running \/ (\E c \in Client : accept(c)) \/ close
  \/ process_cnct \/ process_cnct_ends \/ send_all
Answer == process_control \/ send_wrbuffer
Receive == \E c \in Client : recv_until(c) \/ cut_answer(c)

Next ==
  \/ Serve \/ Answer \/ Receive \/ term_handler
  \/ \E c \in Client : connect(c) \/ send_request(c) \/ hang_up(c)

(* Nothing waits but recv() and accept(). *)
Fairness == WF_vars(Serve) /\ WF_vars(Answer) /\ WF_vars(Receive)

Spec == Init /\ [][Next]_vars /\ Fairness

-----------------------------------------------------------------------------
TypeOK ==
  /\ client \in [Client -> {"out", "ready", "waiting", "closed"}]
  /\ pc \in {"test", "accept", "recv", "send", "close", "ended", "aborted"}
  /\ running \in BOOLEAN /\ cnct \in Client \cup {NOBODY} /\ served \subseteq Client
  /\ Len(buf) <= BUF_SIZE /\ db \subseteq Values /\ Cardinality(db) <= 1

Processed(c) ==
  LET mine == SelectSeq(done, LAMBDA d : d.client = c) IN [k \in 1..Len(mine) |-> mine[k].request]

(* The server processes the requests of a client whole, in their order and *)
(* none twice, in whatever pieces they come.                               *)
RequestsIntact == \A c \in Client : IsPrefix(Processed(c), sent[c])

(* What the kth request has to be answered with: for a get, the value of   *)
(* the last set before it, unless a delete came after that.                *)
Due(k) ==
  LET changes == {j \in 1..(k - 1) : done[j].request # Get}
      last == done[Max(changes)].request
  IN  (IF done[k].request # Get \/ changes = {} \/ last = Delete THEN <<>>
       ELSE Shorter(last, 3)) \o SUFFIX

(* What was sent to a client, and what it was sent of the answers due to   *)
(* the requests that were processed for it, in their order.                *)
Written(c) == FlattenSeq(got[c]) \o answer[c] \o out[c]
Dues(c) == FlattenSeq([k \in 1..Len(done) |-> IF done[k].client = c THEN Due(k) ELSE <<>>])

(* A client gets the right answers, in the order of its requests and       *)
(* nothing else.  This is not said of a client of the server with poll()   *)
(* that does not wait: there the reply to a set or a delete is sent at     *)
(* once and overtakes the answers to earlier gets.                         *)
AnswersMatch ==
  (server = "dumb" \/ kind # "sends") => \A c \in Client : IsPrefix(Written(c), Dues(c))

(* A client that waits gets its answer or sees the connection closed, once *)
(* it is served.                                                           *)
EveryoneAnswered ==
  \A c \in Client : (kind = "waits" /\ client[c] = "waiting" /\ cnct = c) ~> client[c] # "waiting"

=============================================================================
