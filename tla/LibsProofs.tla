----------------------------- MODULE LibsProofs -----------------------------
(***************************************************************************)
(* Proofs about Session for a file of any length, and about Mobject for    *)
(* any number of objects and keys and for arrays of any limit, about       *)
(* TemplateTools for command lines of any length, about Mnamespace for     *)
(* locations of any length, and about Mtemplate for templates of any       *)
(* length and depth.                                                       *)
(***************************************************************************)
EXTENDS Session, Mobject, Mnamespace, TemplateTools, Mtemplate,
        SequenceTheorems, WellFoundedInduction, FiniteSetTheorems, TLAPS

(* Only a user was given since, or nothing that counts.                    *)
Between(j, k) == \A l \in (j + 1)..(k - 1) : read[l].name \in {"cmd_user", "invalid"}

(* The user of the state is that of the command that led there.            *)
UserGiven(j) ==
  UserTaken(j) /\ read[j].name = "cmd_user" /\ (state.user = "right" => read[j].param = "right")

PasswordGiven(k) ==
  read[k].name = "cmd_passw" /\ (state.password = "right" => read[k].param = "right")

(* SessionIsAuthorized is not inductive: the machine decides by the words  *)
(* it has kept, which have to be those of the last two commands.           *)
SessionInv ==
  /\ SessionTypeOK
  /\ state.state = "authorization" <=> at = "authorize"
  /\ at = "loop" => state.state # "done"
  /\ at = "loop" /\ state.state = "init" => UserTaken(Len(read) + 1)
  /\ state.state = "authorization" => read # <<>> /\ read[Len(read)].name = "cmd_passw"
  /\ state.state = "user_known" =>
       \E j \in 1..Len(read) : UserGiven(j) /\ Between(j, Len(read) + 1)
  /\ state.state = "authorization" =>
       \E j, k \in 1..Len(read) : j < k /\ UserGiven(j) /\ PasswordGiven(k) /\ Between(j, k)
  /\ SessionIsAuthorized

-----------------------------------------------------------------------------
(* The rows of the table. *)
LEMMA Rows ==
  /\ \A e \in Event : server_fsm_step("init", e) \in {"done", "user_known", "invalid"}
  /\ \A e \in Event : server_fsm_step("init", e) = "user_known" <=> e = "cmd_user"
  /\ \A e \in Event : server_fsm_step("user_known", e) \in {"done", "authorization", "invalid"}
  /\ \A e \in Event : server_fsm_step("user_known", e) = "authorization" <=> e = "cmd_passw"
  /\ \A e \in Event : server_fsm_step("user_known", e) = "invalid" =>
       e \notin {"cmd_quit", "cmd_passw", "timeout"}
  /\ \A e \in Event : server_fsm_step("session", e) \in {"done", "session", "invalid"}
  /\ server_fsm_step("authorization", "password_accepted") = "session"
  /\ server_fsm_step("authorization", "password_invalid") = "init"
  /\ \A e \in Event : server_fsm_step("done", e) = "init"
BY DEF server_fsm_step, Table, Event

(* What is read is kept where it was. *)
LEMMA ReadOn ==
  ASSUME SessionTypeOK, NEW c \in Command, read' = Append(read, c)
  PROVE  /\ read' \in Seq(Command) /\ Len(read) \in Nat /\ Len(read') = Len(read) + 1
         /\ \A j \in 1..Len(read) : read'[j] = read[j]
         /\ read'[Len(read) + 1] = c
BY AppendProperties, LenProperties DEF SessionTypeOK

(* Whether a user was taken depends on the commands before it. *)
LEMMA TakenStays ==
  ASSUME NEW n \in Nat, \A j \in 1..n : read'[j] = read[j], NEW j \in 1..(n + 1), UserTaken(j)
  PROVE  UserTaken(j)'
<1>1. \A l \in 1..(j - 1) : read'[l] = read[l]
  OBVIOUS
<1>2. \A l \in 1..(j - 1) : \A m \in (l + 1)..(j - 1) : m \in 1..(j - 1)
  OBVIOUS
<1> QED
  BY <1>1, <1>2 DEF UserTaken

LEMMA SessionInitHolds == SessionInit => SessionInv
BY EmptySeq DEF SessionInit, SessionInv, SessionTypeOK, SessionIsAuthorized, State, UserTaken

LEMMA CommandKeeps == ASSUME SessionInv, command
                      PROVE  SessionInv'
<1>a. PICK n \in Nat : n = Len(read)
  BY LenProperties DEF SessionInv, SessionTypeOK
<1>0. PICK c \in Command : \E taken \in Taken(c) :
        LET next == server_fsm_step(state.state, c.name)
        IN  /\ read' = Append(read, c) /\ events' = Append(events, c.name)
            /\ state' = [taken EXCEPT !.state = IF next = "invalid" THEN @ ELSE next]
            /\ at' = IF next = "authorization" THEN "authorize"
                     ELSE IF next = "done" THEN "end" ELSE "loop"
  BY DEF command
<1> DEFINE next == server_fsm_step(state.state, c.name)
<1>1. PICK taken \in Taken(c) :
        /\ read' = Append(read, c) /\ events' = Append(events, c.name)
        /\ state' = [taken EXCEPT !.state = IF next = "invalid" THEN @ ELSE next]
        /\ at' = IF next = "authorization" THEN "authorize"
                 ELSE IF next = "done" THEN "end" ELSE "loop"
  BY <1>0
<1>2. at = "loop" /\ UNCHANGED result
  BY DEF command
<1>3. /\ c.name \in {"cmd_user", "cmd_passw", "cmd_quit", "invalid"} /\ c.name \in Event
      /\ c.param \in Word \cup {NULL}
  BY DEF Command, Event
<1>4. /\ taken \in [state : State, user : Word \cup {NULL}, password : Word \cup {NULL},
                    attempts : Nat]
      /\ taken.state = state.state
      /\ taken.user = state.user \/ (state.state = "init" /\ taken.user \in {c.param, NULL})
      /\ \/ taken.password = state.password
         \/ (state.state = "user_known" /\ taken.password \in {c.param, NULL})
      /\ state.state = "init" /\ c.name = "cmd_user" => taken.user \in {c.param, NULL}
      /\ state.state = "user_known" /\ c.name = "cmd_passw" =>
           taken.password \in {c.param, NULL} /\ taken.user = state.user
      /\ state.state = "user_known" => taken.user = state.user
  BY <1>3 DEF Taken, get_param, SessionInv, SessionTypeOK
<1>5. /\ n \in Nat /\ Len(read') = n + 1 /\ read' \in Seq(Command)
      /\ \A j \in 1..n : read'[j] = read[j]
      /\ read'[n + 1] = c
  BY <1>1, <1>a, ReadOn DEF SessionInv
<1>6. state.state \in {"init", "user_known", "session"}
  BY <1>2 DEF SessionInv, SessionTypeOK, State
<1>7. /\ next \in State \cup {"invalid"}
      /\ state'.state = IF next = "invalid" THEN state.state ELSE next
      /\ state'.user = taken.user /\ state'.password = taken.password
      /\ state' \in [state : State, user : Word \cup {NULL}, password : Word \cup {NULL},
                     attempts : Nat]
      /\ state'.state = "authorization" <=> at' = "authorize"
      /\ at' \in {"loop", "authorize", "end"}
  BY <1>1, <1>3, <1>4, <1>6, Rows DEF State
<1> HIDE DEF next
<1>8. SessionTypeOK'
  <2>1. events' \in Seq(Event)
    BY <1>1, <1>3, AppendProperties DEF SessionInv, SessionTypeOK
  <2> QED
    BY <1>2, <1>5, <1>7, <2>1 DEF SessionInv, SessionTypeOK
<1>9. CASE state'.state = "user_known"
  <2>1. \/ state.state = "init" /\ c.name = "cmd_user"
        \/ state.state = "user_known" /\ c.name \in {"cmd_user", "invalid"}
    BY <1>3, <1>6, <1>7, <1>9, Rows DEF next
  <2>2. CASE state.state = "init" /\ c.name = "cmd_user"
    <3>0. UserTaken(n + 1)'
      BY <1>2, <1>5, <1>a, <2>2, TakenStays DEF SessionInv
    <3>1. UserGiven(n + 1)'
      BY <1>4, <1>5, <1>7, <2>2, <3>0 DEF UserGiven, NULL
    <3>2. Between(n + 1, Len(read) + 1)'
      BY <1>5 DEF Between
    <3> QED
      BY <1>5, <1>7, <1>8, <1>9, <3>1, <3>2 DEF SessionInv, SessionIsAuthorized
  <2>3. CASE state.state = "user_known" /\ c.name \in {"cmd_user", "invalid"}
    <3>1. PICK j \in 1..n : UserGiven(j) /\ Between(j, n + 1)
      BY <1>a, <2>3 DEF SessionInv
    <3>2. read'[j] = read[j] /\ state'.user = state.user
      BY <1>4, <1>5, <1>7, <2>3, <3>1
    <3>a. UserTaken(j)'
      BY <1>5, <3>1, TakenStays DEF UserGiven
    <3>3. UserGiven(j)'
      BY <3>1, <3>2, <3>a DEF UserGiven
    <3>4. ASSUME NEW l \in (j + 1)..(n + 1)
          PROVE  read'[l].name \in {"cmd_user", "invalid"}
      <4>1. CASE l = n + 1
        BY <1>5, <2>3, <4>1
      <4>2. CASE l \in (j + 1)..n
        BY <1>5, <3>1, <4>2 DEF Between
      <4> QED
        BY <1>5, <3>1, <3>4, <4>1, <4>2
    <3>5. Between(j, Len(read) + 1)'
      BY <1>5, <3>1, <3>4 DEF Between
    <3> QED
      BY <1>5, <1>7, <1>8, <1>9, <3>1, <3>3, <3>5 DEF SessionInv, SessionIsAuthorized
  <2> QED
    BY <2>1, <2>2, <2>3
<1>10. CASE state'.state = "authorization"
  <2>1. state.state = "user_known" /\ c.name = "cmd_passw" /\ at' = "authorize"
    BY <1>3, <1>6, <1>7, <1>10, Rows DEF next
  <2>2. PICK j \in 1..n : UserGiven(j) /\ Between(j, n + 1)
    BY <1>a, <2>1 DEF SessionInv
  <2>3. UserGiven(j)' /\ Between(j, n + 1)'
    <3>1. read'[j] = read[j] /\ (state'.user = "right" => state.user = "right")
      BY <1>4, <1>5, <1>7, <2>1, <2>2
    <3>a. UserTaken(j)'
      BY <1>5, <2>2, TakenStays DEF UserGiven
    <3>2. UserGiven(j)'
      BY <2>2, <3>1, <3>a DEF UserGiven
    <3>3. \A l \in (j + 1)..n : read'[l] = read[l]
      BY <1>5, <2>2
    <3>4. Between(j, n + 1)'
      BY <2>2, <3>3 DEF Between
    <3> QED
      BY <3>2, <3>4
  <2>4. PasswordGiven(n + 1)'
    BY <1>4, <1>5, <1>7, <2>1 DEF PasswordGiven, NULL
  <2>5. (read # <<>> /\ read[Len(read)].name = "cmd_passw")'
    BY <1>5, <2>1
  <2> QED
    BY <1>5, <1>7, <1>8, <1>10, <2>1, <2>2, <2>3, <2>4, <2>5 DEF SessionInv, SessionIsAuthorized
<1>11. CASE state'.state = "session"
  <2>1. state.state = "session"
    BY <1>3, <1>6, <1>7, <1>11, Rows DEF next
  <2>2. PICK j, k \in 1..n :
          /\ j < k /\ UserTaken(j)
          /\ read[j] = [name |-> "cmd_user", param |-> "right"]
          /\ read[k] = [name |-> "cmd_passw", param |-> "right"]
          /\ \A l \in (j + 1)..(k - 1) : read[l].name \in {"cmd_user", "invalid"}
    BY <1>a, <2>1 DEF SessionInv, SessionIsAuthorized
  <2>3. SessionIsAuthorized'
    <3>1. j \in 1..Len(read') /\ k \in 1..Len(read') /\ read'[j] = read[j] /\ read'[k] = read[k]
      BY <1>5, <2>2
    <3>2. \A l \in (j + 1)..(k - 1) : read'[l] = read[l]
      <4>1. \A l \in (j + 1)..(k - 1) : l \in 1..n
        BY <2>2
      <4> QED
        BY <1>5, <4>1
    <3>3. UserTaken(j)'
      BY <1>5, <2>2, TakenStays
    <3> QED
      BY <2>2, <3>1, <3>2, <3>3 DEF SessionIsAuthorized
  <2> QED
    BY <1>7, <1>8, <1>11, <2>3 DEF SessionInv
<1>12. CASE state'.state = "init"
  <2>1. state.state = "init" /\ c.name # "cmd_user"
    BY <1>3, <1>6, <1>7, <1>12, Rows DEF next
  <2>2. UserTaken(n + 1)'
    BY <1>2, <1>5, <1>a, <2>1, TakenStays DEF SessionInv
  <2>3. UserTaken(n + 2)'
    <3>1. ASSUME NEW l \in 1..(n + 1), read'[l].name = "cmd_user"
          PROVE  \E m \in (l + 1)..(n + 1) : read'[m].name = "cmd_passw"
      <4>1. l \in 1..n
        BY <1>5, <2>1, <3>1
      <4>2. PICK m \in (l + 1)..n : read'[m].name = "cmd_passw"
        BY <1>5, <2>2, <3>1, <4>1 DEF UserTaken
      <4> QED
        BY <1>5, <4>1, <4>2
    <3> QED
      BY <1>5, <3>1 DEF UserTaken
  <2> QED
    BY <1>5, <1>7, <1>8, <1>12, <2>3 DEF SessionInv, SessionIsAuthorized
<1>13. CASE state'.state = "done"
  <2>1. at' # "loop"
    BY <1>1, <1>6, <1>7, <1>13 DEF next
  <2> QED
    BY <1>7, <1>8, <1>13, <2>1 DEF SessionInv, SessionIsAuthorized
<1>14. state'.state \in {"init", "user_known", "authorization", "session", "done"}
  BY <1>7 DEF State
<1> QED
  BY <1>9, <1>10, <1>11, <1>12, <1>13, <1>14

LEMMA AuthorizeKeeps == ASSUME SessionInv, server_authorize
                        PROVE  SessionInv'
<1> DEFINE event == IF Right(state) THEN "password_accepted" ELSE "password_invalid"
<1>1. /\ at' = "loop" /\ events' = Append(events, event) /\ UNCHANGED <<result, read>>
      /\ state' = [state EXCEPT !.state = server_fsm_step(@, event),
                                !.attempts = IF Right(state) THEN @ ELSE @ + 1]
  BY DEF server_authorize
<1>2. CASE state.state = "authorization"
  <2>a. server_fsm_step(state.state, event) = IF Right(state) THEN "session" ELSE "init"
    BY <1>2, Rows
  <2>1. /\ state'.state = IF Right(state) THEN "session" ELSE "init"
        /\ state' \in [state : State, user : Word \cup {NULL}, password : Word \cup {NULL},
                       attempts : Nat]
    <3>1. state' = [state EXCEPT !.state = IF Right(state) THEN "session" ELSE "init",
                                 !.attempts = IF Right(state) THEN @ ELSE @ + 1]
      BY <1>1, <2>a
    <3>2. state.attempts \in Nat
      BY DEF SessionInv, SessionTypeOK
    <3>3. CASE Right(state)
      BY <3>1, <3>3 DEF SessionInv, SessionTypeOK, State
    <3>4. CASE ~Right(state)
      <4>1. state' = [state EXCEPT !.state = "init", !.attempts = state.attempts + 1]
        BY <3>1, <3>4 DEF SessionInv, SessionTypeOK
      <4>2. PICK m \in Nat : m = state.attempts + 1
        BY <3>2
      <4>3. state' = [state EXCEPT !.state = "init", !.attempts = m]
        BY <4>1, <4>2
      <4> QED
        BY <3>4, <4>3 DEF SessionInv, SessionTypeOK, State
    <3> QED
      BY <3>3, <3>4
  <2>2. events' \in Seq(Event)
    BY <1>1, AppendProperties DEF SessionInv, SessionTypeOK, Event
  <2>3. SessionTypeOK'
    BY <1>1, <2>1, <2>2 DEF SessionInv, SessionTypeOK
  <2>4. ASSUME Right(state)
        PROVE  SessionIsAuthorized'
    <3>1. PICK j, k \in 1..Len(read) :
            j < k /\ UserGiven(j) /\ PasswordGiven(k) /\ Between(j, k)
      BY <1>2 DEF SessionInv
    <3>2. read[j] \in Command /\ read[k] \in Command
      BY ElementOfSeq DEF SessionInv, SessionTypeOK
    <3>3. /\ read[j] = [name |-> "cmd_user", param |-> "right"]
          /\ read[k] = [name |-> "cmd_passw", param |-> "right"]
      BY <2>4, <3>1, <3>2 DEF UserGiven, PasswordGiven, Right, Command
    <3> QED
      BY <1>1, <3>1, <3>3 DEF SessionIsAuthorized, Between, UserGiven, UserTaken
  <2>5. UserTaken(Len(read) + 1)
    <3>1. PICK n \in Nat : n = Len(read)
      BY LenProperties DEF SessionInv, SessionTypeOK
    <3>2. n # 0 /\ read[n].name = "cmd_passw"
      BY <1>2, <3>1, EmptySeq DEF SessionInv, SessionTypeOK
    <3>3. \A l \in 1..n : read[l].name = "cmd_user" => n \in (l + 1)..n
      BY <3>2
    <3> QED
      BY <3>1, <3>2, <3>3 DEF UserTaken
  <2>6. UserTaken(Len(read) + 1)'
    BY <1>1, <2>5 DEF UserTaken
  <2> QED
    BY <1>1, <2>1, <2>3, <2>4, <2>6 DEF SessionInv, SessionIsAuthorized
<1>3. CASE state.state # "authorization"
  BY <1>3 DEF server_authorize, SessionInv
<1> QED
  BY <1>2, <1>3

LEMMA SessionStep == SessionInv /\ [SessionNext]_session_vars => SessionInv'
<1> SUFFICES ASSUME SessionInv, [SessionNext]_session_vars
             PROVE  SessionInv'
  OBVIOUS
<1>1. CASE cut_line \/ free_state
  BY <1>1 DEF cut_line, free_state, SessionInv, SessionTypeOK, SessionIsAuthorized, State,
              UserTaken
<1>2. CASE end_of_file
  BY <1>2 DEF end_of_file, SessionInv, SessionTypeOK, SessionIsAuthorized, UserGiven,
              PasswordGiven, Between, UserTaken
<1>3. CASE UNCHANGED session_vars
  BY <1>3 DEF session_vars, SessionInv, SessionTypeOK, SessionIsAuthorized, UserGiven,
              PasswordGiven, Between, UserTaken
<1> QED
  BY <1>1, <1>2, <1>3, CommandKeeps, AuthorizeKeeps DEF SessionNext

-----------------------------------------------------------------------------
(* However long the file of commands is, a session is reached only with    *)
(* the right user and password, given in this order and after each other.  *)
THEOREM OnlyAuthorized == SessionSpec => []SessionIsAuthorized
<1>1. SessionInv => SessionIsAuthorized
  BY DEF SessionInv
<1> QED
  BY <1>1, SessionInitHolds, SessionStep, PTL DEF SessionSpec

-----------------------------------------------------------------------------
(* The recursive function of FoldLeft, on the first n events: g of a set of *)
(* positions is the state that the events at these positions lead to.      *)
Counts(g, q, n) ==
  g = [s \in SUBSET (1..n) |->
         IF s = {} THEN "init" ELSE DefStep(g[s \ {Max(s)}], q[Max(s)])]

(* Every set of naturals has a smallest element: what is said of folds      *)
(* below is shown with it, for a smallest number that would not have it.   *)
LEMMA Smallest ==
  ASSUME NEW T \in SUBSET Nat, T # {}
  PROVE  \E m \in T : \A k \in T : m <= k
<1> DEFINE R == OpToRel(<, Nat)
<1>1. IsWellFoundedOn(R, Nat)
  BY NatLessThanWellFounded
<1>2. \A i, j \in Nat : <<i, j>> \in R <=> i < j
  BY DEF OpToRel
<1> HIDE DEF R
<1>3. PICK m \in T : \A k \in T : ~(<<k, m>> \in R)
  BY <1>1, WFMin
<1>4. ASSUME NEW k \in T
      PROVE  m <= k
  <2>1. k \in Nat /\ m \in Nat /\ ~(k < m)
    BY <1>2, <1>3
  <2> QED
    BY <2>1
<1> QED
  BY <1>4

(* The largest position of a set is one of its positions. *)
LEMMA MaxIs ==
  ASSUME NEW n \in Nat, NEW s \in SUBSET (1..n), s # {}
  PROVE  Max(s) \in s /\ \A k \in s : k <= Max(s)
<1> DEFINE T == {m \in Nat : \A k \in s : k <= m}
<1>1. n \in T
  OBVIOUS
<1>2. PICK m \in T : \A k \in T : m <= k
  <2>1. T \in SUBSET Nat /\ T # {}
    BY <1>1
  <2> HIDE DEF T
  <2> QED
    BY <2>1, Smallest
<1>3. m \in s
  <2> SUFFICES ASSUME m \notin s
               PROVE  FALSE
    OBVIOUS
  <2>1. m \in Nat /\ \A k \in s : k \in Nat /\ k >= 1 /\ k <= m /\ k # m
    OBVIOUS
  <2>2. m - 1 \in Nat /\ \A k \in s : k <= m - 1
    <3>1. PICK x : x \in s
      OBVIOUS
    <3> QED
      BY <2>1, <3>1
  <2>3. m - 1 \in T /\ ~(m <= m - 1)
    BY <2>1, <2>2
  <2> QED
    BY <1>2, <2>3
<1>4. \E x \in s : \A y \in s : x >= y
  BY <1>3
<1>5. Max(s) \in s /\ \A y \in s : Max(s) >= y
  BY <1>4 DEF Max
<1> QED
  BY <1>5

(* The fold is this function at all the positions. *)
LEMMA FoldIs ==
  ASSUME NEW q \in Seq(Event)
  PROVE  FoldLeft(DefStep, "init", q) = (CHOOSE g : Counts(g, q, Len(q)))[1..Len(q)]
<1>1. DOMAIN q = 1..Len(q)
  BY LenProperties
<1> QED
  BY <1>1 DEF FoldLeft, MapThenFoldSet, Counts

(* What Counts says, set by set. *)
LEMMA CountsAt ==
  ASSUME NEW n \in Nat, NEW q, NEW g, Counts(g, q, n)
  PROVE  /\ g[{}] = "init"
         /\ \A s \in SUBSET (1..n) : s # {} => g[s] = DefStep(g[s \ {Max(s)}], q[Max(s)])
BY DEF Counts

(* The last position is the largest. *)
LEMMA MaxOf ==
  ASSUME NEW n \in Nat, NEW s \in SUBSET (1..(n + 1)), n + 1 \in s
  PROVE  Max(s) = n + 1
<1>1. Max(s) \in s /\ \A k \in s : k <= Max(s)
  <2>1. n + 1 \in Nat
    OBVIOUS
  <2> QED
    BY <2>1, MaxIs
<1>2. PICK x : x = Max(s)
  OBVIOUS
<1>3. x \in 1..(n + 1) /\ n + 1 <= x
  BY <1>1, <1>2
<1> QED
  BY <1>2, <1>3

(* The function that FoldLeft chooses exists. *)
LEMMA CountsExists ==
  ASSUME NEW q, NEW n \in Nat
  PROVE  \E g : Counts(g, q, n)
<1> DEFINE T == {m \in Nat : ~\E g : Counts(g, q, m)}
<1> SUFFICES ASSUME T # {}
             PROVE  FALSE
  OBVIOUS
<1>1. PICK m \in T : \A k \in T : m <= k
  <2>1. T \in SUBSET Nat
    OBVIOUS
  <2> HIDE DEF T
  <2> QED
    BY <2>1, Smallest
<1>2. m # 0
  <2> DEFINE g == [s \in SUBSET (1..0) |-> "init"]
  <2>1. \A s \in SUBSET (1..0) : s = {}
    OBVIOUS
  <2>2. Counts(g, q, 0)
    BY <2>1 DEF Counts
  <2> QED
    BY <2>2
<1>3. PICK k \in Nat : m = k + 1 /\ k \notin T
  BY <1>1, <1>2
<1>4. PICK g : Counts(g, q, k)
  BY <1>3
<1> DEFINE h == [s \in SUBSET (1..(k + 1)) |->
                   IF k + 1 \in s THEN DefStep(g[s \ {k + 1}], q[k + 1]) ELSE g[s]]
<1>5. ASSUME NEW s \in SUBSET (1..(k + 1))
      PROVE  h[s] = IF s = {} THEN "init" ELSE DefStep(h[s \ {Max(s)}], q[Max(s)])
  <2>0. s \ {k + 1} \in SUBSET (1..k) /\ \A u \in SUBSET (1..k) : h[u] = g[u]
    BY <1>5
  <2>1. CASE k + 1 \in s
    <3>1. Max(s) = k + 1
      BY <1>5, <2>1, MaxOf
    <3>2. h[s] = DefStep(g[s \ {k + 1}], q[k + 1])
      BY <1>5, <2>1
    <3>3. h[s \ {k + 1}] = g[s \ {k + 1}]
      BY <2>0
    <3> QED
      BY <2>1, <3>1, <3>2, <3>3
  <2>2. CASE k + 1 \notin s
    <3>1. s \in SUBSET (1..k)
      BY <1>5, <2>2
    <3>2. h[s] = g[s] /\ h[s \ {Max(s)}] = g[s \ {Max(s)}]
      BY <2>0, <3>1
    <3>3. g[s] = IF s = {} THEN "init" ELSE DefStep(g[s \ {Max(s)}], q[Max(s)])
      BY <1>4, <3>1, CountsAt
    <3> QED
      BY <3>2, <3>3
  <2> QED
    BY <2>1, <2>2
<1>6. Counts(h, q, k + 1)
  <2>1. DOMAIN h = SUBSET (1..(k + 1)) /\ h = [s \in DOMAIN h |-> h[s]]
    OBVIOUS
  <2> HIDE DEF h
  <2> QED
    BY <1>5, <2>1 DEF Counts
<1> QED
  BY <1>1, <1>3, <1>6

(* The first n events of both are the same. *)
Begins(p, q, n) == \A i \in 1..n : p[i] = q[i]

(* It depends on nothing but the events that it is given. *)
LEMMA CountsAgree ==
  ASSUME NEW n \in Nat, NEW m \in Nat, n <= m, NEW q, NEW p, Begins(p, q, n),
         NEW g, NEW h, Counts(g, q, n), Counts(h, p, m)
  PROVE  \A s \in SUBSET (1..n) : h[s] = g[s]
<1> DEFINE T == {k \in Nat : k <= n /\ ~\A s \in SUBSET (1..k) : h[s] = g[s]}
<1> SUFFICES ASSUME T # {}
             PROVE  FALSE
  OBVIOUS
<1>1. PICK k \in T : \A j \in T : k <= j
  <2>1. T \in SUBSET Nat
    OBVIOUS
  <2> HIDE DEF T
  <2> QED
    BY <2>1, Smallest
<1>2. PICK s \in SUBSET (1..k) : h[s] # g[s]
  BY <1>1
<1>3. k \in Nat /\ k <= n /\ s \in SUBSET (1..n) /\ s \in SUBSET (1..m)
  BY <1>1, <1>2
<1>4. s # {}
  BY <1>2, CountsAt
<1>5. Max(s) \in s /\ Max(s) \in 1..k /\ \A i \in s : i <= Max(s)
  BY <1>2, <1>3, <1>4, MaxIs
<1>6. PICK x \in 1..k, j \in Nat : x = Max(s) /\ j = x - 1 /\ j < k /\ j <= n
  BY <1>3, <1>5
<1>7. s \ {Max(s)} \in SUBSET (1..j)
  <2>1. \A i \in s \ {x} : i \in 1..k /\ i <= x /\ i # x
    BY <1>2, <1>5, <1>6
  <2>2. \A i \in s \ {x} : i \in 1..j
    BY <1>3, <1>6, <2>1
  <2> QED
    BY <1>6, <2>2
<1>8. h[s \ {Max(s)}] = g[s \ {Max(s)}]
  BY <1>1, <1>3, <1>6, <1>7
<1>9. q[Max(s)] = p[Max(s)]
  BY <1>3, <1>5 DEF Begins
<1>10. /\ g[s] = DefStep(g[s \ {Max(s)}], q[Max(s)])
       /\ h[s] = DefStep(h[s \ {Max(s)}], p[Max(s)])
  <2>1. h[s] = DefStep(h[s \ {Max(s)}], p[Max(s)])
    BY <1>3, <1>4, ZenonT(30) DEF Counts
  <2>2. g[s] = DefStep(g[s \ {Max(s)}], q[Max(s)])
    BY <1>3, <1>4, ZenonT(30) DEF Counts
  <2> QED
    BY <2>1, <2>2
<1> QED
  BY <1>2, <1>8, <1>9, <1>10

(* One more event is one more step. *)
LEMMA FoldAppend ==
  ASSUME NEW q \in Seq(Event), NEW e \in Event
  PROVE  FoldLeft(DefStep, "init", Append(q, e)) = DefStep(FoldLeft(DefStep, "init", q), e)
<1>1. PICK n \in Nat : n = Len(q)
  BY LenProperties
<1>2. PICK p \in Seq(Event) : p = Append(q, e)
  BY AppendProperties
<1>3. Len(p) = n + 1 /\ p[n + 1] = e /\ \A i \in 1..n : p[i] = q[i]
  BY <1>1, <1>2, AppendProperties
<1>4. PICK g : g = (CHOOSE f : Counts(f, q, n)) /\ Counts(g, q, n)
  BY CountsExists
<1>b. PICK m \in Nat : m = n + 1
  OBVIOUS
<1>5. PICK h : h = (CHOOSE f : Counts(f, p, m)) /\ Counts(h, p, m)
  BY CountsExists
<1>6. h[1..n] = g[1..n]
  <2>1. n <= m /\ Begins(p, q, n)
    BY <1>3, <1>b DEF Begins
  <2>2. \A s \in SUBSET (1..n) : h[s] = g[s]
    <3>1. Counts(g, q, n) /\ Counts(h, p, m)
      BY <1>4, <1>5
    <3>2. \A i, j \in Nat : i <= j =>
            \A t, u, f, k : Begins(u, t, i) /\ Counts(f, t, i) /\ Counts(k, u, j) =>
              \A s \in SUBSET (1..i) : k[s] = f[s]
      BY ONLY CountsAgree
    <3>3. n \in Nat /\ m \in Nat
      OBVIOUS
    <3>4. \A t, u, f, k : Begins(u, t, n) /\ Counts(f, t, n) /\ Counts(k, u, m) =>
              \A s \in SUBSET (1..n) : k[s] = f[s]
      BY ONLY <2>1, <3>2, <3>3
    <3>5. \A f, k : Counts(f, q, n) /\ Counts(k, p, m) =>
              \A s \in SUBSET (1..n) : k[s] = f[s]
      BY ONLY <2>1, <3>4
    <3> QED
      BY ONLY <3>1, <3>5
  <2> QED
    BY <2>2
<1>7. h[1..m] = DefStep(h[1..n], e)
  <2>1. PICK s \in SUBSET (1..m) : s = 1..m
    OBVIOUS
  <2>2. m \in s /\ s # {} /\ s \ {m} = 1..n
    <3>1. m \in 1..m /\ \A i : i \in (1..m) \ {m} <=> i \in 1..n
      BY <1>b
    <3> QED
      BY <2>1, <3>1
  <2>3. Max(s) = m
    BY <1>b, <2>1, <2>2, MaxOf
  <2>4. h[s] = DefStep(h[s \ {Max(s)}], p[Max(s)])
    BY <1>5, <2>1, <2>2, ZenonT(30) DEF Counts
  <2>5. p[m] = e
    BY <1>3, <1>b
  <2> QED
    BY <2>1, <2>2, <2>3, <2>4, <2>5
<1>8. FoldLeft(DefStep, "init", q) = g[1..n]
  BY <1>1, <1>4, FoldIs
<1>9. FoldLeft(DefStep, "init", p) = h[1..m]
  BY <1>3, <1>b, <1>5, FoldIs
<1> QED
  BY <1>2, <1>6, <1>7, <1>8, <1>9

LEMMA FoldEmpty == FoldLeft(DefStep, "init", <<>>) = "init"
<1>1. PICK q \in Seq(Event) : q = <<>> /\ Len(q) = 0
  BY EmptySeq
<1>2. PICK g : g = (CHOOSE f : Counts(f, q, 0)) /\ Counts(g, q, 0)
  BY CountsExists
<1>3. 1..0 = {} /\ {} \in SUBSET (1..0)
  OBVIOUS
<1>4. g[{}] = "init"
  BY <1>2, <1>3 DEF Counts
<1> QED
  BY <1>1, <1>2, <1>3, <1>4, FoldIs

(* Where the generated table and server.def go is the same, except for a    *)
(* machine that is done, which run() does not step.                        *)
LEMMA TableIsDef ==
  ASSUME NEW st \in State \ {"done"}, NEW e \in Event
  PROVE  DefStep(st, e) = IF server_fsm_step(st, e) = "invalid" THEN st
                          ELSE server_fsm_step(st, e)
<1>1. CASE \E t \in Def : t[1] \in {st, "*"} /\ t[2] = e
  <2>1. PICK t : t = CHOOSE u \in Def : u[1] \in {st, "*"} /\ u[2] = e
    OBVIOUS
  <2>2. t \in Def /\ t[1] \in {st, "*"} /\ t[2] = e
    BY <1>1, <2>1
  <2>3. DefStep(st, e) = t[3]
    BY <1>1, <2>1 DEF DefStep
  <2>4. server_fsm_step(st, e) = t[3] /\ t[3] # "invalid"
    BY <2>2 DEF server_fsm_step, Table, Def, State
  <2> QED
    BY <2>3, <2>4
<1>2. CASE ~\E t \in Def : t[1] \in {st, "*"} /\ t[2] = e
  <2>1. DefStep(st, e) = st
    BY <1>2 DEF DefStep
  <2>2. /\ e \notin {"timeout", "cmd_quit"}
        /\ st = "init" => e # "cmd_user"
        /\ st = "user_known" => e # "cmd_passw"
        /\ st = "authorization" =>
             e \notin {"password_accepted", "password_invalid", "too_many_attempts"}
        /\ st = "session" => e # "cmd_proceed"
    BY <1>2 DEF Def
  <2>3. server_fsm_step(st, e) = "invalid"
    BY <2>2 DEF server_fsm_step, Table, State
  <2> QED
    BY <2>1, <2>3
<1> QED
  BY <1>1, <1>2

-----------------------------------------------------------------------------
(* FollowsDef is not inductive: a step of a machine that is done would      *)
(* start it again, so run() must not take one. ResultTells needs the        *)
(* command that has ended the loop.                                         *)
FollowInv ==
  /\ SessionInv
  /\ FollowsDef
  /\ at = "loop" => state.state # "done"
  /\ at = "end" => read # <<>> /\ Last(read).name = "cmd_quit"
  /\ ResultTells

LEMMA FollowInitHolds == SessionInit => FollowInv
BY SessionInitHolds, FoldEmpty DEF SessionInit, FollowInv, FollowsDef, ResultTells

LEMMA CommandFollows == ASSUME FollowInv, SessionInv', command
                        PROVE  FollowInv'
<1> DEFINE next(c) == server_fsm_step(state.state, c.name)
<1>1. PICK c \in Command : \E taken \in Taken(c) :
        /\ read' = Append(read, c) /\ events' = Append(events, c.name)
        /\ state' = [taken EXCEPT !.state = IF next(c) = "invalid" THEN @ ELSE next(c)]
        /\ at' = IF next(c) = "authorization" THEN "authorize"
                 ELSE IF next(c) = "done" THEN "end" ELSE "loop"
  BY DEF command
<1>2. c.name \in {"cmd_user", "cmd_passw", "cmd_quit", "invalid"} /\ c.name \in Event
  BY DEF Command, Event
<1>3. /\ at = "loop" /\ result' = result
      /\ state.state \in State \ {"done"} /\ events \in Seq(Event) /\ read \in Seq(Command)
      /\ state.state = FoldLeft(DefStep, "init", events)
  BY DEF command, FollowInv, FollowsDef, SessionInv, SessionTypeOK
<1>4. state'.state = IF next(c) = "invalid" THEN state.state ELSE next(c)
  <2>1. PICK taken \in Taken(c) :
          state' = [taken EXCEPT !.state = IF next(c) = "invalid" THEN @ ELSE next(c)]
    BY <1>1
  <2>2. /\ taken.state = state.state
        /\ taken \in [state : State, user : Word \cup {NULL}, password : Word \cup {NULL}, attempts : Nat]
    <3>1. c.param \in Word \cup {NULL}
      BY DEF Command
    <3> QED
      BY <3>1 DEF Taken, get_param, FollowInv, SessionInv, SessionTypeOK
  <2> HIDE DEF next
  <2> QED
    BY <2>1, <2>2
<1>5. FollowsDef'
  <2>1. state'.state = DefStep(state.state, c.name)
    BY <1>2, <1>3, <1>4, TableIsDef
  <2>2. FoldLeft(DefStep, "init", Append(events, c.name))
          = DefStep(FoldLeft(DefStep, "init", events), c.name)
    BY <1>2, <1>3, FoldAppend
  <2> QED
    BY <1>1, <1>3, <2>1, <2>2 DEF FollowsDef
<1>6. next(c) = "done" <=> c.name = "cmd_quit"
  BY <1>2, <1>3 DEF server_fsm_step, Table, State
<1>7. read' # <<>> /\ Last(read') = c
  <2>1. /\ read' \in Seq(Command) /\ Len(read) \in Nat /\ Len(read') = Len(read) + 1
        /\ read'[Len(read) + 1] = c
    <3>1. SessionTypeOK /\ read' = Append(read, c)
      BY <1>1 DEF FollowInv, SessionInv
    <3> QED
      BY <3>1, ReadOn
  <2> QED
    BY <2>1, EmptySeq DEF Last
<1> QED
  <2>1. at' \in {"authorize", "end", "loop"} /\ (at' = "end" <=> next(c) = "done")
    BY <1>1
  <2>2. at' = "loop" => state'.state # "done"
    BY <1>1, <1>3, <1>4
  <2> QED
    BY <1>5, <1>6, <1>7, <2>1, <2>2 DEF FollowInv, ResultTells

LEMMA AuthorizeFollows == ASSUME FollowInv, SessionInv', server_authorize
                          PROVE  FollowInv'
<1> DEFINE event == IF Right(state) THEN "password_accepted" ELSE "password_invalid"
<1>1. /\ at = "authorize" /\ at' = "loop" /\ events' = Append(events, event)
      /\ UNCHANGED <<result, read>>
      /\ state' = [state EXCEPT !.state = server_fsm_step(@, event),
                                !.attempts = IF Right(state) THEN @ ELSE @ + 1]
  BY DEF server_authorize
<1>2. state.state = "authorization" /\ event \in Event
  BY <1>1 DEF FollowInv, SessionInv, Event
<1>3. server_fsm_step(state.state, event) \in {"session", "init"}
  BY <1>2, Rows
<1>4. state'.state = server_fsm_step(state.state, event)
  BY <1>1 DEF FollowInv, SessionInv, SessionTypeOK
<1>5. state'.state = DefStep(state.state, event)
  BY <1>2, <1>3, <1>4, TableIsDef DEF State
<1>6. FoldLeft(DefStep, "init", Append(events, event))
        = DefStep(FoldLeft(DefStep, "init", events), event)
  BY <1>2, FoldAppend DEF FollowInv, SessionInv, SessionTypeOK
<1>7. FollowsDef'
  BY <1>1, <1>5, <1>6 DEF FollowInv, FollowsDef
<1> QED
  BY <1>1, <1>3, <1>4, <1>7 DEF FollowInv, ResultTells

LEMMA FollowStep == FollowInv /\ [SessionNext]_session_vars => FollowInv'
<1> SUFFICES ASSUME FollowInv, [SessionNext]_session_vars
             PROVE  FollowInv'
  OBVIOUS
<1>1. SessionInv'
  BY SessionStep DEF FollowInv
<1>2. CASE cut_line \/ free_state
  BY <1>1, <1>2 DEF cut_line, free_state, FollowInv, FollowsDef, ResultTells
<1>3. CASE end_of_file
  BY <1>1, <1>3 DEF end_of_file, FollowInv, FollowsDef, ResultTells
<1>4. CASE UNCHANGED session_vars
  BY <1>1, <1>4 DEF session_vars, FollowInv, FollowsDef, ResultTells
<1> QED
  BY <1>1, <1>2, <1>3, <1>4, CommandFollows, AuthorizeFollows DEF SessionNext

(* However many commands the file has, the generated machine is where the   *)
(* transitions of server.def lead after the same events, and run() returns *)
(* 0 only when QUIT was the last command.                                  *)
THEOREM MachineFollowsDef == SessionSpec => []ServerFollowsDef
<1>1. FollowInv => ServerFollowsDef
  BY DEF FollowInv, SessionInv, ServerFollowsDef
<1> QED
  BY <1>1, FollowInitHolds, FollowStep, PTL DEF SessionSpec

-----------------------------------------------------------------------------
(* Objects. *)

Alive(h) == {i \in Id : h[i].type # "FREE"}

(* No object is twice in a container. *)
Once(o) == \A j, k \in 1..Count(o) : Item(o, j) = Item(o, k) /\ Item(o, j) \in Id => j = k

Slot == Id \cup {Null, NONE}
Element == [key : Key, value : Id]

(* The allocations that an array can have. *)
Size ==
  {n \in 1..(MARRAY_MAX - 1) : \A S \in SUBSET (1..(MARRAY_MAX - 1)) :
     (/\ ALLOC_MIN < MARRAY_MAX => ALLOC_MIN \in S
      /\ \A m \in S : 2 * m < MARRAY_MAX => 2 * m \in S) => n \in S}

(* One slot more is allocated than is used. *)
IsArray(o) ==
  /\ o = [type |-> "MARRAY", entries |-> o.entries, nalloc |-> o.nalloc, nused |-> o.nused]
  /\ o.nalloc \in Size \cup {0} /\ o.nused \in Nat
  /\ o.nused < o.nalloc \/ o.nused = 0
  /\ o.entries \in [1..o.nalloc -> Slot]
  /\ \A k \in 1..o.nused : o.entries[k] \in Id \cup {NONE}

IsDict(o) ==
  /\ o = [type |-> "MDICT", entries |-> o.entries, num_entries |-> o.num_entries]
  /\ o.num_entries \in 0..(SIZE_MOD - 1)
  /\ Len(o.entries) \in Nat /\ o.entries \in [1..Len(o.entries) -> Element]
  /\ \A j, k \in 1..Len(o.entries) : o.entries[j].key = o.entries[k].key => j = k

Shaped(o) == o = Gone \/ o = Number \/ (o.type = "MARRAY" /\ IsArray(o)) \/ (o.type = "MDICT" /\ IsDict(o))

(* What a heap is whose objects belong to the caller, or to a container    *)
(* that can be reached from what belongs to him.                           *)
Owned(h, own) ==
  /\ own \subseteq Alive(h)
  /\ \A j \in Id : Held(h[j]) \subseteq Alive(h)
  /\ \A j \in Id : own \cap Held(h[j]) = {}
  /\ \A j, k \in Id : j # k => Held(h[j]) \cap Held(h[k]) = {}
  /\ \A j \in Id : Once(h[j])
  /\ \A S \in SUBSET Id : own \subseteq S /\ Closed(S, h) => Alive(h) \subseteq S

(* OneOwner is not inductive: an object that is taken out, or what is below *)
(* one that is freed, must not be held from elsewhere.                     *)
ObjectInv ==
  /\ heap = [i \in Id |-> heap[i]] /\ owned \subseteq Id /\ damaged \in BOOLEAN
  /\ \A i \in Id : Shaped(heap[i])
  /\ ~damaged => Owned(heap, owned)

-----------------------------------------------------------------------------
LEMMA NoneIsNoId == ASSUME ObjectAssumption PROVE Null \notin Id /\ NONE \notin Id
BY DEF ObjectAssumption, Null, NONE

LEMMA BelowIs ==
  ASSUME ObjectAssumption, NEW h, NEW x \in Id, \A i \in Id : Held(h[i]) \subseteq Id
  PROVE  /\ Below(x, h) \subseteq Id /\ x \in Below(x, h) /\ Closed(Below(x, h), h)
         /\ \A S \in SUBSET Id : x \in S /\ Closed(S, h) => Below(x, h) \subseteq S
<1>1. {x} \ {Null, NONE} = {x}
  BY NoneIsNoId
<1>2. \A i \in Below(x, h) : i \in Id /\ \A S \in SUBSET Id : x \in S /\ Closed(S, h) => i \in S
  BY <1>1 DEF Below
<1>3. \A i \in Id : (\A S \in SUBSET Id : x \in S /\ Closed(S, h) => i \in S) => i \in Below(x, h)
  BY <1>1 DEF Below
<1>4. ASSUME NEW i \in Below(x, h), NEW j \in Held(h[i])
      PROVE  j \in Below(x, h)
  <2>1. \A S \in SUBSET Id : x \in S /\ Closed(S, h) => j \in S
    BY <1>2 DEF Closed
  <2> QED
    BY <1>2, <1>3, <2>1
<1> QED
  BY <1>2, <1>3, <1>4 DEF Closed

LEMMA NothingBelowNone ==
  ASSUME NEW h, NEW x \in {Null, NONE}
  PROVE  Below(x, h) = {}
<1>1. {x} \ {Null, NONE} = {} /\ Closed({}, h) /\ {} \in SUBSET Id
  BY DEF Closed
<1> QED
  BY <1>1 DEF Below

LEMMA DeadHoldNothing == ASSUME NEW o, o.type = "FREE" PROVE Held(o) = {}
BY DEF Held, Count

(* What is below an object of the caller is below nothing else. *)
LEMMA BelowInside ==
  ASSUME ObjectAssumption, NEW h, NEW own, Owned(h, own), NEW x \in own
  PROVE  /\ own \cap Below(x, h) = {x}
         /\ \A j \in Id \ Below(x, h) : Held(h[j]) \cap Below(x, h) = {}
<1> DEFINE B == Below(x, h)
<1>1. x \in Id /\ \A i \in Id : Held(h[i]) \subseteq Id
  BY DEF Owned, Alive
<1>2. /\ B \subseteq Id /\ x \in B /\ Closed(B, h)
      /\ \A S \in SUBSET Id : x \in S /\ Closed(S, h) => B \subseteq S
  BY <1>1, BelowIs
<1> HIDE DEF B
<1>3. own \cap B = {x}
  <2> DEFINE S == B \ (own \ {x})
  <2>1. x \in S /\ Closed(S, h) /\ S \in SUBSET Id
    BY <1>2 DEF Closed, Owned
  <2> QED
    BY <1>2, <2>1
<1>4. ASSUME NEW j \in Id \ B, NEW y \in Held(h[j]) \cap B
      PROVE  FALSE
  <2> DEFINE T == B \ {y}
  <2>1. x \in T
    BY <1>2 DEF Owned
  <2>2. ASSUME NEW i \in T, NEW k \in Held(h[i])
        PROVE  k \in T
    <3>1. i # j /\ i \in Id
      BY <1>2
    <3> QED
      BY <1>2, <3>1 DEF Closed, Owned
  <2>3. T \in SUBSET Id /\ Closed(T, h)
    BY <1>2, <2>2 DEF Closed
  <2> QED
    BY <1>2, <2>1, <2>3
<1> QED
  BY <1>3, <1>4 DEF B

LEMMA FreeKeeps ==
  ASSUME ObjectAssumption, NEW h, NEW own, Owned(h, own), NEW x \in own
  PROVE  Owned(mobject_free(x, h), own \ {x})
<1> DEFINE B == Below(x, h)
           h2 == mobject_free(x, h)
<1>1. x \in Id /\ \A i \in Id : Held(h[i]) \subseteq Id
  BY DEF Owned, Alive
<1>2. B \subseteq Id /\ x \in B /\ Closed(B, h)
  BY <1>1, BelowIs
<1>3. own \cap B = {x} /\ \A j \in Id \ B : Held(h[j]) \cap B = {}
  BY BelowInside
<1>4. /\ \A j \in B : h2[j] = Gone
      /\ \A j \in Id \ B : h2[j] = h[j]
  BY <1>2 DEF mobject_free
<1>5. Held(Gone) = {} /\ Once(Gone) /\ Gone.type = "FREE"
  BY DEF Held, Once, Count, Gone
<1> HIDE DEF B, h2
<1>6. Alive(h2) = Alive(h) \ B
  BY <1>2, <1>4, <1>5 DEF Alive
<1>7. own \ {x} \subseteq Alive(h2)
  BY <1>3, <1>6 DEF Owned
<1>8. \A j \in Id : Held(h2[j]) \subseteq Alive(h2)
  BY <1>2, <1>3, <1>4, <1>5, <1>6 DEF Owned
<1>9. \A j \in Id : Held(h2[j]) \subseteq Held(h[j]) /\ Once(h2[j])
  BY <1>2, <1>4, <1>5 DEF Owned
<1>10. \A j \in Id : (own \ {x}) \cap Held(h2[j]) = {}
  BY <1>9 DEF Owned
<1>11. \A j, k \in Id : j # k => Held(h2[j]) \cap Held(h2[k]) = {}
  BY <1>9 DEF Owned
<1>12. ASSUME NEW S \in SUBSET Id, own \ {x} \subseteq S, Closed(S, h2)
       PROVE  Alive(h2) \subseteq S
  <2>1. Closed(S \cup B, h)
    BY <1>2, <1>4, <1>12 DEF Closed
  <2>2. S \cup B \in SUBSET Id /\ own \subseteq S \cup B
    BY <1>2, <1>12
  <2>3. Alive(h) \subseteq S \cup B
    BY <2>1, <2>2 DEF Owned
  <2> QED
    BY <2>3, <1>6
<1> QED
  BY <1>7, <1>8, <1>9, <1>10, <1>11, <1>12 DEF Owned, h2

LEMMA GiveKeeps ==
  ASSUME ObjectAssumption, NEW h, NEW own, Owned(h, own), NEW x \in own,
         NEW c \in Alive(h), c \notin Below(x, h), NEW o, o.type # "FREE",
         Held(o) = Held(h[c]) \cup {x}, Once(o), 
         NEW h2, \A i \in Id : h2[i] = IF i = c THEN o ELSE h[i]
  PROVE  Owned(h2, own \ {x})
<1> DEFINE B == Below(x, h)
<1>1. x \in Id /\ \A i \in Id : Held(h[i]) \subseteq Id
  BY DEF Owned, Alive
<1>2. B \subseteq Id /\ x \in B /\ Closed(B, h)
  BY <1>1, BelowIs
<1> HIDE DEF B
<1>3. c \in Id /\ c \notin B
  BY DEF Alive, B
<1>4. Alive(h2) = Alive(h)
  BY DEF Alive
<1>5. own \ {x} \subseteq Alive(h2) /\ x \in Alive(h)
  BY <1>4 DEF Owned
<1>6. \A j \in Id : Held(h2[j]) \subseteq Alive(h2)
  BY <1>4, <1>5 DEF Owned
<1>7. \A j \in Id : (own \ {x}) \cap Held(h2[j]) = {}
  BY DEF Owned
<1>8. \A j, k \in Id : j # k => Held(h2[j]) \cap Held(h2[k]) = {}
  BY DEF Owned
<1>9. \A j \in Id : Once(h2[j])
  BY DEF Owned
<1>10. ASSUME NEW S \in SUBSET Id, own \ {x} \subseteq S, Closed(S, h2)
       PROVE  Alive(h2) \subseteq S
  <2>1. CASE c \in S
    <3>1. own \subseteq S /\ Closed(S, h)
      BY <1>10, <2>1, <1>3 DEF Closed
    <3> QED
      BY <3>1, <1>4 DEF Owned
  <2>2. CASE c \notin S
    <3>1. own \subseteq S \cup B /\ S \cup B \in SUBSET Id
      BY <1>10, <1>2
    <3>2. Closed(S \cup B, h)
      BY <1>2, <1>3, <1>10, <2>2 DEF Closed
    <3>3. Alive(h) \subseteq S \cup B
      BY <3>1, <3>2 DEF Owned
    <3> QED
      BY <3>3, <2>2, <1>3
  <2> QED
    BY <2>1, <2>2
<1> QED
  BY <1>5, <1>6, <1>7, <1>8, <1>9, <1>10 DEF Owned

LEMMA TakeKeeps ==
  ASSUME NEW h, NEW own, Owned(h, own),
         NEW c \in Alive(h), NEW x \in Held(h[c]), NEW o, o.type # "FREE",
         Held(o) = Held(h[c]) \ {x}, Once(o),
         NEW h2, \A i \in Id : h2[i] = IF i = c THEN o ELSE h[i]
  PROVE  Owned(h2, own \cup {x}) /\ x \notin own
<1>1. c \in Id /\ x \in Alive(h) /\ x \notin own
  BY DEF Owned, Alive
<1>2. Alive(h2) = Alive(h)
  BY DEF Alive
<1>3. own \cup {x} \subseteq Alive(h2) /\ \A j \in Id : Held(h2[j]) \subseteq Alive(h2)
  BY <1>1, <1>2 DEF Owned
<1>4. \A j \in Id : (own \cup {x}) \cap Held(h2[j]) = {}
  BY <1>1 DEF Owned
<1>5. \A j, k \in Id : j # k => Held(h2[j]) \cap Held(h2[k]) = {}
  BY DEF Owned
<1>6. \A j \in Id : Once(h2[j])
  BY DEF Owned
<1>7. ASSUME NEW S \in SUBSET Id, own \cup {x} \subseteq S, Closed(S, h2)
      PROVE  Alive(h2) \subseteq S
  <2>1. Closed(S, h)
    BY <1>1, <1>7 DEF Closed
  <2> QED
    BY <1>2, <1>7, <2>1 DEF Owned
<1> QED
  BY <1>1, <1>3, <1>4, <1>5, <1>6, <1>7 DEF Owned

(* A container that is changed but holds what it held. *)
LEMMA SameKeeps ==
  ASSUME NEW h, NEW own, Owned(h, own),
         NEW c \in Alive(h), NEW o, o.type # "FREE", Held(o) = Held(h[c]), Once(o),
         NEW h2, \A i \in Id : h2[i] = IF i = c THEN o ELSE h[i]
  PROVE  Owned(h2, own)
<1>1. Alive(h2) = Alive(h)
  BY DEF Alive
<1>2. \A i \in Id : Held(h2[i]) = Held(h[i]) /\ Once(h2[i])
  BY DEF Owned
<1>3. \A S \in SUBSET Id : Closed(S, h2) => Closed(S, h)
  BY <1>2 DEF Closed
<1> QED
  BY <1>1, <1>2, <1>3 DEF Owned

LEMMA CreateKeeps ==
  ASSUME NEW h, NEW own, Owned(h, own),
         NEW i \in Id, h[i].type = "FREE", NEW o, o.type # "FREE", Held(o) = {}, Once(o),
         NEW h2, \A j \in Id : h2[j] = IF j = i THEN o ELSE h[j]
  PROVE  Owned(h2, own \cup {i})
<1>1. Alive(h2) = Alive(h) \cup {i} /\ i \notin Alive(h)
  BY DEF Alive
<1>2. Held(h[i]) = {}
  BY DeadHoldNothing
<1>3. \A j \in Id : Held(h2[j]) = Held(h[j]) /\ Once(h2[j])
  BY <1>2 DEF Owned
<1>4. \A S \in SUBSET Id : Closed(S, h2) => Closed(S, h)
  BY <1>3 DEF Closed
<1>5. \A j \in Id : i \notin Held(h[j])
  BY <1>1 DEF Owned
<1> QED
  BY <1>1, <1>3, <1>4, <1>5 DEF Owned

(* What a container holds does not hold the container. *)
LEMMA HolderAbove ==
  ASSUME ObjectAssumption, NEW h, NEW own, Owned(h, own),
         NEW c \in Alive(h), NEW y \in Held(h[c])
  PROVE  c \notin Below(y, h)
<1> DEFINE B == Below(y, h)
<1>1. c \in Id /\ y \in Id /\ y \notin own /\ \A i \in Id : Held(h[i]) \subseteq Id
  BY DEF Owned, Alive
<1>2. /\ B \subseteq Id /\ y \in B /\ Closed(B, h)
      /\ \A S \in SUBSET Id : y \in S /\ Closed(S, h) => B \subseteq S
  BY <1>1, BelowIs
<1> SUFFICES ASSUME c \in B
             PROVE  FALSE
  OBVIOUS
<1> HIDE DEF B
<1>3. own \cap B = {}
  <2>1. Closed(B \ own, h)
    BY <1>2 DEF Closed, Owned
  <2> QED
    BY <1>1, <1>2, <2>1
<1>4. ASSUME NEW i \in Id \ B, NEW k \in Held(h[i]) \cap B
      PROVE  FALSE
  <2>1. k # y
    BY <1>1 DEF Owned
  <2>2. Closed(B \ {k}, h)
    BY <1>2 DEF Closed, Owned
  <2> QED
    BY <1>2, <2>1, <2>2
<1>5. Closed(Id \ B, h)
  BY <1>1, <1>4 DEF Closed
<1>6. own \subseteq Id \ B
  BY <1>3 DEF Owned, Alive
<1>7. Alive(h) \subseteq Id \ B
  BY <1>5, <1>6 DEF Owned
<1> QED
  BY <1>7

(* What is below an object does not depend on what is elsewhere. *)
LEMMA BelowElsewhere ==
  ASSUME ObjectAssumption, NEW h, NEW h2, NEW x \in Id, NEW c \in Id \ Below(x, h),
         \A i \in Id : Held(h[i]) \subseteq Id /\ Held(h2[i]) \subseteq Id,
         \A i \in Id : i # c => h2[i] = h[i]
  PROVE  Below(x, h2) = Below(x, h)
<1>1. Closed(Below(x, h), h2)
  BY BelowIs DEF Closed
<1>2. Below(x, h2) \subseteq Below(x, h)
  BY <1>1, BelowIs
<1>3. Closed(Below(x, h2), h)
  BY <1>2, BelowIs DEF Closed
<1> QED
  BY <1>2, <1>3, BelowIs

(* Nothing more is below an object when containers hold less. *)
LEMMA BelowLess ==
  ASSUME ObjectAssumption, NEW h, NEW h2, NEW x \in Id,
         \A i \in Id : Held(h[i]) \subseteq Id /\ Held(h2[i]) \subseteq Held(h[i])
  PROVE  Below(x, h2) \subseteq Below(x, h)
<1>1. Closed(Below(x, h), h2)
  BY BelowIs DEF Closed
<1>2. \A i \in Id : Held(h2[i]) \subseteq Id
  OBVIOUS
<1> QED
  BY <1>1, <1>2, BelowIs

(* A container frees an object that it held. *)
LEMMA DropKeeps ==
  ASSUME ObjectAssumption, NEW h, NEW own, Owned(h, own),
         NEW c \in Alive(h), NEW y \in Held(h[c]), NEW o, o.type # "FREE",
         Held(o) = Held(h[c]) \ {y}, Once(o),
         NEW h2, \A i \in Id : h2[i] = IF i = c THEN o ELSE mobject_free(y, h)[i]
  PROVE  Owned(h2, own) /\ \A i \in Id : Held(h2[i]) \subseteq Held(h[i])
<1> DEFINE h1 == [i \in Id |-> IF i = c THEN o ELSE h[i]]
<1>1. c \in Id /\ y \in Id /\ y \notin own /\ \A i \in Id : Held(h[i]) \subseteq Id
  BY DEF Owned, Alive
<1>2. \A i \in Id : h1[i] = IF i = c THEN o ELSE h[i]
  OBVIOUS
<1> HIDE DEF h1
<1>3. Owned(h1, own \cup {y})
  BY <1>2, TakeKeeps
<1>4. Owned(mobject_free(y, h1), (own \cup {y}) \ {y})
  BY <1>3, FreeKeeps
<1>5. (own \cup {y}) \ {y} = own
  BY <1>1
<1>6. c \notin Below(y, h)
  BY HolderAbove
<1>7. Below(y, h1) = Below(y, h)
  BY <1>1, <1>2, <1>6, BelowElsewhere
<1>8. \A i \in Id : h2[i] = mobject_free(y, h1)[i]
  BY <1>1, <1>2, <1>6, <1>7 DEF mobject_free
<1>9. Owned(h2, own)
  <2>1. Owned(mobject_free(y, h1), own)
    BY <1>4, <1>5
  <2>2. Alive(h2) = Alive(mobject_free(y, h1))
    BY <1>8 DEF Alive
  <2>3. \A S : Closed(S, h2) /\ S \in SUBSET Id => Closed(S, mobject_free(y, h1))
    BY <1>8 DEF Closed
  <2> HIDE DEF h1
  <2> QED
    BY <1>8, <2>1, <2>2, <2>3 DEF Owned
<1>10. Held(Gone) = {}
  BY DEF Held, Count, Gone
<1>11. \A i \in Id : Held(mobject_free(y, h)[i]) \subseteq Held(h[i])
  BY <1>10 DEF mobject_free
<1> QED
  BY <1>9, <1>11

(* A container is given an object that was made for it. *)
LEMMA GiveNewKeeps ==
  ASSUME ObjectAssumption, NEW h, NEW own, Owned(h, own),
         NEW c \in Alive(h), NEW i \in Id, h[i].type = "FREE",
         NEW e, e.type # "FREE", Held(e) = {}, Once(e),
         NEW o, o.type # "FREE", Held(o) = Held(h[c]) \cup {i}, Once(o), 
         NEW h2, \A j \in Id : h2[j] = IF j = c THEN o ELSE IF j = i THEN e ELSE h[j]
  PROVE  Owned(h2, own)
<1> DEFINE h1 == [j \in Id |-> IF j = i THEN e ELSE h[j]]
<1>1. \A j \in Id : h1[j] = IF j = i THEN e ELSE h[j]
  OBVIOUS
<1> HIDE DEF h1
<1>2. Owned(h1, own \cup {i})
  BY <1>1, CreateKeeps
<1>3. c # i /\ i \notin own /\ c \in Alive(h1) /\ Held(h1[c]) = Held(h[c])
  BY <1>1 DEF Owned, Alive
<1>4. \A j \in Id : Held(h1[j]) \subseteq Id
  BY <1>2 DEF Owned, Alive
<1>5. Closed({i}, h1)
  BY <1>1 DEF Closed
<1>6. c \notin Below(i, h1)
  BY <1>3, <1>4, <1>5, BelowIs
<1>7. \A j \in Id : h2[j] = IF j = c THEN o ELSE h1[j]
  BY <1>1, <1>3
<1>8. Owned(h2, (own \cup {i}) \ {i})
  BY <1>2, <1>3, <1>6, <1>7, GiveKeeps
<1>9. (own \cup {i}) \ {i} = own
  BY <1>3
<1> QED
  BY <1>8, <1>9

(* A copy of all that is below an object of the caller becomes his. *)
LEMMA CopyKeeps ==
  ASSUME ObjectAssumption, NEW h, NEW own, Owned(h, own), NEW x \in own,
         NEW f \in [Below(x, h) -> {i \in Id : h[i].type = "FREE"}],
         \A j, k \in Below(x, h) : f[j] = f[k] => j = k,
         NEW h2, \A i \in Id : (\A j \in Below(x, h) : i # f[j]) => h2[i] = h[i],
         \A j \in Below(x, h) : /\ h2[f[j]].type # "FREE" /\ Once(h2[f[j]])
                                /\ Held(h2[f[j]]) = {f[k] : k \in Held(h[j])}
  PROVE  Owned(h2, own \cup {f[x]})
<1> DEFINE B == Below(x, h)
           R == {f[j] : j \in B}
<1>1. x \in Id /\ \A i \in Id : Held(h[i]) \subseteq Id
  BY DEF Owned, Alive
<1>2. /\ B \subseteq Id /\ x \in B /\ Closed(B, h)
      /\ \A S \in SUBSET Id : x \in S /\ Closed(S, h) => B \subseteq S
  BY <1>1, BelowIs
<1>3. R \subseteq Id /\ \A i \in R : h[i].type = "FREE"
  OBVIOUS
<1>4. \A i \in Id \ R : h2[i] = h[i]
  OBVIOUS
<1>5. \A i \in R : i \in Id /\ h2[i].type # "FREE" /\ Held(h2[i]) \subseteq R /\ Held(h[i]) = {}
  <2> TAKE i \in R
  <2>1. PICK j \in B : i = f[j]
    OBVIOUS
  <2>2. Held(h[j]) \subseteq B /\ Held(h[i]) = {}
    BY <1>2, <2>1, DeadHoldNothing DEF Closed
  <2> QED
    BY <2>1, <2>2
<1>6. Alive(h2) = Alive(h) \cup R /\ Alive(h) \cap R = {}
  BY <1>3, <1>4, <1>5 DEF Alive
<1>7. f[x] \in R
  BY <1>2
<1>8. own \cup {f[x]} \subseteq Alive(h2)
  BY <1>6, <1>7 DEF Owned
<1>9. \A j \in Id : Held(h2[j]) \subseteq Alive(h2)
  BY <1>4, <1>5, <1>6 DEF Owned
<1>10. \A j \in Id : Once(h2[j])
  <2> TAKE j \in Id
  <2> QED
    BY <1>4 DEF Owned
<1>11. ASSUME NEW j \in Id
       PROVE  (own \cup {f[x]}) \cap Held(h2[j]) = {}
  <2>1. CASE j \notin R
    BY <1>4, <1>6, <1>7, <2>1, SMTT(30) DEF Owned
  <2>2. CASE j \in R
    <3>1. PICK m \in B : j = f[m]
      BY <2>2
    <3>5. m \in Id /\ Held(h2[j]) = {f[k] : k \in Held(h[m])}
      BY <1>2, <3>1
    <3>2. x \notin Held(h[m]) /\ Held(h[m]) \subseteq B
      BY <1>2, <3>5 DEF Owned, Closed
    <3>3. f[x] \notin Held(h2[j])
      BY <1>2, <3>2, <3>5
    <3>4. own \cap R = {}
      BY <1>6 DEF Owned
    <3> QED
      BY <1>5, <2>2, <3>3, <3>4
  <2> QED
    BY <2>1, <2>2
<1>12. ASSUME NEW j \in Id, NEW k \in Id, j # k
       PROVE  Held(h2[j]) \cap Held(h2[k]) = {}
  <2>1. CASE j \notin R /\ k \notin R
    BY <1>4, <1>12, <2>1 DEF Owned
  <2>2. CASE j \in R /\ k \notin R
    BY <1>4, <1>5, <1>6, <2>2 DEF Owned
  <2>3. CASE j \notin R /\ k \in R
    BY <1>4, <1>5, <1>6, <2>3 DEF Owned
  <2>4. CASE j \in R /\ k \in R
    <3>1. PICK m \in B, n \in B : j = f[m] /\ k = f[n]
      BY <2>4
    <3>2. m # n /\ Held(h[m]) \subseteq B /\ Held(h[n]) \subseteq B /\ Held(h[m]) \cap Held(h[n]) = {}
      BY <1>2, <1>12, <3>1 DEF Owned, Closed
    <3> QED
      BY <3>1, <3>2
  <2> QED
    BY <2>1, <2>2, <2>3, <2>4
<1>13. ASSUME NEW S \in SUBSET Id, own \cup {f[x]} \subseteq S, Closed(S, h2)
       PROVE  Alive(h2) \subseteq S
  <2> DEFINE T == {j \in B : f[j] \in S}
  <2>1. \A i \in Id : Held(h[i]) \subseteq Held(h2[i])
    BY <1>4, <1>5
  <2>2. Closed(S, h)
    BY <1>13, <2>1 DEF Closed
  <2>3. Alive(h) \subseteq S
    BY <1>13, <2>2 DEF Owned
  <2>4. x \in T /\ T \in SUBSET Id
    BY <1>2, <1>13
  <2>5. ASSUME NEW j \in T, NEW k \in Held(h[j])
        PROVE  k \in T
    <3>0. j \in B /\ f[j] \in S
      OBVIOUS
    <3>1. k \in B
      BY ONLY <1>2, <3>0, k \in Held(h[j]) DEF Closed
    <3>2. Held(h2[f[j]]) = {f[l] : l \in Held(h[j])}
      BY <3>0
    <3>3. f[k] \in Held(h2[f[j]])
      BY ONLY <3>2, k \in Held(h[j])
    <3>4. f[k] \in S
      BY ONLY <1>13, <3>0, <3>3 DEF Closed
    <3> QED
      BY ONLY <3>1, <3>4
  <2>7. Closed(T, h)
    BY <2>5 DEF Closed
  <2>6. B \subseteq T
    BY <1>2, <2>4, <2>7
  <2> QED
    BY <1>6, <2>3, <2>6
<1> QED
  BY <1>8, <1>9, <1>10, <1>11, <1>12, <1>13 DEF Owned

-----------------------------------------------------------------------------
(* How far marray_resize() goes: the least doubling that is enough. *)

Grown(g, want) ==
  \A n \in 1..(2 * MARRAY_MAX) :
    g[n] = IF n < MARRAY_MAX /\ n <= want THEN g[2 * n] ELSE n

LEMMA GrownExists ==
  ASSUME ObjectAssumption, NEW want \in Nat
  PROVE  \E g : g = [n \in 1..(2 * MARRAY_MAX) |->
                       IF n < MARRAY_MAX /\ n <= want THEN g[2 * n] ELSE n]
<1> DEFINE D == 1..(2 * MARRAY_MAX)
           From(g, k) == \A n \in D : 2 * MARRAY_MAX - n <= k =>
                           g[n] = IF n < MARRAY_MAX /\ n <= want THEN g[2 * n] ELSE n
           Bad == {k \in Nat : ~\E g \in [D -> Nat] : From(g, k)}
<1>1. MARRAY_MAX \in Nat
  BY DEF ObjectAssumption
<1>2. Bad = {}
  <2> SUFFICES ASSUME Bad # {}
               PROVE  FALSE
    OBVIOUS
  <2>1. PICK k \in Bad : \A l \in Bad : k <= l
    <3>1. Bad \in SUBSET Nat
      OBVIOUS
    <3> HIDE DEF Bad
    <3> QED
      BY <3>1, Smallest
  <2>2. k \in Nat /\ ~\E g \in [D -> Nat] : From(g, k)
    OBVIOUS
  <2>3. CASE k < MARRAY_MAX \/ k = 0
    <3> DEFINE g == [n \in D |-> n]
    <3>1. g \in [D -> Nat] /\ \A n \in D : g[n] = n /\ n \in Nat
      OBVIOUS
    <3> HIDE DEF g
    <3>2. \A n \in D : 2 * MARRAY_MAX - n <= k => ~(n < MARRAY_MAX)
      BY <1>1, <2>2, <2>3
    <3>3. From(g, k)
      BY <3>1, <3>2
    <3> QED
      BY <2>2, <3>1, <3>3
  <2>4. CASE ~(k < MARRAY_MAX) /\ k # 0
    <3>1. k - 1 \in Nat /\ k - 1 \notin Bad
      BY <2>1, <2>2, <2>4, SMTT(30)
    <3>2. PICK g \in [D -> Nat] : From(g, k - 1)
      BY <3>1
    <3> DEFINE m == 2 * MARRAY_MAX - k
               g2 == [n \in D |-> IF n = m THEN IF n < MARRAY_MAX /\ n <= want THEN g[2 * n] ELSE n
                                  ELSE g[n]]
    <3>3. \A n \in D : n < MARRAY_MAX => 2 * n \in D /\ 2 * n > n
      BY <1>1
    <3>4. g2 \in [D -> Nat] 
      BY <1>1, <3>3
    <3>5. \A n \in D : g2[n] = IF n = m THEN IF n < MARRAY_MAX /\ n <= want THEN g[2 * n] ELSE n
                                  ELSE g[n]
      OBVIOUS
    <3> HIDE DEF g2
    <3>6. ASSUME NEW n \in D, 2 * MARRAY_MAX - n <= k
          PROVE  g2[n] = IF n < MARRAY_MAX /\ n <= want THEN g2[2 * n] ELSE n
      <4>1. CASE n = m
        BY <1>1, <3>3, <3>5, <4>1
      <4>2. CASE n # m
        <5>1. 2 * MARRAY_MAX - n <= k - 1
          BY <1>1, <2>2, <3>6, <4>2
        <5>2. g[n] = IF n < MARRAY_MAX /\ n <= want THEN g[2 * n] ELSE n
          BY <3>2, <5>1
        <5>3. n < MARRAY_MAX => 2 * n # m
          BY <1>1, <2>2, <3>6, <4>2
        <5> QED
          BY <3>3, <3>5, <4>2, <5>2, <5>3
      <4> QED
        BY <4>1, <4>2
    <3>7. From(g2, k)
      BY <3>6
    <3> QED
      BY <2>2, <3>4, <3>7
  <2> QED
    BY <2>3, <2>4
<1>3. 2 * MARRAY_MAX \in Nat
  BY <1>1
<1>4. PICK g \in [D -> Nat] : From(g, 2 * MARRAY_MAX)
  BY <1>2, <1>3
<1>5. \A n \in D : 2 * MARRAY_MAX - n <= 2 * MARRAY_MAX
  BY <1>1
<1>6. g = [n \in D |-> IF n < MARRAY_MAX /\ n <= want THEN g[2 * n] ELSE n]
  BY <1>4, <1>5
<1> QED
  BY <1>6

LEMMA SizeIs ==
  ASSUME ObjectAssumption
  PROVE  /\ ALLOC_MIN < MARRAY_MAX => ALLOC_MIN \in Size
         /\ \A n \in Size : n \in 1..(MARRAY_MAX - 1) /\ n >= ALLOC_MIN
                            /\ (2 * n < MARRAY_MAX => 2 * n \in Size)
<1>1. MARRAY_MAX \in Nat /\ ALLOC_MIN \in Nat /\ ALLOC_MIN >= 1
  BY DEF ObjectAssumption
<1>2. ALLOC_MIN < MARRAY_MAX => ALLOC_MIN \in Size
  BY <1>1 DEF Size
<1>3. ASSUME NEW n \in Size
      PROVE  n \in 1..(MARRAY_MAX - 1) /\ n >= ALLOC_MIN
  <2> DEFINE S == {m \in 1..(MARRAY_MAX - 1) : m >= ALLOC_MIN}
  <2>1. S \in SUBSET (1..(MARRAY_MAX - 1)) /\ (ALLOC_MIN < MARRAY_MAX => ALLOC_MIN \in S)
    BY <1>1
  <2>2. \A m \in S : 2 * m < MARRAY_MAX => 2 * m \in S
    BY <1>1
  <2> HIDE DEF S
  <2>3. n \in S
    BY <2>1, <2>2 DEF Size
  <2> QED
    BY <2>3 DEF S
<1>4. ASSUME NEW n \in Size, 2 * n < MARRAY_MAX
      PROVE  2 * n \in Size
  <2>1. n \in 1..(MARRAY_MAX - 1) /\ 2 * n \in 1..(MARRAY_MAX - 1)
    BY <1>1, <1>3, <1>4
  <2> SUFFICES ASSUME NEW S \in SUBSET (1..(MARRAY_MAX - 1)),
                      ALLOC_MIN < MARRAY_MAX => ALLOC_MIN \in S,
                      \A m \in S : 2 * m < MARRAY_MAX => 2 * m \in S
               PROVE  2 * n \in S
    BY <2>1 DEF Size
  <2>2. n \in S
    BY DEF Size
  <2> QED
    BY <1>4, <2>2
<1> QED
  BY <1>2, <1>3, <1>4

LEMMA GrownIs ==
  ASSUME ObjectAssumption, NEW want \in Nat, NEW g, Grown(g, want)
  PROVE  /\ \A n \in 1..(2 * MARRAY_MAX) : g[n] \in Nat /\ g[n] >= n /\ (g[n] > want \/ g[n] >= MARRAY_MAX)
         /\ \A n \in Size : g[n] < MARRAY_MAX => g[n] \in Size
         /\ \A d \in Size : want < d => g[ALLOC_MIN] <= d
<1> DEFINE D == 1..(2 * MARRAY_MAX)
           Good(n) == /\ g[n] \in Nat /\ g[n] >= n /\ (g[n] > want \/ g[n] >= MARRAY_MAX)
                      /\ n \in Size /\ g[n] < MARRAY_MAX => g[n] \in Size
           Bad == {k \in Nat : \E n \in D : k = 2 * MARRAY_MAX - n /\ ~Good(n)}
<1>1. MARRAY_MAX \in Nat /\ ALLOC_MIN \in Nat /\ ALLOC_MIN >= 1 /\ ALLOC_MIN <= MARRAY_MAX
  BY DEF ObjectAssumption
<1>2. Bad = {}
  <2> SUFFICES ASSUME Bad # {}
               PROVE  FALSE
    OBVIOUS
  <2>1. PICK k \in Bad : \A l \in Bad : k <= l
    <3>1. Bad \in SUBSET Nat
      OBVIOUS
    <3> HIDE DEF Bad
    <3> QED
      BY <3>1, Smallest
  <2>2. PICK n \in D : k = 2 * MARRAY_MAX - n /\ ~Good(n)
    OBVIOUS
  <2>3. CASE n < MARRAY_MAX /\ n <= want
    <3>1. 2 * n \in D /\ 2 * MARRAY_MAX - 2 * n \in Nat /\ 2 * MARRAY_MAX - 2 * n < k
      BY <1>1, <2>2, <2>3
    <3>2. 2 * MARRAY_MAX - 2 * n \notin Bad
      BY <2>1, <2>2, <3>1
    <3>3. Good(2 * n)
      BY <3>1, <3>2
    <3>4. g[n] = g[2 * n]
      BY <2>3 DEF Grown
    <3>5. n \in Size /\ g[n] < MARRAY_MAX => 2 * n \in Size
      BY <1>1, <3>3, <3>4, SizeIs
    <3>6. g[n] \in Nat /\ g[n] >= n /\ (g[n] > want \/ g[n] >= MARRAY_MAX)
      BY <3>3, <3>4
    <3>7. n \in Size /\ g[n] < MARRAY_MAX => g[n] \in Size
      BY <3>3, <3>4, <3>5
    <3> QED
      BY <2>2, <3>6, <3>7
  <2>4. CASE ~(n < MARRAY_MAX /\ n <= want)
    <3>1. g[n] = n
      BY <2>4 DEF Grown
    <3>2. n \in Nat /\ (n > want \/ n >= MARRAY_MAX)
      BY <1>1, <2>4
    <3>3. Good(n)
      BY <3>1, <3>2
    <3> QED
      BY <2>2, <3>3
  <2> QED
    BY <2>3, <2>4
<1>3. \A n \in D : Good(n)
  <2> TAKE n \in D
  <2>1. 2 * MARRAY_MAX - n \in Nat
    BY <1>1
  <2> QED
    BY <1>2, <2>1
<1>4. Size \subseteq D
  BY <1>1, SizeIs
<1>5. ASSUME NEW d \in Size, want < d
      PROVE  g[ALLOC_MIN] <= d
  <2> DEFINE E == 1..(MARRAY_MAX - 1)
             S == {s \in E : (s <= want /\ g[s] = g[ALLOC_MIN]) \/ s >= g[ALLOC_MIN]}
  <2>1. ALLOC_MIN \in D /\ g[ALLOC_MIN] \in Nat
    BY <1>1, <1>3
  <2>2. \A s \in E : s \in D /\ g[s] = IF s <= want THEN g[2 * s] ELSE s
    BY <1>1 DEF Grown
  <2>3. ALLOC_MIN < MARRAY_MAX => ALLOC_MIN \in S
    BY <1>1, <2>1, <2>2
  <2>4. ASSUME NEW s \in S, 2 * s < MARRAY_MAX
        PROVE  2 * s \in S
    <3>1. s \in E /\ 2 * s \in E /\ s \in Nat
      BY <1>1, <2>4
    <3>2. CASE s <= want /\ g[s] = g[ALLOC_MIN]
      <4>1. g[2 * s] = g[ALLOC_MIN]
        BY <2>2, <3>1, <3>2
      <4>2. ~(2 * s <= want) => g[2 * s] = 2 * s
        BY <2>2, <3>1
      <4> QED
        BY <2>1, <3>1, <4>1, <4>2
    <3>3. CASE s >= g[ALLOC_MIN]
      BY <2>1, <3>1, <3>3
    <3> QED
      BY <3>2, <3>3
  <2>5. d \in S
    <3>1. S \in SUBSET E
      OBVIOUS
    <3> HIDE DEF S
    <3> QED
      BY <2>3, <2>4, <3>1 DEF Size
  <2> QED
    BY <1>1, <1>5, <2>1, <2>5
<1> QED
  BY <1>3, <1>4, <1>5

LEMMA NextAllocIs ==
  ASSUME ObjectAssumption, NEW want \in Nat, NEW o, o.nalloc \in Size \cup {0}
  PROVE  /\ NextAlloc(o, want) \in Nat
         /\ NextAlloc(o, want) < MARRAY_MAX => NextAlloc(o, want) \in Size /\ want < NextAlloc(o, want)
         /\ o.nalloc = 0 => \A d \in Size : want < d => NextAlloc(o, want) <= d
<1> DEFINE g == CHOOSE g : g = [n \in 1..(2 * MARRAY_MAX) |->
                                  IF n < MARRAY_MAX /\ n <= want THEN g[2 * n] ELSE n]
           from == NoLess(o.nalloc, ALLOC_MIN)
<1>1. g = [n \in 1..(2 * MARRAY_MAX) |-> IF n < MARRAY_MAX /\ n <= want THEN g[2 * n] ELSE n]
  BY GrownExists
<1>2. NextAlloc(o, want) = g[from]
  BY DEF NextAlloc
<1> HIDE DEF g
<1>3. Grown(g, want)
  BY <1>1 DEF Grown
<1>4. MARRAY_MAX \in Nat /\ ALLOC_MIN \in Nat /\ ALLOC_MIN >= 1 /\ ALLOC_MIN <= MARRAY_MAX
  BY DEF ObjectAssumption
<1>5. from = IF o.nalloc = 0 THEN ALLOC_MIN ELSE o.nalloc
  <2>1. \A n \in Size : n \in Nat /\ n >= ALLOC_MIN
    BY <1>4, SizeIs
  <2>2. o.nalloc \in Nat /\ (o.nalloc # 0 => o.nalloc >= ALLOC_MIN)
    BY <2>1
  <2> QED
    BY ONLY <1>4, <2>2 DEF NoLess, from
<1>6. from \in 1..(2 * MARRAY_MAX) /\ (from \in Size \/ from = MARRAY_MAX)
  BY <1>4, <1>5, SizeIs
<1> HIDE DEF from
<1>7. g[from] \in Nat /\ g[from] >= from /\ (g[from] > want \/ g[from] >= MARRAY_MAX)
  BY <1>3, <1>6, GrownIs
<1>8. g[from] < MARRAY_MAX => g[from] \in Size
  BY <1>3, <1>4, <1>6, <1>7, GrownIs
<1>9. o.nalloc = 0 => \A d \in Size : want < d => g[from] <= d
  BY <1>3, <1>5, GrownIs
<1> QED
  BY <1>2, <1>4, <1>7, <1>8, <1>9

(* An array of more slots, or one that had enough. *)
LEMMA ResizeIs ==
  ASSUME ObjectAssumption, NEW o, o.type = "MARRAY", IsArray(o), NEW want \in Nat,
         CanResize(o, want)
  PROVE  LET r == marray_resize(o, want)
         IN  /\ IsArray(r) /\ r.type = "MARRAY" /\ r.nused = o.nused /\ want < r.nalloc
             /\ r.nalloc \in Size
             /\ \A k \in 1..o.nused : r.entries[k] = o.entries[k]
<1> DEFINE n == NextAlloc(o, want)
           e == [k \in 1..n |-> IF k <= o.nused THEN o.entries[k] ELSE Null]
<1>a. MARRAY_MAX \in Nat
  BY DEF ObjectAssumption
<1>0. MARRAY_MAX \in Nat /\ \A d \in Size : d \in Nat
  BY <1>a, SizeIs
<1>1. CASE Fits(o, want)
  <2>1. marray_resize(o, want) = o
    BY <1>1 DEF marray_resize
  <2>2. want < o.nalloc
    BY <1>1 DEF Fits
  <2>3. o.nalloc \in Size \cup {0}
    BY DEF IsArray
  <2>4. o.nalloc \in Size
    BY <2>2, <2>3
  <2> QED
    BY <2>1, <2>2, <2>4
<1>2. CASE ~Fits(o, want)
  <2>1. o.nalloc \in Size \cup {0} /\ o.nused \in Nat
        /\ o.entries \in [1..o.nalloc -> Slot] /\ (o.nused < o.nalloc \/ o.nused = 0)
        /\ o = [type |-> "MARRAY", entries |-> o.entries, nalloc |-> o.nalloc, nused |-> o.nused]
    BY DEF IsArray
  <2>2. n \in Size /\ want < n /\ n \in Nat
    BY <1>0, <1>2, <2>1, NextAllocIs DEF CanResize
  <2>a. o.nalloc \in Nat /\ o.nalloc <= want
    BY <1>0, <1>2, <2>1 DEF Fits
  <2>b. o.nused <= want
    BY <2>1, <2>a
  <2> HIDE DEF n
  <2>3. \A k \in 1..o.nused : o.entries[k] \in Id \cup {NONE} /\ o.entries[k] \in Slot
    BY DEF IsArray, Slot
  <2>4. e \in [1..n -> Slot]
    BY <2>1, <2>2, <2>3 DEF Slot
  <2>5. \A k \in 1..o.nused : e[k] = o.entries[k]
    BY <2>1, <2>2, <2>b
  <2> HIDE DEF e
  <2>6. marray_resize(o, want)
          = [type |-> "MARRAY", entries |-> e, nalloc |-> n, nused |-> o.nused]
    <3>1. marray_resize(o, want) = [o EXCEPT !.nalloc = n, !.entries = e]
      BY <1>2 DEF marray_resize, n, e
    <3> QED
      BY <2>1, <3>1
  <2>7. o.nused < n
    BY <2>1, <2>2, <2>b
  <2> DEFINE r == [type |-> "MARRAY", entries |-> e, nalloc |-> n, nused |-> o.nused]
  <2>8. r.type = "MARRAY" /\ r.entries = e /\ r.nalloc = n /\ r.nused = o.nused
    OBVIOUS
  <2> HIDE DEF r
  <2>9. IsArray(r)
    <3>1. r = [type |-> "MARRAY", entries |-> r.entries, nalloc |-> r.nalloc, nused |-> r.nused]
      BY <2>8 DEF r
    <3> QED
      BY <2>1, <2>2, <2>3, <2>4, <2>5, <2>7, <2>8, <3>1 DEF IsArray
  <2> QED
    BY <2>2, <2>5, <2>6, <2>8, <2>9 DEF r
<1> QED
  BY <1>1, <1>2

-----------------------------------------------------------------------------
(* What the calls make of an array. *)

(* The places of a container where an object is, None apart. *)
Used(o) == {k \in 1..Count(o) : Item(o, k) \in Id}
Typed(o) == \A k \in 1..Count(o) : Item(o, k) \in Id \cup {NONE}

LEMMA HeldIs ==
  ASSUME ObjectAssumption, NEW o, Typed(o)
  PROVE  /\ \A y : y \in Held(o) <=> \E k \in Used(o) : Item(o, k) = y
         /\ Once(o) <=> \A j, k \in Used(o) : Item(o, j) = Item(o, k) => j = k
<1>1. Held(o) = {Item(o, k) : k \in 1..Count(o)} \ {Null, NONE}
  BY DEF Held
<1>2. \A k \in 1..Count(o) : Item(o, k) \in Id <=> Item(o, k) \notin {Null, NONE}
  BY NoneIsNoId DEF Typed
<1>3. ASSUME NEW y
      PROVE  y \in Held(o) <=> \E k \in Used(o) : Item(o, k) = y
  <2>1. y \in Held(o) <=> \E k \in 1..Count(o) : Item(o, k) = y /\ y \notin {Null, NONE}
    BY <1>1
  <2> QED
    BY <1>2, <2>1 DEF Used
<1>4. Once(o) <=> \A j, k \in Used(o) : Item(o, j) = Item(o, k) => j = k
  BY DEF Once, Used
<1> QED
  BY <1>3, <1>4

(* d has at its place at one object more than c. *)
LEMMA OneMore ==
  ASSUME ObjectAssumption, NEW c, NEW d, Typed(c), Typed(d), NEW place \in Used(d),
         NEW m \in [Used(c) -> Used(d)],
         \A j \in Used(c) : m[j] # place /\ Item(d, m[j]) = Item(c, j),
         \A i, j \in Used(c) : m[i] = m[j] => i = j,
         \A k \in Used(d) : k = place \/ \E j \in Used(c) : k = m[j]
  PROVE  /\ Held(d) = Held(c) \cup {Item(d, place)}
         /\ Once(c) /\ Item(d, place) \notin Held(c) => Once(d)
         /\ Once(d) => Once(c) /\ Item(d, place) \notin Held(c) /\ Held(c) = Held(d) \ {Item(d, place)}
<1>1. /\ \A y : y \in Held(c) <=> \E k \in Used(c) : Item(c, k) = y
      /\ Once(c) <=> \A j, k \in Used(c) : Item(c, j) = Item(c, k) => j = k
  BY HeldIs
<1>2. /\ \A y : y \in Held(d) <=> \E k \in Used(d) : Item(d, k) = y
      /\ Once(d) <=> \A j, k \in Used(d) : Item(d, j) = Item(d, k) => j = k
  BY HeldIs
<1>3. Held(d) = Held(c) \cup {Item(d, place)}
  <2>1. \A y \in Held(d) : y \in Held(c) \cup {Item(d, place)}
    BY <1>1, <1>2
  <2>2. \A y \in Held(c) : y \in Held(d)
    BY <1>1, <1>2
  <2>3. Item(d, place) \in Held(d)
    BY <1>2
  <2> QED
    BY <2>1, <2>2, <2>3
<1>4. ASSUME Once(c), Item(d, place) \notin Held(c)
      PROVE  Once(d)
  <2>1. ASSUME NEW j \in Used(d), NEW k \in Used(d), Item(d, j) = Item(d, k)
        PROVE  j = k
    <3>1. CASE j = place /\ k # place
      BY <1>1, <1>4, <2>1, <3>1
    <3>2. CASE j # place /\ k = place
      BY <1>1, <1>4, <2>1, <3>2
    <3>3. CASE j # place /\ k # place
      BY <1>1, <1>4, <2>1, <3>3
    <3> QED
      BY <3>1, <3>2, <3>3
  <2> QED
    BY <1>2, <2>1
<1>5. ASSUME Once(d)
      PROVE  Once(c) /\ Item(d, place) \notin Held(c)
  <2>1. Once(c)
    BY <1>1, <1>2, <1>5
  <2>2. Item(d, place) \notin Held(c)
    BY <1>1, <1>2, <1>5
  <2> QED
    BY <2>1, <2>2
<1> QED
  BY <1>3, <1>4, <1>5

(* The same objects at the same places. *)
LEMMA OneMoreThere ==
  ASSUME ObjectAssumption, NEW c, NEW d, Typed(c), Typed(d), NEW place \in Used(d),
         place \notin Used(c), Used(d) = Used(c) \cup {place},
         \A j \in Used(c) : Item(d, j) = Item(c, j)
  PROVE  /\ Held(d) = Held(c) \cup {Item(d, place)}
         /\ Once(c) /\ Item(d, place) \notin Held(c) => Once(d)
         /\ Once(d) => Once(c) /\ Item(d, place) \notin Held(c) /\ Held(c) = Held(d) \ {Item(d, place)}
<1> DEFINE m == [j \in Used(c) |-> j]
<1>1. m \in [Used(c) -> Used(d)] /\ \A j \in Used(c) : m[j] = j
  OBVIOUS
<1> HIDE DEF m
<1> QED
  BY <1>1, OneMore

LEMMA SameHeld ==
  ASSUME ObjectAssumption, NEW c, NEW d, Typed(c), Typed(d), Used(d) = Used(c),
         \A j \in Used(c) : Item(d, j) = Item(c, j)
  PROVE  Held(d) = Held(c) /\ (Once(d) <=> Once(c))
<1>1. /\ \A y : y \in Held(c) <=> \E k \in Used(c) : Item(c, k) = y
      /\ Once(c) <=> \A j, k \in Used(c) : Item(c, j) = Item(c, k) => j = k
  BY HeldIs
<1>2. /\ \A y : y \in Held(d) <=> \E k \in Used(d) : Item(d, k) = y
      /\ Once(d) <=> \A j, k \in Used(d) : Item(d, j) = Item(d, k) => j = k
  BY HeldIs
<1>3. Held(d) = Held(c)
  BY <1>1, <1>2
<1> QED
  BY <1>1, <1>2, <1>3

LEMMA ArrayItems ==
  ASSUME NEW o, o.type = "MARRAY", IsArray(o)
  PROVE  /\ Count(o) = o.nused /\ (\A k : Item(o, k) = o.entries[k])
         /\ Used(o) = {k \in 1..o.nused : o.entries[k] \in Id} /\ Typed(o)
<1>1. Count(o) = o.nused
  BY DEF Count
<1>2. \A k : Item(o, k) = o.entries[k]
  BY DEF Item
<1>3. \A k \in 1..o.nused : o.entries[k] \in Id \cup {NONE}
  BY DEF IsArray
<1> QED
  BY <1>1, <1>2, <1>3 DEF Typed, Used

Changed(r, e, u) == [r EXCEPT !.entries = e, !.nused = u]

ArrayOf(o, e, u) == IsArray(o) /\ o.type = "MARRAY" /\ o.entries = e /\ o.nused = u

LEMMA ArrayChanged ==
  ASSUME ObjectAssumption, NEW r, IsArray(r), NEW e, NEW u \in Nat, u < r.nalloc \/ u = 0,
         e \in [1..r.nalloc -> Slot], \A k \in 1..u : e[k] \in Id \cup {NONE},
         NEW o, o = Changed(r, e, u)
  PROVE  ArrayOf(o, e, u)
<1>1. /\ r = [type |-> "MARRAY", entries |-> r.entries, nalloc |-> r.nalloc, nused |-> r.nused]
      /\ r.nalloc \in Size \cup {0}
  BY DEF IsArray
<1>2. PICK s, n, v : s = r.entries /\ n = r.nalloc /\ v = r.nused
  OBVIOUS
<1>3. r = [type |-> "MARRAY", entries |-> s, nalloc |-> n, nused |-> v]
  BY ONLY <1>1, <1>2
<1>4. o = [type |-> "MARRAY", entries |-> e, nalloc |-> n, nused |-> u]
  BY ONLY <1>3, o = Changed(r, e, u) DEF Changed
<1>5. o.type = "MARRAY" /\ o.entries = e /\ o.nalloc = n /\ o.nused = u
  BY ONLY <1>4
<1>6. o = [type |-> "MARRAY", entries |-> o.entries, nalloc |-> o.nalloc, nused |-> o.nused]
  BY ONLY <1>4, <1>5
<1> QED
  BY <1>1, <1>2, <1>5, <1>6 DEF IsArray, ArrayOf

LEMMA ArrayParts ==
  ASSUME ObjectAssumption, NEW o, IsArray(o)
  PROVE  /\ o.nalloc \in Nat /\ o.nused \in Nat /\ (o.nused < o.nalloc \/ o.nused = 0) 
         /\ o.entries \in [1..o.nalloc -> Slot] /\ o.nalloc \in Size \cup {0}
         /\ o = [type |-> "MARRAY", entries |-> o.entries, nalloc |-> o.nalloc, nused |-> o.nused]
         /\ \A k \in 1..o.nused : o.entries[k] \in Id \cup {NONE}
<1>a. MARRAY_MAX \in Nat
  BY DEF ObjectAssumption
<1>1. \A n \in Size : n \in Nat
  BY <1>a, SizeIs
<1> QED
  BY <1>1 DEF IsArray

LEMMA AppendedIs ==
  ASSUME ObjectAssumption, NEW o, o.type = "MARRAY", IsArray(o), NEW x \in Id,
         CanResize(o, o.nused + 1), NEW o2, o2 = appended(o, x)
  PROVE  /\ IsArray(o2) /\ o2.type = "MARRAY" /\ Held(o2) = Held(o) \cup {x}
         /\ Once(o) /\ x \notin Held(o) => Once(o2)
<1> DEFINE r == marray_resize(o, o.nused + 1)
           e == [r.entries EXCEPT ![o.nused + 1] = x]
<1>1. o.nused \in Nat /\ o.nused + 1 \in Nat
  BY ArrayParts
<1>2. /\ IsArray(r) /\ r.type = "MARRAY" /\ r.nused = o.nused /\ o.nused + 1 < r.nalloc
      /\ \A k \in 1..o.nused : r.entries[k] = o.entries[k]
  BY <1>1, ResizeIs
<1>3. o2 = Changed(r, e, o.nused + 1)
  BY <1>2 DEF appended, Changed
<1> HIDE DEF r, e
<1>4. /\ r.nalloc \in Nat /\ r.entries \in [1..r.nalloc -> Slot]
      /\ \A k \in 1..o.nused : r.entries[k] \in Id \cup {NONE}
  BY <1>2, ArrayParts
<1>6. o.nused + 1 \in 1..r.nalloc /\ x \in Slot
  BY <1>1, <1>2, <1>4 DEF Slot
<1>7. e \in [1..r.nalloc -> Slot] /\ e[o.nused + 1] = x
  BY <1>4, <1>6 DEF e
<1>8. \A k \in 1..o.nused : e[k] = o.entries[k]
  BY <1>1, <1>2, <1>4, <1>6 DEF e
<1>9. \A k \in 1..(o.nused + 1) : k \in 1..o.nused \/ k = o.nused + 1
  BY <1>1
<1>10. \A k \in 1..(o.nused + 1) : e[k] \in Id \cup {NONE}
  BY <1>2, <1>4, <1>7, <1>8, <1>9
<1>11. ArrayOf(o2, e, o.nused + 1)
  <2>1. o.nused + 1 < r.nalloc \/ o.nused + 1 = 0
    BY <1>2
  <2>2. IsArray(r) /\ o.nused + 1 \in Nat
    BY <1>1, <1>2
  <2>3. e \in [1..r.nalloc -> Slot]
    BY <1>7
  <2> QED
    BY ONLY ObjectAssumption, <2>1, <2>2, <2>3, <1>3, <1>10, ArrayChanged, Zenon
<1>12. 1..o.nused \subseteq 1..(o.nused + 1) /\ o.nused + 1 \in 1..(o.nused + 1)
         /\ o.nused + 1 \notin 1..o.nused
  BY <1>1
<1>13. /\ Used(o) = {k \in 1..o.nused : o.entries[k] \in Id} /\ Typed(o)
       /\ Used(o2) = {k \in 1..(o.nused + 1) : e[k] \in Id} /\ Typed(o2)
       /\ \A k : Item(o, k) = o.entries[k] /\ Item(o2, k) = e[k]
  BY <1>11, ArrayItems DEF ArrayOf
<1>14. Used(o2) = Used(o) \cup {o.nused + 1} /\ o.nused + 1 \notin Used(o)
  <2>1. \A k \in Used(o2) : k \in Used(o) \cup {o.nused + 1}
    BY <1>8, <1>9, <1>13
  <2>2. \A k \in Used(o) : k \in Used(o2)
    BY <1>8, <1>12, <1>13
  <2>3. o.nused + 1 \in Used(o2) /\ o.nused + 1 \notin Used(o)
    BY <1>7, <1>12, <1>13
  <2> QED
    BY <2>1, <2>2, <2>3
<1>15. \A k \in Used(o) : Item(o2, k) = Item(o, k)
  BY <1>8, <1>13
<1>16. /\ Held(o2) = Held(o) \cup {Item(o2, o.nused + 1)}
       /\ Once(o) /\ Item(o2, o.nused + 1) \notin Held(o) => Once(o2)
  BY <1>13, <1>14, <1>15, OneMoreThere
<1> QED
  BY <1>7, <1>11, <1>13, <1>16 DEF ArrayOf

LEMMA PrependedIs ==
  ASSUME ObjectAssumption, NEW o, o.type = "MARRAY", IsArray(o), NEW x \in Id,
         CanResize(o, o.nused + 1), NEW o2, o2 = prepended(o, x)
  PROVE  /\ IsArray(o2) /\ o2.type = "MARRAY" /\ Held(o2) = Held(o) \cup {x}
         /\ Once(o) /\ x \notin Held(o) => Once(o2)
<1> DEFINE r == marray_resize(o, o.nused + 1)
           e == [k \in 1..r.nalloc |-> IF k = 1 THEN x
                                       ELSE IF k <= o.nused + 1 THEN r.entries[k - 1] ELSE r.entries[k]]
<1>1. o.nused \in Nat /\ o.nused + 1 \in Nat
  BY ArrayParts
<1>2. /\ IsArray(r) /\ r.type = "MARRAY" /\ r.nused = o.nused /\ o.nused + 1 < r.nalloc
      /\ \A k \in 1..o.nused : r.entries[k] = o.entries[k]
  BY <1>1, ResizeIs
<1>3. o2 = Changed(r, e, o.nused + 1)
  <2>1. o2 = [r EXCEPT !.nused = r.nused + 1,
                       !.entries = [k \in 1..r.nalloc |->
                                      IF k = 1 THEN x
                                      ELSE IF k <= r.nused + 1 THEN r.entries[k - 1] ELSE r.entries[k]]]
    BY DEF prepended
  <2>2. o2 = [r EXCEPT !.nused = o.nused + 1, !.entries = e]
    BY <1>2, <2>1
  <2>3. \A a, b, c : [a EXCEPT !.nused = b, !.entries = c] = [a EXCEPT !.entries = c, !.nused = b]
    OBVIOUS
  <2> HIDE DEF r, e
  <2> QED
    BY <2>2, <2>3 DEF Changed
<1> HIDE DEF r, e
<1>4. /\ r.nalloc \in Nat /\ r.entries \in [1..r.nalloc -> Slot]
      /\ \A k \in 1..o.nused : r.entries[k] \in Id \cup {NONE}
  BY <1>2, ArrayParts
<1>5. \A k \in 1..r.nalloc : e[k] = IF k = 1 THEN x ELSE IF k <= o.nused + 1 THEN r.entries[k - 1]
                                    ELSE r.entries[k]
  BY DEF e
<1>6. 1 \in 1..r.nalloc /\ x \in Slot /\ \A k \in 1..r.nalloc : k # 1 => k - 1 \in 1..r.nalloc
  BY <1>1, <1>2, <1>4 DEF Slot
<1>7. e \in [1..r.nalloc -> Slot]
  <2>1. \A k \in 1..r.nalloc : r.entries[k] \in Slot
    BY <1>4
  <2>2. \A k \in 1..r.nalloc : (IF k = 1 THEN x ELSE IF k <= o.nused + 1 THEN r.entries[k - 1]
                                    ELSE r.entries[k]) \in Slot
    BY <1>6, <2>1
  <2> QED
    BY <2>2 DEF e
<1>8. e[1] = x /\ \A k \in 1..o.nused : e[k + 1] = o.entries[k]
  BY <1>1, <1>2, <1>4, <1>5, <1>6, SMTT(30)
<1>9. \A k \in 1..(o.nused + 1) : k = 1 \/ (k - 1 \in 1..o.nused /\ k = (k - 1) + 1)
  BY <1>1
<1>10. \A k \in 1..(o.nused + 1) : e[k] \in Id \cup {NONE}
  BY <1>2, <1>4, <1>8, <1>9
<1>11. ArrayOf(o2, e, o.nused + 1)
  <2>1. o.nused + 1 < r.nalloc \/ o.nused + 1 = 0
    BY <1>2
  <2>2. IsArray(r) /\ o.nused + 1 \in Nat
    BY <1>1, <1>2
  <2>3. e \in [1..r.nalloc -> Slot]
    BY <1>7
  <2> QED
    BY ONLY ObjectAssumption, <2>1, <2>2, <2>3, <1>3, <1>10, ArrayChanged, Zenon
<1>12. 1 \in 1..(o.nused + 1) /\ \A k \in 1..o.nused : k + 1 \in 1..(o.nused + 1) /\ k + 1 # 1
  BY <1>1
<1>13. /\ Used(o) = {k \in 1..o.nused : o.entries[k] \in Id} /\ Typed(o)
       /\ Used(o2) = {k \in 1..(o.nused + 1) : e[k] \in Id} /\ Typed(o2)
       /\ \A k : Item(o, k) = o.entries[k] /\ Item(o2, k) = e[k]
  BY <1>11, ArrayItems DEF ArrayOf
<1> DEFINE m == [k \in Used(o) |-> k + 1]
<1>14. /\ 1 \in Used(o2) /\ m \in [Used(o) -> Used(o2)]
       /\ \A j \in Used(o) : m[j] = j + 1 /\ j \in 1..o.nused
  <2>1. 1 \in Used(o2) /\ \A j \in Used(o) : j + 1 \in Used(o2)
    BY <1>8, <1>12, <1>13
  <2>2. m \in [Used(o) -> Used(o2)] /\ \A j \in Used(o) : m[j] = j + 1
    BY <2>1
  <2>3. \A j \in Used(o) : j \in 1..o.nused
    BY <1>13
  <2> QED
    BY <2>1, <2>2, <2>3
<1> HIDE DEF m
<1>15. \A j \in Used(o) : m[j] # 1 /\ Item(o2, m[j]) = Item(o, j)
  BY <1>8, <1>12, <1>13, <1>14
<1>16. \A i, j \in Used(o) : m[i] = m[j] => i = j
  BY <1>14
<1>17. \A k \in Used(o2) : k = 1 \/ \E j \in Used(o) : k = m[j]
  <2> SUFFICES ASSUME NEW k \in Used(o2), k # 1
               PROVE  k - 1 \in Used(o) /\ k = m[k - 1]
    OBVIOUS
  <2>1. k \in 1..(o.nused + 1) /\ e[k] \in Id
    BY <1>13
  <2>2. k - 1 \in 1..o.nused /\ k = (k - 1) + 1
    BY <1>9, <2>1
  <2>3. o.entries[k - 1] = e[k]
    BY <1>8, <2>2
  <2>4. k - 1 \in Used(o)
    BY <1>13, <2>1, <2>2, <2>3
  <2> QED
    BY <1>14, <2>2, <2>4
<1>18. /\ Held(o2) = Held(o) \cup {Item(o2, 1)}
       /\ Once(o) /\ Item(o2, 1) \notin Held(o) => Once(o2)
  BY <1>13, <1>14, <1>15, <1>16, <1>17, OneMore
<1> QED
  BY <1>8, <1>11, <1>13, <1>18 DEF ArrayOf

LEMMA FilledIs ==
  ASSUME ObjectAssumption, NEW o, o.type = "MARRAY", IsArray(o), NEW ndx \in Nat,
         CanResize(o, ndx + 1), NEW r, r = filled(o, ndx)
  PROVE  /\ IsArray(r) /\ r.type = "MARRAY" /\ r.nused = o.nused /\ ndx + 1 < r.nalloc
         /\ r.nalloc \in Nat /\ r.entries \in [1..r.nalloc -> Slot] 
         /\ \A k \in 1..o.nused : r.entries[k] = o.entries[k]
         /\ \A k \in 1..ndx : k > o.nused => r.entries[k] = NONE
<1> DEFINE q == marray_resize(o, ndx + 1)
           e == [k \in 1..q.nalloc |-> IF k > o.nused /\ k <= ndx THEN NONE ELSE q.entries[k]]
<1>1. o.nused \in Nat /\ ndx + 1 \in Nat
  BY ArrayParts
<1>2. /\ IsArray(q) /\ q.type = "MARRAY" /\ q.nused = o.nused /\ ndx + 1 < q.nalloc
      /\ \A k \in 1..o.nused : q.entries[k] = o.entries[k]
  BY <1>1, ResizeIs
<1>3. r = [q EXCEPT !.entries = e]
  BY <1>2 DEF filled
<1> HIDE DEF q, e
<1>4. /\ q.nalloc \in Nat /\ q.entries \in [1..q.nalloc -> Slot] /\ (q.nused < q.nalloc \/ q.nused = 0)
      /\ \A k \in 1..o.nused : q.entries[k] \in Id \cup {NONE}
      /\ q = [type |-> "MARRAY", entries |-> q.entries, nalloc |-> q.nalloc, nused |-> q.nused]
      /\ q.nalloc \in Size \cup {0}
  BY <1>2, ArrayParts
<1>5. \A k \in 1..q.nalloc : e[k] = IF k > o.nused /\ k <= ndx THEN NONE ELSE q.entries[k]
  BY DEF e
<1>6. e \in [1..q.nalloc -> Slot]
  BY <1>4 DEF e, Slot
<1>7. \A k \in 1..o.nused : e[k] = o.entries[k]
  BY <1>1, <1>2, <1>4, <1>5
<1>8. \A k \in 1..ndx : k > o.nused => e[k] = NONE
  BY <1>1, <1>2, <1>4, <1>5
<1>9. \A k \in 1..o.nused : e[k] \in Id \cup {NONE}
  BY <1>2, <1>4, <1>7
<1>10. r = Changed(q, e, o.nused)
  <2>1. PICK s, n, v : s = q.entries /\ n = q.nalloc /\ v = q.nused
    OBVIOUS
  <2>2. q = [type |-> "MARRAY", entries |-> s, nalloc |-> n, nused |-> v] /\ v = o.nused
    BY ONLY <1>2, <1>4, <2>1
  <2>3. r = [type |-> "MARRAY", entries |-> e, nalloc |-> n, nused |-> v]
    BY ONLY <1>3, <2>2
  <2>4. PICK z : z = Changed(q, e, o.nused)
    OBVIOUS
  <2>5. z = [type |-> "MARRAY", entries |-> e, nalloc |-> n, nused |-> o.nused]
    BY ONLY <2>2, <2>4 DEF Changed
  <2> QED
    BY ONLY <2>2, <2>3, <2>4, <2>5
<1>11. ArrayOf(r, e, o.nused)
  <2>1. o.nused < q.nalloc \/ o.nused = 0
    BY <1>2, <1>4
  <2>2. IsArray(q)
    BY <1>2
  <2> QED
    BY ONLY ObjectAssumption, <1>1, <1>6, <1>9, <1>10, <2>1, <2>2, ArrayChanged
<1>12. r.nalloc = q.nalloc
  <2>1. PICK s, n, v : s = q.entries /\ n = q.nalloc /\ v = q.nused
    OBVIOUS
  <2>2. q = [type |-> "MARRAY", entries |-> s, nalloc |-> n, nused |-> v] /\ v = o.nused
    BY ONLY <1>2, <1>4, <2>1
  <2> QED
    BY ONLY <1>3, <2>1, <2>2
<1> QED
  BY <1>2, <1>4, <1>6, <1>7, <1>8, <1>11, <1>12 DEF ArrayOf

LEMMA StoredIs ==
  ASSUME ObjectAssumption, NEW o, o.type = "MARRAY", IsArray(o), NEW ndx \in Nat,
         CanResize(o, ndx + 1), NEW r, r = filled(o, ndx), NEW x \in Id \cup {NONE}, 
         NEW o2, o2 = stored(r, ndx, x)
  PROVE  /\ IsArray(o2) /\ o2.type = "MARRAY" 
         /\ Used(o2) \ {ndx + 1} = Used(o) \ {ndx + 1}
         /\ \A k \in Used(o2) \ {ndx + 1} : Item(o2, k) = Item(o, k)
         /\ Item(o2, ndx + 1) = x
         /\ ndx + 1 \in Used(o2) <=> x \in Id
<1> DEFINE e == [r.entries EXCEPT ![ndx + 1] = x]
           u == NoLess(o.nused, ndx + 1)
<1>1. o.nused \in Nat /\ ndx + 1 \in Nat
  BY ArrayParts
<1>2. /\ IsArray(r) /\ r.type = "MARRAY" /\ r.nused = o.nused /\ ndx + 1 < r.nalloc
      /\ r.nalloc \in Nat /\ r.entries \in [1..r.nalloc -> Slot]
      /\ \A k \in 1..o.nused : r.entries[k] = o.entries[k]
      /\ \A k \in 1..ndx : k > o.nused => r.entries[k] = NONE
  BY FilledIs
<1>3. o2 = Changed(r, e, u)
  BY <1>2 DEF stored, Changed
<1>4. /\ u \in Nat /\ o.nused <= u /\ ndx + 1 <= u /\ (u = o.nused \/ u = ndx + 1)
  BY <1>1 DEF NoLess
<1>5. u < r.nalloc
  BY <1>2, <1>4, ArrayParts
<1> HIDE DEF u, e
<1>6. ndx + 1 \in 1..r.nalloc /\ x \in Slot
  BY <1>1, <1>2 DEF Slot
<1>7. e \in [1..r.nalloc -> Slot] /\ e[ndx + 1] = x
  BY <1>2, <1>6 DEF e
<1>8. \A k \in 1..o.nused : k # ndx + 1 => e[k] = o.entries[k]
  <2> TAKE k \in 1..o.nused
  <2>1. k \in 1..r.nalloc
    BY <1>1, <1>2, <1>4, <1>5
  <2> QED
    BY <1>2, <2>1 DEF e
<1>9. \A k \in 1..u : k \notin 1..o.nused /\ k # ndx + 1 => e[k] = NONE
  <2> TAKE k \in 1..u
  <2>1. k \in 1..r.nalloc /\ (k \notin 1..o.nused /\ k # ndx + 1 => k \in 1..ndx /\ k > o.nused)
    BY <1>1, <1>2, <1>4, <1>5
  <2> QED
    BY <1>2, <2>1 DEF e
<1>10. \A k \in 1..u : e[k] \in Id \cup {NONE}
  <2>1. \A k \in 1..o.nused : o.entries[k] \in Id \cup {NONE}
    BY ArrayParts
  <2> QED
    BY <1>7, <1>8, <1>9, <2>1
<1>11. ArrayOf(o2, e, u)
  <2>1. u < r.nalloc \/ u = 0
    BY <1>5
  <2>2. IsArray(r) /\ u \in Nat
    BY <1>2, <1>4
  <2>3. e \in [1..r.nalloc -> Slot]
    BY <1>7
  <2> QED
    BY ONLY ObjectAssumption, <1>3, <1>10, <2>1, <2>2, <2>3, ArrayChanged
<1>12. /\ Used(o) = {k \in 1..o.nused : o.entries[k] \in Id} /\ Typed(o)
       /\ Used(o2) = {k \in 1..u : e[k] \in Id} /\ Typed(o2)
       /\ \A k : Item(o, k) = o.entries[k] /\ Item(o2, k) = e[k]
  BY <1>11, ArrayItems DEF ArrayOf
<1>13. 1..o.nused \subseteq 1..u /\ ndx + 1 \in 1..u
  BY <1>1, <1>4
<1>14. ASSUME NEW k \in Used(o2), k # ndx + 1
       PROVE  k \in Used(o) /\ Item(o2, k) = Item(o, k)
  BY <1>8, <1>9, <1>12, <1>14, NoneIsNoId
<1>15. ASSUME NEW k \in Used(o), k # ndx + 1
       PROVE  k \in Used(o2)
  BY <1>8, <1>12, <1>13, <1>15
<1>16. Used(o2) \ {ndx + 1} = Used(o) \ {ndx + 1}
  BY <1>14, <1>15
<1>17. ndx + 1 \in Used(o2) <=> x \in Id
  BY <1>7, <1>12, <1>13
<1>18. IsArray(o2) /\ o2.type = "MARRAY" /\ Item(o2, ndx + 1) = x
  BY <1>7, <1>11, <1>12 DEF ArrayOf
<1> QED
  BY <1>14, <1>16, <1>17, <1>18

(* What marray_set() does: a slot is emptied, its object freed, and the    *)
(* new one put there.                                                      *)
LEMMA SetIs ==
  ASSUME ObjectAssumption, NEW o, o.type = "MARRAY", IsArray(o), NEW ndx \in Nat,
         CanResize(o, ndx + 1), NEW r, r = filled(o, ndx), NEW x \in Id,
         NEW c, c = stored(r, ndx, NONE), NEW d, d = stored(r, ndx, x)
  PROVE  /\ IsArray(c) /\ c.type = "MARRAY" /\ IsArray(d) /\ d.type = "MARRAY"
         /\ Held(d) = Held(c) \cup {x} /\ (Once(c) /\ x \notin Held(c) => Once(d))
         /\ ndx < r.nused /\ r.entries[ndx + 1] \in Id /\ Once(o) =>
              /\ r.entries[ndx + 1] \in Held(o) /\ Held(c) = Held(o) \ {r.entries[ndx + 1]} /\ Once(c)
         /\ ~(ndx < r.nused /\ r.entries[ndx + 1] \in Id) =>
              Held(c) = Held(o) /\ (Once(o) => Once(c))
<1> DEFINE place == ndx + 1
<1>1. NONE \notin Id /\ NONE \in Id \cup {NONE} /\ x \in Id \cup {NONE}
  BY NoneIsNoId
<1>2. /\ IsArray(c) /\ c.type = "MARRAY"
      /\ Used(c) \ {place} = Used(o) \ {place} /\ place \notin Used(c)
      /\ \A k \in Used(c) \ {place} : Item(c, k) = Item(o, k)
  BY <1>1, StoredIs
<1>3. /\ IsArray(d) /\ d.type = "MARRAY"
      /\ Used(d) \ {place} = Used(o) \ {place} /\ place \in Used(d) /\ Item(d, place) = x
      /\ \A k \in Used(d) \ {place} : Item(d, k) = Item(o, k)
  BY <1>1, StoredIs
<1>4. /\ r.nused = o.nused /\ o.nused \in Nat /\ \A k \in 1..o.nused : r.entries[k] = o.entries[k]
  BY FilledIs, ArrayParts
<1>5. /\ Typed(o) /\ Typed(c) /\ Typed(d) /\ \A k : Item(o, k) = o.entries[k]
      /\ Used(o) = {k \in 1..o.nused : o.entries[k] \in Id}
  BY <1>2, <1>3, ArrayItems
<1>6. ndx < r.nused /\ r.entries[place] \in Id <=> place \in Used(o)
  <2>1. ndx < r.nused <=> place \in 1..o.nused
    BY <1>4
  <2> QED
    BY <1>4, <1>5, <2>1
<1>7. place \in Used(o) => Item(o, place) = r.entries[place]
  BY <1>4, <1>5
<1> HIDE DEF place
<1>8. Held(d) = Held(c) \cup {x} /\ (Once(c) /\ x \notin Held(c) => Once(d))
  <2>1. Used(d) = Used(c) \cup {place} /\ \A k \in Used(c) : Item(d, k) = Item(c, k)
    BY <1>2, <1>3
  <2> QED
    BY <1>2, <1>3, <1>5, <2>1, OneMoreThere
<1>9. place \in Used(o) /\ Once(o) =>
        r.entries[place] \in Held(o) /\ Held(c) = Held(o) \ {r.entries[place]} /\ Once(c)
  <2> SUFFICES ASSUME place \in Used(o), Once(o)
               PROVE  r.entries[place] \in Held(o) /\ Held(c) = Held(o) \ {r.entries[place]} /\ Once(c)
    OBVIOUS
  <2>1. Used(o) = Used(c) \cup {place} /\ \A k \in Used(c) : Item(o, k) = Item(c, k)
    BY <1>2
  <2>2. Held(o) = Held(c) \cup {Item(o, place)} /\ Once(c) /\ Held(c) = Held(o) \ {Item(o, place)}
    BY <1>2, <1>5, <2>1, OneMoreThere
  <2> QED
    BY <1>7, <2>2
<1>10. place \notin Used(o) => Held(c) = Held(o) /\ (Once(o) => Once(c))
  <2> SUFFICES ASSUME place \notin Used(o)
               PROVE  Held(c) = Held(o) /\ (Once(o) => Once(c))
    OBVIOUS
  <2>1. Used(c) = Used(o) /\ \A k \in Used(o) : Item(c, k) = Item(o, k)
    BY <1>2
  <2> QED
    BY <1>5, <2>1, SameHeld
<1> QED
  BY <1>2, <1>3, <1>6, <1>8, <1>9, <1>10 DEF place

LEMMA PoppedIs ==
  ASSUME ObjectAssumption, NEW o, o.type = "MARRAY", IsArray(o), o.nused > 0,
         NEW t, t = o.entries[o.nused], NEW o2, o2 = popped(o)
  PROVE  /\ IsArray(o2) /\ o2.type = "MARRAY" /\ t \in Id \cup {NONE}
         /\ t \in Id /\ Once(o) => t \in Held(o) /\ Held(o2) = Held(o) \ {t} /\ Once(o2)
         /\ t \notin Id => Held(o2) = Held(o) /\ (Once(o) => Once(o2))
<1> DEFINE e == [o.entries EXCEPT ![o.nused] = Null]
           u == o.nused - 1
<1>1. /\ o.nused \in Nat /\ o.nused < o.nalloc /\ o.nalloc \in Nat
      /\ o.entries \in [1..o.nalloc -> Slot]
      /\ \A k \in 1..o.nused : o.entries[k] \in Id \cup {NONE}
  BY ArrayParts
<1>2. o2 = Changed(o, e, u)
  BY DEF popped, Changed
<1>3. u \in Nat /\ (u < o.nalloc \/ u = 0) /\ o.nused \in 1..o.nused /\ o.nused \in 1..o.nalloc
      /\ \A k \in 1..o.nused : k \in 1..u <=> k # o.nused
  BY <1>1
<1>a. \A k \in 1..u : k \in 1..o.nused /\ k \in 1..o.nalloc /\ k # o.nused
  BY <1>1
<1> HIDE DEF u
<1>4. e \in [1..o.nalloc -> Slot]
  BY <1>1 DEF Slot
<1>5. \A k \in 1..u : e[k] = o.entries[k]
  BY <1>1, <1>a
<1> HIDE DEF e
<1>6. \A k \in 1..u : e[k] \in Id \cup {NONE}
  BY <1>1, <1>a, <1>5
<1>7. ArrayOf(o2, e, u)
  <2>1. u < o.nalloc \/ u = 0
    BY <1>3
  <2>2. IsArray(o) /\ u \in Nat
    BY <1>3
  <2> QED
    BY ONLY ObjectAssumption, <1>2, <1>4, <1>6, <2>1, <2>2, ArrayChanged
<1>8. /\ Used(o) = {k \in 1..o.nused : o.entries[k] \in Id} /\ Typed(o)
      /\ Used(o2) = {k \in 1..u : e[k] \in Id} /\ Typed(o2)
      /\ \A k : Item(o, k) = o.entries[k] /\ Item(o2, k) = e[k]
  BY <1>7, ArrayItems DEF ArrayOf
<1>9. \A k \in Used(o2) : k \in Used(o) /\ k # o.nused /\ Item(o2, k) = Item(o, k)
  BY <1>5, <1>8, <1>a
<1>10. \A k \in Used(o) : k # o.nused => k \in Used(o2)
  BY <1>3, <1>5, <1>8
<1>11. t \in Id <=> o.nused \in Used(o)
  BY <1>3, <1>8
<1>12. ASSUME t \in Id, Once(o)
       PROVE  t \in Held(o) /\ Held(o2) = Held(o) \ {t} /\ Once(o2)
  <2>1. Used(o) = Used(o2) \cup {o.nused} /\ o.nused \in Used(o) /\ o.nused \notin Used(o2)
    BY <1>9, <1>10, <1>11, <1>12
  <2>2. \A k \in Used(o2) : Item(o, k) = Item(o2, k)
    BY <1>9
  <2> QED
    BY <1>8, <1>12, <2>1, <2>2, OneMoreThere
<1>13. ASSUME t \notin Id
       PROVE  Held(o2) = Held(o) /\ (Once(o) => Once(o2))
  <2>1. Used(o2) = Used(o)
    BY <1>9, <1>10, <1>11, <1>13
  <2> QED
    BY <1>8, <1>9, <2>1, SameHeld
<1>14. t \in Id \cup {NONE}
  BY <1>1, <1>3
<1> QED
  BY <1>7, <1>12, <1>13, <1>14 DEF ArrayOf

LEMMA PulledIs ==
  ASSUME ObjectAssumption, NEW o, o.type = "MARRAY", IsArray(o), o.nused > 0,
         NEW t, t = o.entries[1], NEW o2, o2 = pulled(o)
  PROVE  /\ IsArray(o2) /\ o2.type = "MARRAY" /\ t \in Id \cup {NONE}
         /\ t \in Id /\ Once(o) => t \in Held(o) /\ Held(o2) = Held(o) \ {t} /\ Once(o2)
         /\ t \notin Id => Held(o2) = Held(o) /\ (Once(o) => Once(o2))
<1> DEFINE e == [k \in 1..o.nalloc |-> IF o.nused = 1 /\ k = 1 THEN Null
                                       ELSE IF k < o.nused THEN o.entries[k + 1] ELSE o.entries[k]]
           u == o.nused - 1
<1>1. /\ o.nused \in Nat /\ o.nused < o.nalloc /\ o.nalloc \in Nat
      /\ o.entries \in [1..o.nalloc -> Slot]
      /\ \A k \in 1..o.nused : o.entries[k] \in Id \cup {NONE}
  BY ArrayParts
<1>2. o2 = Changed(o, e, u)
  <2>1. \A a, b, c : [a EXCEPT !.nused = b, !.entries = c] = [a EXCEPT !.entries = c, !.nused = b]
    OBVIOUS
  <2>2. o2 = [o EXCEPT !.nused = u, !.entries = e]
    BY DEF pulled
  <2> HIDE DEF e, u
  <2> QED
    BY <2>1, <2>2 DEF Changed
<1>3. u \in Nat /\ (u < o.nalloc \/ u = 0) /\ 1 \in 1..o.nused /\ 1 \in 1..o.nalloc
  BY <1>1
<1>4. \A k \in 1..u : k + 1 \in 1..o.nused /\ k + 1 # 1 /\ k \in 1..o.nalloc /\ k < o.nused
                      /\ k + 1 \in 1..o.nalloc
  BY <1>1
<1>5. \A k \in 1..o.nused : k # 1 => k - 1 \in 1..u /\ k = (k - 1) + 1
  BY <1>1
<1>6. \A k \in 1..o.nalloc : e[k] = IF o.nused = 1 /\ k = 1 THEN Null
                                    ELSE IF k < o.nused THEN o.entries[k + 1] ELSE o.entries[k]
  OBVIOUS
<1>7. \A k \in 1..u : e[k] = o.entries[k + 1]
  <2> TAKE k \in 1..u
  <2>1. ~(o.nused = 1 /\ k = 1) /\ k < o.nused /\ k \in 1..o.nalloc
    BY <1>1, <1>4
  <2> QED
    BY <1>6, <2>1
<1>8. e \in [1..o.nalloc -> Slot]
  <2>1. \A k \in 1..o.nalloc : k < o.nused => k + 1 \in 1..o.nalloc
    BY <1>1
  <2>2. \A k \in 1..o.nalloc : o.entries[k] \in Slot
    BY <1>1
  <2> QED
    BY <2>1, <2>2 DEF Slot
<1> HIDE DEF e, u
<1>9. \A k \in 1..u : e[k] \in Id \cup {NONE}
  BY <1>1, <1>4, <1>7
<1>10. ArrayOf(o2, e, u)
  <2>1. u < o.nalloc \/ u = 0
    BY <1>3
  <2>2. IsArray(o) /\ u \in Nat
    BY <1>3
  <2> QED
    BY ONLY ObjectAssumption, <1>2, <1>8, <1>9, <2>1, <2>2, ArrayChanged
<1>11. /\ Used(o) = {k \in 1..o.nused : o.entries[k] \in Id} /\ Typed(o)
       /\ Used(o2) = {k \in 1..u : e[k] \in Id} /\ Typed(o2)
       /\ \A k : Item(o, k) = o.entries[k] /\ Item(o2, k) = e[k]
  BY <1>10, ArrayItems DEF ArrayOf
<1>12. \A k \in Used(o2) : k + 1 \in Used(o) /\ k + 1 # 1 /\ Item(o2, k) = Item(o, k + 1) /\ k \in Nat
  BY <1>4, <1>7, <1>11
<1>13. \A k \in Used(o) : k # 1 => k - 1 \in Used(o2) /\ k = (k - 1) + 1
  BY <1>5, <1>7, <1>11
<1>14. t \in Id <=> 1 \in Used(o)
  BY <1>3, <1>11
<1> DEFINE m == [k \in Used(o2) |-> k + 1]
<1>15. /\ m \in [Used(o2) -> Used(o)] /\ \A k \in Used(o2) : m[k] = k + 1
  BY <1>12
<1> HIDE DEF m
<1>16. \A i, j \in Used(o2) : m[i] = m[j] => i = j
  BY <1>12, <1>15
<1>17. \A k \in Used(o2) : m[k] # 1 /\ Item(o, m[k]) = Item(o2, k)
  BY <1>12, <1>15
<1>18. \A k \in Used(o) : k = 1 \/ \E j \in Used(o2) : k = m[j]
  BY <1>13, <1>15
<1>19. ASSUME t \in Id, Once(o)
       PROVE  t \in Held(o) /\ Held(o2) = Held(o) \ {t} /\ Once(o2)
  <2>1. 1 \in Used(o) /\ Item(o, 1) = t
    BY <1>11, <1>14, <1>19
  <2>3. Typed(o) /\ Typed(o2) /\ 1 \in Used(o) /\ m \in [Used(o2) -> Used(o)]
    BY <1>11, <1>15, <2>1
  <2>2. /\ Held(o) = Held(o2) \cup {Item(o, 1)}
        /\ Once(o2) /\ Item(o, 1) \notin Held(o2) => Once(o)
        /\ Once(o) => Once(o2) /\ Item(o, 1) \notin Held(o2) /\ Held(o2) = Held(o) \ {Item(o, 1)}
    BY ONLY ObjectAssumption, <2>3, <1>16, <1>17, <1>18, OneMore
  <2> QED
    BY <1>19, <2>1, <2>2
<1>20. ASSUME t \notin Id
       PROVE  Held(o2) = Held(o) /\ (Once(o) => Once(o2))
  <2>1. 1 \notin Used(o)
    BY <1>14, <1>20
  <2>2. /\ \A y : y \in Held(o) <=> \E k \in Used(o) : Item(o, k) = y
        /\ Once(o) <=> \A j, k \in Used(o) : Item(o, j) = Item(o, k) => j = k
    BY <1>11, HeldIs
  <2>3. /\ \A y : y \in Held(o2) <=> \E k \in Used(o2) : Item(o2, k) = y
        /\ Once(o2) <=> \A j, k \in Used(o2) : Item(o2, j) = Item(o2, k) => j = k
    BY <1>11, HeldIs
  <2>4. \A y \in Held(o) : y \in Held(o2)
    BY <1>15, <1>17, <1>18, <2>1, <2>2, <2>3
  <2>5. \A y \in Held(o2) : y \in Held(o)
    BY <1>15, <1>17, <2>2, <2>3
  <2>6. Once(o) => Once(o2)
    BY <1>15, <1>16, <1>17, <2>2, <2>3
  <2> QED
    BY <2>4, <2>5, <2>6
<1>21. t \in Id \cup {NONE}
  BY <1>1, <1>3
<1> QED
  BY <1>10, <1>19, <1>20, <1>21 DEF ArrayOf

-----------------------------------------------------------------------------
(* What they make of a dictionary. *)

LEMMA LenOf ==
  ASSUME NEW S, NEW n \in Nat, NEW e \in [1..n -> S]
  PROVE  e \in Seq(S) /\ Len(e) = n
<1>1. e \in Seq(S)
  BY SeqDef
<1>2. Len(e) \in Nat /\ DOMAIN e = 1..Len(e) /\ DOMAIN e = 1..n
  BY <1>1, LenProperties
<1> QED
  BY <1>1, <1>2

LEMMA DictParts ==
  ASSUME ObjectAssumption, NEW o, o.type = "MDICT", IsDict(o)
  PROVE  /\ Len(o.entries) \in Nat /\ o.entries \in [1..Len(o.entries) -> Element] /\ o.entries \in Seq(Element)
         /\ o.num_entries \in 0..(SIZE_MOD - 1) /\ o.num_entries \in Int
         /\ \A j, k \in 1..Len(o.entries) : o.entries[j].key = o.entries[k].key => j = k
         /\ Used(o) = 1..Len(o.entries) /\ Typed(o) /\ \A k : Item(o, k) = o.entries[k].value
<1>1. /\ Len(o.entries) \in Nat /\ o.entries \in [1..Len(o.entries) -> Element]
      /\ o.num_entries \in 0..(SIZE_MOD - 1)
      /\ \A j, k \in 1..Len(o.entries) : o.entries[j].key = o.entries[k].key => j = k
  BY DEF IsDict
<1>2. o.entries \in Seq(Element)
  BY <1>1, LenOf
<1>3. Count(o) = Len(o.entries)
  BY DEF Count
<1>4. \A k : Item(o, k) = o.entries[k].value
  BY DEF Item
<1>5. \A k \in 1..Len(o.entries) : o.entries[k].value \in Id
  BY <1>1 DEF Element
<1>6. o.num_entries \in Int
  BY <1>1
<1>7. Used(o) = 1..Len(o.entries) /\ Typed(o)
  BY <1>3, <1>4, <1>5 DEF Used, Typed
<1> QED
  BY <1>1, <1>2, <1>4, <1>6, <1>7

Changed2(r, e, n) == [r EXCEPT !.entries = e, !.num_entries = n]

DictOf(o, e) == IsDict(o) /\ o.type = "MDICT" /\ o.entries = e

LEMMA DictChanged ==
  ASSUME ObjectAssumption, NEW r, IsDict(r), NEW e, NEW n \in 0..(SIZE_MOD - 1), NEW l \in Nat,
         e \in [1..l -> Element], \A j, k \in 1..l : e[j].key = e[k].key => j = k,
         NEW o, o = Changed2(r, e, n)
  PROVE  DictOf(o, e)
<1>1. r = [type |-> "MDICT", entries |-> r.entries, num_entries |-> r.num_entries]
  BY DEF IsDict
<1>2. PICK s, v : s = r.entries /\ v = r.num_entries
  OBVIOUS
<1>3. r = [type |-> "MDICT", entries |-> s, num_entries |-> v]
  BY ONLY <1>1, <1>2
<1>4. o = [type |-> "MDICT", entries |-> e, num_entries |-> n]
  BY ONLY <1>3, o = Changed2(r, e, n) DEF Changed2
<1>5. o.type = "MDICT" /\ o.entries = e /\ o.num_entries = n
  BY ONLY <1>4
<1>6. o = [type |-> "MDICT", entries |-> o.entries, num_entries |-> o.num_entries]
  BY ONLY <1>4, <1>5
<1>7. Len(e) = l
  BY LenOf
<1>8. IsDict(o)
  BY <1>5, <1>6, <1>7 DEF IsDict
<1> QED
  BY <1>5, <1>8 DEF DictOf

LEMMA IndexIs ==
  ASSUME ObjectAssumption, NEW o, o.type = "MDICT", IsDict(o), NEW key, Has(o, key)
  PROVE  /\ Position(o, key) \in 1..Len(o.entries) /\ o.entries[Position(o, key)].key = key
         /\ Value(o, key) = o.entries[Position(o, key)].value /\ Value(o, key) \in Id
<1>1. Position(o, key) \in 1..Len(o.entries) /\ o.entries[Position(o, key)].key = key
  BY DEF Position, Has
<1>2. o.entries[Position(o, key)] \in Element
  BY <1>1, DictParts
<1>3. o.entries[Position(o, key)].value \in Id
  BY <1>2 DEF Element
<1>4. Value(o, key) = o.entries[Position(o, key)].value
  BY DEF Value
<1> QED
  BY <1>1, <1>3, <1>4

LEMMA Modulo == ASSUME ObjectAssumption, NEW n \in Int PROVE n % SIZE_MOD \in 0..(SIZE_MOD - 1)
BY DEF ObjectAssumption

LEMMA RemovedIs ==
  ASSUME ObjectAssumption, NEW o, o.type = "MDICT", IsDict(o), NEW key, Has(o, key),
         NEW v, v = Value(o, key), NEW o2, o2 = removed(o, key)
  PROVE  /\ IsDict(o2) /\ o2.type = "MDICT" /\ ~Has(o2, key) /\ v \in Id
         /\ Once(o) => v \in Held(o) /\ Held(o2) = Held(o) \ {v} /\ Once(o2)
<1> DEFINE L == Len(o.entries)
           i == Position(o, key)
           e == Without(o, key)
           l == L - 1
<1>1. /\ L \in Nat /\ o.entries \in [1..L -> Element] /\ o.num_entries \in Int
      /\ \A j, k \in 1..L : o.entries[j].key = o.entries[k].key => j = k
      /\ Used(o) = 1..L /\ Typed(o) /\ \A k : Item(o, k) = o.entries[k].value
  BY DictParts
<1>2. i \in 1..L /\ o.entries[i].key = key /\ v = o.entries[i].value /\ v \in Id
  BY IndexIs
<1>3. l \in Nat /\ \A k \in 1..l : k \in 1..L /\ k + 1 \in 1..L
  BY <1>1, <1>2
<1>4. \A k \in 1..l : e[k] = IF k < i THEN o.entries[k] ELSE o.entries[k + 1]
  BY DEF Without
<1> DEFINE m == [k \in 1..l |-> IF k < i THEN k ELSE k + 1]
<1>5. \A k \in 1..l : m[k] = IF k < i THEN k ELSE k + 1
  OBVIOUS
<1>6. /\ m \in [1..l -> 1..L] /\ \A k \in 1..l : m[k] # i
      /\ \A j, k \in 1..l : m[j] = m[k] => j = k
      /\ \A k \in 1..L : k = i \/ \E j \in 1..l : k = m[j]
  <2>1. \A k \in 1..l : m[k] \in 1..L /\ m[k] # i
    BY <1>1, <1>2, <1>3, <1>5
  <2>2. m \in [1..l -> 1..L]
    BY <1>1, <1>2, <1>3
  <2>3. \A j, k \in 1..l : m[j] = m[k] => j = k
    BY <1>1, <1>2, <1>3, <1>5
  <2>4. ASSUME NEW k \in 1..L, k # i
        PROVE  \E j \in 1..l : k = m[j]
    <3>1. CASE k < i
      <4>1. k \in 1..l
        BY <1>1, <1>2, <3>1
      <4> QED
        BY <1>5, <3>1, <4>1
    <3>2. CASE ~(k < i)
      <4>1. k - 1 \in 1..l /\ ~(k - 1 < i) /\ k = (k - 1) + 1
        BY <1>1, <1>2, <2>4, <3>2
      <4>2. m[k - 1] = (k - 1) + 1
        BY <1>5, <4>1
      <4> QED
        BY <4>1, <4>2
    <3> QED
      BY <3>1, <3>2
  <2> QED
    BY <2>1, <2>2, <2>3, <2>4
<1>7. \A k \in 1..l : e[k] = o.entries[m[k]]
  BY <1>4, <1>5
<1> HIDE DEF m
<1>8. e \in [1..l -> Element]
  <2>1. \A k \in 1..l : (IF k < i THEN o.entries[k] ELSE o.entries[k + 1]) \in Element
    BY <1>1, <1>3
  <2> QED
    BY <2>1 DEF Without
<1>a. \A k \in 1..l : m[k] \in 1..L /\ m[k] # i /\ e[k].key = o.entries[m[k]].key
  BY <1>6, <1>7
<1> HIDE DEF e, l, L, i
<1>9. ASSUME NEW j \in 1..l, NEW k \in 1..l, e[j].key = e[k].key
      PROVE  j = k
  <2>1. o.entries[m[j]].key = o.entries[m[k]].key /\ m[j] \in 1..L /\ m[k] \in 1..L
    BY <1>a, <1>9
  <2>2. m[j] = m[k]
    BY <1>1, <2>1
  <2> QED
    BY <1>6, <2>2
<1>10. ASSUME NEW k \in 1..l, e[k].key = key
       PROVE  FALSE
  <2>1. o.entries[m[k]].key = o.entries[i].key /\ m[k] \in 1..L /\ m[k] # i
    BY <1>2, <1>a, <1>10
  <2> QED
    BY <1>1, <1>2, <2>1
<1> DEFINE n == (o.num_entries - 1) % SIZE_MOD
<1>11. o2 = Changed2(o, e, n)
  BY DEF removed, Changed2, e
<1>12. n \in 0..(SIZE_MOD - 1)
  <2>1. o.num_entries - 1 \in Int
    BY <1>1
  <2>2. PICK d \in Int : d = o.num_entries - 1
    BY <2>1
  <2>3. d % SIZE_MOD \in 0..(SIZE_MOD - 1)
    BY ONLY ObjectAssumption, <2>2, Modulo
  <2> QED
    BY <2>2, <2>3
<1> HIDE DEF n
<1>13. DictOf(o2, e)
  BY ONLY ObjectAssumption, IsDict(o), <1>3, <1>8, <1>9, <1>11, <1>12, DictChanged
<1>14. IsDict(o2) /\ o2.type = "MDICT" /\ o2.entries = e /\ Len(o2.entries) = l
  BY <1>3, <1>8, <1>13, LenOf DEF DictOf
<1>15. /\ Used(o2) = 1..l /\ Typed(o2) /\ \A k : Item(o2, k) = e[k].value
  BY <1>14, DictParts
<1>16. ~Has(o2, key)
  BY <1>10, <1>14 DEF Has
<1>17. /\ Held(o) = Held(o2) \cup {Item(o, i)}
       /\ Once(o2) /\ Item(o, i) \notin Held(o2) => Once(o)
       /\ Once(o) => Once(o2) /\ Item(o, i) \notin Held(o2) /\ Held(o2) = Held(o) \ {Item(o, i)}
  <2>1. Typed(o) /\ Typed(o2) /\ i \in Used(o) /\ m \in [Used(o2) -> Used(o)]
    BY <1>1, <1>2, <1>6, <1>15
  <2>2. \A j \in Used(o2) : m[j] # i /\ Item(o, m[j]) = Item(o2, j)
    BY <1>1, <1>6, <1>7, <1>15
  <2>3. /\ \A j, k \in Used(o2) : m[j] = m[k] => j = k
        /\ \A k \in Used(o) : k = i \/ \E j \in Used(o2) : k = m[j]
    BY <1>1, <1>6, <1>15
  <2> QED
    BY ONLY ObjectAssumption, <2>1, <2>2, <2>3, OneMore
<1>18. Item(o, i) = v
  BY <1>1, <1>2
<1> QED
  BY <1>2, <1>14, <1>16, <1>17, <1>18

LEMMA InsertedIs ==
  ASSUME ObjectAssumption, NEW o, o.type = "MDICT", IsDict(o), NEW key \in Key, ~Has(o, key),
         NEW x \in Id, NEW o2, o2 = inserted(o, key, x)
  PROVE  /\ IsDict(o2) /\ o2.type = "MDICT" /\ Held(o2) = Held(o) \cup {x}
         /\ Once(o) /\ x \notin Held(o) => Once(o2)
<1> DEFINE L == Len(o.entries)
           e == Append(o.entries, Entry(key, x))
           l == L + 1
           n == (o.num_entries + 1) % SIZE_MOD
<1>1. /\ L \in Nat /\ o.entries \in Seq(Element) /\ o.num_entries \in Int
      /\ o.entries \in [1..L -> Element]
      /\ \A j, k \in 1..L : o.entries[j].key = o.entries[k].key => j = k
      /\ Used(o) = 1..L /\ Typed(o) /\ \A k : Item(o, k) = o.entries[k].value
  BY DictParts
<1>2. Entry(key, x) \in Element /\ Entry(key, x).key = key /\ Entry(key, x).value = x
  BY DEF Entry, Element
<1>3. e \in Seq(Element) /\ Len(e) = l /\ (\A k \in 1..L : e[k] = o.entries[k]) /\ e[l] = Entry(key, x)
  BY <1>1, <1>2, AppendProperties
<1>4. l \in Nat /\ l \in 1..l /\ l \notin 1..L /\ 1..L \subseteq 1..l
      /\ (\A k \in 1..l : k \in 1..L \/ k = l)
  BY <1>1
<1>5. e \in [1..l -> Element]
  BY <1>3, LenProperties
<1>6. \A k \in 1..L : o.entries[k].key # key
  BY DEF Has
<1>7. ASSUME NEW j \in 1..l, NEW k \in 1..l, e[j].key = e[k].key
      PROVE  j = k
  BY <1>1, <1>2, <1>3, <1>4, <1>6, <1>7
<1>8. o2 = Changed2(o, e, n)
  BY DEF inserted, Changed2
<1>9. n \in 0..(SIZE_MOD - 1)
  BY <1>1, Modulo, SMTT(30)
<1> HIDE DEF e, n, l, L
<1>10. DictOf(o2, e)
  BY ONLY ObjectAssumption, IsDict(o), <1>4, <1>5, <1>7, <1>8, <1>9, DictChanged
<1>11. IsDict(o2) /\ o2.type = "MDICT" /\ o2.entries = e
  BY <1>10 DEF DictOf
<1>12. /\ Used(o2) = 1..l /\ Typed(o2) /\ \A k : Item(o2, k) = e[k].value
  BY <1>3, <1>11, DictParts
<1>13. /\ l \in Used(o2) /\ l \notin Used(o) /\ Used(o2) = Used(o) \cup {l}
       /\ \A k \in Used(o) : Item(o2, k) = Item(o, k)
  <2>1. Used(o) = 1..L /\ Used(o2) = 1..l
    BY <1>1, <1>12
  <2>2. l \in Used(o2) /\ l \notin Used(o)
    BY <1>4, <2>1
  <2>3. Used(o2) = Used(o) \cup {l}
    BY <1>4, <2>1
  <2>4. \A k \in Used(o) : Item(o2, k) = Item(o, k)
    BY <1>1, <1>3, <1>12, <2>1
  <2> QED
    BY <2>2, <2>3, <2>4
<1>14. Item(o2, l) = x
  BY <1>2, <1>3, <1>12
<1>15. Held(o2) = Held(o) \cup {Item(o2, l)} /\ (Once(o) /\ Item(o2, l) \notin Held(o) => Once(o2))
  BY <1>1, <1>12, <1>13, OneMoreThere, ZenonT(60)
<1> QED
  BY <1>11, <1>14, <1>15

LEMMA ReplacedIs ==
  ASSUME ObjectAssumption, NEW o, o.type = "MDICT", IsDict(o), NEW key \in Key, NEW x \in Id
  PROVE  LET c == IF Has(o, key) THEN removed(o, key) ELSE o
             d == replaced(o, key, x)
         IN  /\ IsDict(c) /\ c.type = "MDICT" /\ IsDict(d) /\ d.type = "MDICT"
             /\ Held(d) = Held(c) \cup {x} /\ (Once(c) /\ x \notin Held(c) => Once(d))
<1> DEFINE c == IF Has(o, key) THEN removed(o, key) ELSE o
<1>1. IsDict(c) /\ c.type = "MDICT" /\ ~Has(c, key)
  BY RemovedIs
<1>2. replaced(o, key, x) = inserted(c, key, x)
  BY DEF replaced
<1> HIDE DEF c
<1>3. /\ IsDict(inserted(c, key, x)) /\ inserted(c, key, x).type = "MDICT"
      /\ Held(inserted(c, key, x)) = Held(c) \cup {x}
      /\ Once(c) /\ x \notin Held(c) => Once(inserted(c, key, x))
  BY <1>1, InsertedIs
<1> QED
  BY <1>1, <1>2, <1>3 DEF c

LEMMA EmptyIs ==
  ASSUME ObjectAssumption, NEW type \in Type, NEW o, o = Empty(type)
  PROVE  Shaped(o) /\ o.type # "FREE" /\ Held(o) = {} /\ Once(o)
<1>0. SIZE_MOD \in Nat \ {0}
  BY DEF ObjectAssumption
<1>1. CASE type = "MINT"
  <2>1. o = Number /\ o.type = "MINT"
    BY <1>1 DEF Empty, Number
  <2>2. Count(o) = 0
    BY <2>1 DEF Count
  <2> QED
    BY <2>1, <2>2 DEF Shaped, Held, Once
<1>2. CASE type = "MARRAY"
  <2>1. o = EmptyArray
    BY <1>2 DEF Empty
  <2>2. o.type = "MARRAY" /\ o.entries = <<>> /\ o.nalloc = 0 /\ o.nused = 0
    BY <2>1 DEF EmptyArray
  <2>3. Count(o) = 0
    BY <2>2 DEF Count
  <2>4. <<>> \in [1..0 -> Slot]
    OBVIOUS
  <2>5. o = [type |-> "MARRAY", entries |-> o.entries, nalloc |-> o.nalloc, nused |-> o.nused]
    BY <2>1, <2>2 DEF EmptyArray
  <2>6. IsArray(o)
    BY <2>2, <2>4, <2>5 DEF IsArray
  <2> QED
    BY <2>2, <2>3, <2>6 DEF Shaped, Held, Once
<1>3. CASE type = "MDICT"
  <2>1. o = EmptyDict
    BY <1>3 DEF Empty
  <2>2. o.type = "MDICT" /\ o.entries = <<>> /\ o.num_entries = 0
    BY <2>1 DEF EmptyDict
  <2>3. Len(o.entries) = 0 /\ o.entries \in [1..0 -> Element]
    BY <2>2
  <2>4. Count(o) = 0
    BY <2>2, <2>3 DEF Count
  <2>5. o = [type |-> "MDICT", entries |-> o.entries, num_entries |-> o.num_entries]
    BY <2>1, <2>2 DEF EmptyDict
  <2>6. o.num_entries \in 0..(SIZE_MOD - 1)
    BY <1>0, <2>2
  <2>7. IsDict(o)
    BY <2>3, <2>5, <2>6 DEF IsDict
  <2> QED
    BY <2>2, <2>4, <2>7 DEF Shaped, Held, Once
<1> QED
  BY <1>1, <1>2, <1>3 DEF Type

LEMMA CopyHeld ==
  ASSUME ObjectAssumption, NEW o, NEW o2, Typed(o), Typed(o2), Used(o2) = Used(o),
         NEW f, \A j, k \in Held(o) : f[j] = f[k] => j = k,
         \A k \in Used(o) : Item(o2, k) = f[Item(o, k)]
  PROVE  Held(o2) = {f[k] : k \in Held(o)} /\ (Once(o) => Once(o2))
<1>1. /\ \A y : y \in Held(o) <=> \E k \in Used(o) : Item(o, k) = y
      /\ Once(o) <=> \A j, k \in Used(o) : Item(o, j) = Item(o, k) => j = k
  BY HeldIs
<1>2. /\ \A y : y \in Held(o2) <=> \E k \in Used(o2) : Item(o2, k) = y
      /\ Once(o2) <=> \A j, k \in Used(o2) : Item(o2, j) = Item(o2, k) => j = k
  BY HeldIs
<1>3. \A k \in Used(o) : Item(o, k) \in Held(o)
  BY <1>1
<1>4. Once(o) => Once(o2)
  BY <1>1, <1>2, <1>3
<1>5. \A y \in Held(o2) : y \in {f[k] : k \in Held(o)}
  BY <1>2, <1>3
<1>6. ASSUME NEW k \in Held(o)
      PROVE  f[k] \in Held(o2)
  BY <1>1, <1>2
<1> QED
  BY <1>4, <1>5, <1>6

LEMMA CopiedArray ==
  ASSUME ObjectAssumption, NEW o, o.type = "MARRAY", IsArray(o), o.nused > 0, NEW f,
         NEW o2, o2 = copied_array(o, f),
         \A k \in 1..o.nused : Renamed(f, o.entries[k]) \in Id \cup {NONE}
  PROVE  /\ IsArray(o2) /\ o2.type = "MARRAY" /\ o2.nused = o.nused
         /\ \A k \in 1..o.nused : o2.entries[k] = Renamed(f, o.entries[k])
<1> DEFINE n == NextAlloc(EmptyArray, o.nused)
           e == [k \in 1..n |-> IF k <= o.nused THEN Renamed(f, o.entries[k]) ELSE Null]
<1>a. MARRAY_MAX \in Nat
  BY DEF ObjectAssumption
<1>1. o.nused \in Nat /\ o.nalloc \in Size /\ o.nused < o.nalloc /\ o.nalloc < MARRAY_MAX /\ o.nalloc \in Nat
  BY <1>a, ArrayParts, SizeIs
<1>2. EmptyArray.nalloc = 0 /\ EmptyArray.type = "MARRAY"
  BY DEF EmptyArray
<1>3. n \in Size /\ o.nused < n /\ n \in Nat
  <2>1. /\ n \in Nat /\ (n < MARRAY_MAX => n \in Size /\ o.nused < n)
        /\ \A d \in Size : o.nused < d => n <= d
    BY <1>1, <1>2, NextAllocIs
  <2> HIDE DEF n
  <2>2. n <= o.nalloc
    BY <1>1, <2>1
  <2> QED
    BY <1>a, <1>1, <2>1, <2>2
<1>4. ~Fits(EmptyArray, o.nused)
  BY <1>1, <1>2 DEF Fits
<1> DEFINE r == marray_resize(EmptyArray, o.nused)
           w == [k \in 1..n |-> IF k <= EmptyArray.nused THEN EmptyArray.entries[k] ELSE Null]
<1>5. r = [type |-> "MARRAY", entries |-> w, nalloc |-> n, nused |-> 0]
  <2>1. r = [EmptyArray EXCEPT !.nalloc = n, !.entries = w]
    BY <1>4 DEF marray_resize
  <2> HIDE DEF n, r, w
  <2> QED
    BY <2>1 DEF EmptyArray
<1> HIDE DEF w
<1>6. r.nalloc = n
  <2> HIDE DEF n, r
  <2> QED
    BY <1>5
<1>7. o2 = [r EXCEPT !.nused = o.nused, !.entries = e]
  <2>1. o2 = [r EXCEPT !.nused = o.nused,
                !.entries = [k \in 1..r.nalloc |->
                               IF k <= o.nused THEN Renamed(f, o.entries[k]) ELSE Null]]
    BY <1>1 DEF copied_array
  <2> QED
    BY <1>6, <2>1
<1> HIDE DEF r, n
<1>8. \A k \in 1..n : e[k] = IF k <= o.nused THEN Renamed(f, o.entries[k]) ELSE Null
  OBVIOUS
<1>9. \A k \in 1..o.nused : k \in 1..n /\ e[k] = Renamed(f, o.entries[k])
  BY <1>1, <1>3, <1>8
<1>10. e \in [1..n -> Slot]
  <2>1. \A k \in 1..n : (IF k <= o.nused THEN Renamed(f, o.entries[k]) ELSE Null) \in Slot
    BY <1>1 DEF Slot
  <2> QED
    BY <2>1
<1> HIDE DEF e
<1>11. o2 = [type |-> "MARRAY", entries |-> e, nalloc |-> n, nused |-> o.nused]
  BY ONLY <1>5, <1>7
<1>12. o2.type = "MARRAY" /\ o2.entries = e /\ o2.nalloc = n /\ o2.nused = o.nused
  BY ONLY <1>11
<1>13. o2 = [type |-> "MARRAY", entries |-> o2.entries, nalloc |-> o2.nalloc, nused |-> o2.nused]
  BY ONLY <1>11, <1>12
<1>14. IsArray(o2)
  BY <1>1, <1>3, <1>9, <1>10, <1>12, <1>13 DEF IsArray
<1> QED
  BY <1>9, <1>12, <1>14

LEMMA CopiedIs ==
  ASSUME ObjectAssumption, NEW o, Shaped(o), NEW B \in SUBSET Id, NEW F \in SUBSET Id,
         NEW f \in [B -> F], \A j, k \in B : f[j] = f[k] => j = k, Held(o) \subseteq B,
         NEW o2, o2 = copied(o, f)
  PROVE  /\ Shaped(o2) /\ o2.type = o.type
         /\ Held(o2) = {f[k] : k \in Held(o)} /\ (Once(o) => Once(o2))
<1>1. \A y \in B : Renamed(f, y) = f[y] /\ f[y] \in Id
  BY DEF Renamed
<1>2. Renamed(f, NONE) = NONE
  BY NoneIsNoId DEF Renamed
<1>0. \A j, k \in Held(o) : f[j] = f[k] => j = k
  OBVIOUS
<1>3. CASE o.type = "MARRAY" /\ IsArray(o)
  <2>1. /\ o.nused \in Nat /\ Typed(o) /\ Used(o) = {k \in 1..o.nused : o.entries[k] \in Id}
        /\ \A k : Item(o, k) = o.entries[k]
        /\ \A k \in 1..o.nused : o.entries[k] \in Id \cup {NONE}
    BY <1>3, ArrayItems, ArrayParts
  <2>2. \A k \in 1..o.nused : o.entries[k] \in Id => o.entries[k] \in B
    BY <2>1, HeldIs
  <2>3. \A k \in 1..o.nused : Renamed(f, o.entries[k]) \in Id \cup {NONE}
    BY <1>1, <1>2, <2>1, <2>2
  <2>0. o2 = copied_array(o, f)
    BY <1>3 DEF copied
  <2>4. CASE o.nused > 0
    <3>1. /\ IsArray(o2) /\ o2.type = "MARRAY" /\ o2.nused = o.nused
          /\ \A k \in 1..o.nused : o2.entries[k] = Renamed(f, o.entries[k])
      BY <1>3, <2>0, <2>3, <2>4, CopiedArray
    <3>2. /\ Typed(o2) /\ Used(o2) = {k \in 1..o.nused : o2.entries[k] \in Id}
          /\ \A k : Item(o2, k) = o2.entries[k]
      BY <3>1, ArrayItems
    <3>3. Used(o2) = Used(o)
      BY <1>1, <1>2, <2>1, <2>2, <3>1, <3>2, NoneIsNoId
    <3>4. \A k \in Used(o) : Item(o2, k) = f[Item(o, k)]
      BY <1>1, <2>1, <2>2, <3>1, <3>2
    <3> QED
      <4>1. Held(o2) = {f[k] : k \in Held(o)} /\ (Once(o) => Once(o2))
        BY ONLY ObjectAssumption, <1>0, <2>1, <3>2, <3>3, <3>4, CopyHeld
      <4>2. Shaped(o2) /\ o2.type = o.type
        BY <1>3, <3>1 DEF Shaped
      <4> QED
        BY <4>1, <4>2
  <2>5. CASE o.nused = 0
    <3>1. o2 = Empty("MARRAY") /\ "MARRAY" \in Type
      BY <2>0, <2>5 DEF copied_array, Empty, Type
    <3>2. Shaped(o2) /\ Held(o2) = {} /\ Once(o2) /\ o2.type = "MARRAY"
      BY <3>1, EmptyIs DEF Empty, EmptyArray
    <3>3. Held(o) = {}
      BY <2>1, <2>5, HeldIs
    <3> QED
      BY <1>3, <3>2, <3>3
  <2> QED
    BY <2>1, <2>4, <2>5
<1>4. CASE o.type = "MDICT" /\ IsDict(o)
  <2> DEFINE L == Len(o.entries)
             e == [k \in 1..L |-> Entry(o.entries[k].key, Renamed(f, o.entries[k].value))]
  <2>1. o2 = [type |-> "MDICT", num_entries |-> L % SIZE_MOD, entries |-> e]
    <3>1. o2 = copied_dict(o, f)
      BY <1>4 DEF copied
    <3> QED
      BY <3>1 DEF copied_dict
  <2>2. /\ L \in Nat /\ o.entries \in [1..L -> Element]
        /\ \A j, k \in 1..L : o.entries[j].key = o.entries[k].key => j = k
        /\ Used(o) = 1..L /\ Typed(o) /\ \A k : Item(o, k) = o.entries[k].value
    BY <1>4, DictParts
  <2>3. \A k \in 1..L : o.entries[k].key \in Key /\ o.entries[k].value \in B
    <3>1. \A k \in 1..L : o.entries[k].key \in Key
      BY <2>2 DEF Element
    <3>2. \A k \in 1..L : o.entries[k].value \in B
      BY <2>2, HeldIs
    <3> QED
      BY <3>1, <3>2
  <2>4. \A k \in 1..L : e[k] = [key |-> o.entries[k].key, value |-> f[o.entries[k].value]]
    BY <1>1, <2>3 DEF Entry
  <2>5. \A k \in 1..L : e[k].key = o.entries[k].key /\ e[k].value = f[o.entries[k].value]
    <3> TAKE k \in 1..L
    <3>1. PICK a, b : a = o.entries[k].key /\ b = f[o.entries[k].value]
      OBVIOUS
    <3> HIDE DEF e, L
    <3>2. e[k] = [key |-> a, value |-> b]
      BY <2>4, <3>1
    <3>3. e[k].key = a /\ e[k].value = b
      BY ONLY <3>2
    <3> QED
      BY ONLY <3>1, <3>3
  <2>6. e \in [1..L -> Element]
    BY <1>1, <2>3 DEF Entry, Element
  <2>7. L % SIZE_MOD \in 0..(SIZE_MOD - 1)
    BY <2>2, Modulo
  <2>8. Len(e) = L
    BY <2>2, <2>6, LenOf
  <2> HIDE DEF e, L
  <2>9. o2.type = "MDICT" /\ o2.entries = e /\ o2.num_entries = L % SIZE_MOD
    BY <2>1
  <2>10. o2 = [type |-> "MDICT", entries |-> o2.entries, num_entries |-> o2.num_entries]
    BY <2>1, <2>9
  <2>11. \A j, k \in 1..L : e[j].key = e[k].key => j = k
    BY <2>2, <2>5
  <2>12. IsDict(o2)
    BY <2>2, <2>6, <2>7, <2>8, <2>9, <2>10, <2>11 DEF IsDict
  <2>13. Used(o2) = 1..L /\ Typed(o2) /\ \A k : Item(o2, k) = e[k].value
    BY <2>8, <2>9, <2>12, DictParts
  <2>14. \A k \in Used(o) : Item(o2, k) = f[Item(o, k)]
    BY <2>2, <2>5, <2>13
  <2>15. Held(o2) = {f[k] : k \in Held(o)} /\ (Once(o) => Once(o2))
    <3>1. Typed(o) /\ Typed(o2) /\ Used(o2) = Used(o)
      BY <2>2, <2>13
    <3> QED
      BY ONLY ObjectAssumption, <1>0, <2>14, <3>1, CopyHeld
  <2> QED
    BY <1>4, <2>9, <2>12, <2>15 DEF Shaped
<1>5. CASE o = Gone \/ o = Number
  <2>1. o.type \notin {"MARRAY", "MDICT"}
    BY <1>5 DEF Gone, Number
  <2>2. o2 = o /\ Count(o) = 0
    BY <2>1 DEF copied, Count
  <2>3. Held(o) = {} /\ Once(o)
    BY <2>2 DEF Held, Once
  <2> QED
    BY <2>2, <2>3
<1> QED
  BY <1>3, <1>4, <1>5 DEF Shaped

-----------------------------------------------------------------------------
(* The steps. *)

(* The state after a call, when the heap still belongs to someone. *)
LEMMA StillInv ==
  ASSUME heap' = [i \in Id |-> heap'[i]], \A i \in Id : Shaped(heap'[i]),
         damaged' = FALSE, Owned(heap', owned')
  PROVE  ObjectInv'
<1>1. owned' \subseteq Id
  BY DEF Owned, Alive
<1> QED
  BY <1>1 DEF ObjectInv

LEMMA InvIs ==
  ASSUME ObjectInv, ~damaged
  PROVE  /\ heap = [i \in Id |-> heap[i]] /\ owned \subseteq Id /\ damaged = FALSE
         /\ \A i \in Id : Shaped(heap[i])
         /\ Owned(heap, owned)
         /\ \A a \in Live("MARRAY") : a \in Id /\ a \in Alive(heap) /\ heap[a].type = "MARRAY" /\ IsArray(heap[a])
         /\ \A d \in Live("MDICT") : d \in Id /\ d \in Alive(heap) /\ heap[d].type = "MDICT" /\ IsDict(heap[d])
         /\ \A i \in Fresh : i \in Id /\ heap[i].type = "FREE"
         /\ \A c \in Id : Once(heap[c])
<1>1. Gone.type = "FREE" /\ Number.type = "MINT"
  BY DEF Gone, Number
<1>2. \A i \in Id : /\ heap[i].type = "MARRAY" => IsArray(heap[i])
                    /\ heap[i].type = "MDICT" => IsDict(heap[i])
  BY <1>1 DEF ObjectInv, Shaped
<1> QED
  BY <1>2 DEF ObjectInv, Live, Fresh, Alive, Owned

LEMMA FreeShapes ==
  ASSUME NEW y, NEW h, \A i \in Id : Shaped(h[i])
  PROVE  /\ mobject_free(y, h) = [i \in Id |-> mobject_free(y, h)[i]]
         /\ \A i \in Id : Shaped(mobject_free(y, h)[i])
         /\ \A i \in Id : h[i].type = "FREE" => mobject_free(y, h)[i].type = "FREE"
<1>1. Shaped(Gone) /\ Gone.type = "FREE"
  BY DEF Shaped, Gone
<1>2. \A i \in Id : mobject_free(y, h)[i] = Gone \/ mobject_free(y, h)[i] = h[i]
  BY DEF mobject_free
<1>3. mobject_free(y, h) = [i \in Id |-> mobject_free(y, h)[i]]
  BY DEF mobject_free
<1> QED
  BY <1>1, <1>2, <1>3

LEMMA GiveStep ==
  ASSUME ObjectAssumption, ObjectInv, ~damaged,
         NEW c \in Alive(heap), NEW x \in owned, c \notin Below(x, heap), NEW o, Shaped(o), o.type # "FREE",
         Held(o) = Held(heap[c]) \cup {x}, Once(heap[c]) /\ x \notin Held(heap[c]) => Once(o),
         heap' = [heap EXCEPT ![c] = o], owned' = owned \ {x}, UNCHANGED damaged
  PROVE  ObjectInv'
<1>1. /\ heap = [i \in Id |-> heap[i]] /\ damaged = FALSE /\ Owned(heap, owned)
      /\ \A i \in Id : Shaped(heap[i])
  BY InvIs
<1>2. c \in Id /\ Once(heap[c]) /\ x \notin Held(heap[c])
  BY <1>1 DEF Alive, Owned
<1>3. heap' = [i \in Id |-> heap'[i]] /\ \A i \in Id : heap'[i] = IF i = c THEN o ELSE heap[i]
  BY <1>1, <1>2
<1>4. Owned(heap', owned \ {x})
  <2>1. Once(o)
    BY <1>2
  <2> QED
    BY <1>1, <1>3, <2>1, GiveKeeps
<1> QED
  BY <1>1, <1>3, <1>4, StillInv

LEMMA GiveNewStep ==
  ASSUME ObjectAssumption, ObjectInv, ~damaged,
         NEW c \in Alive(heap), NEW i \in Fresh, NEW type \in Type, NEW o, Shaped(o), o.type # "FREE",
         Held(o) = Held(heap[c]) \cup {i}, Once(heap[c]) /\ i \notin Held(heap[c]) => Once(o),
         heap' = [heap EXCEPT ![i] = Empty(type), ![c] = o], UNCHANGED <<owned, damaged>>
  PROVE  ObjectInv'
<1>1. /\ heap = [j \in Id |-> heap[j]] /\ damaged = FALSE /\ Owned(heap, owned)
      /\ \A j \in Id : Shaped(heap[j])
      /\ i \in Id /\ heap[i].type = "FREE"
  BY InvIs
<1>2. c \in Id /\ Once(heap[c]) /\ i \notin Held(heap[c])
  BY <1>1 DEF Alive, Owned
<1>3. PICK e : e = Empty(type)
  OBVIOUS
<1>4. Shaped(e) /\ e.type # "FREE" /\ Held(e) = {} /\ Once(e)
  BY <1>3, EmptyIs
<1>5. /\ heap' = [j \in Id |-> heap'[j]]
      /\ \A j \in Id : heap'[j] = IF j = c THEN o ELSE IF j = i THEN e ELSE heap[j]
  BY <1>1, <1>2, <1>3
<1>6. Owned(heap', owned)
  <2>1. Once(o)
    BY <1>2
  <2>2. /\ \A j \in Id : heap'[j] = IF j = c THEN o ELSE IF j = i THEN e ELSE heap[j]
        /\ Held(o) = Held(heap[c]) \cup {i} /\ o.type # "FREE"
    BY <1>5
  <2>3. ASSUME NEW h2, \A j \in Id : h2[j] = IF j = c THEN o ELSE IF j = i THEN e ELSE heap[j]
        PROVE  Owned(h2, owned)
    BY ONLY ObjectAssumption, c \in Alive(heap), <1>1, <1>4, <2>1, <2>2, <2>3, GiveNewKeeps
  <2> QED
    BY <2>2, <2>3
<1> QED
  BY <1>1, <1>4, <1>5, <1>6, StillInv

LEMMA TakeStep ==
  ASSUME ObjectAssumption, ObjectInv, ~damaged,
         NEW c \in Alive(heap), NEW x \in Id \cup {NONE}, NEW o, Shaped(o), o.type # "FREE",
         x \in Id /\ Once(heap[c]) => x \in Held(heap[c]) /\ Held(o) = Held(heap[c]) \ {x} /\ Once(o),
         x \notin Id => Held(o) = Held(heap[c]) /\ (Once(heap[c]) => Once(o)),
         heap' = [heap EXCEPT ![c] = o], take(x), UNCHANGED damaged
  PROVE  ObjectInv'
<1>1. /\ heap = [i \in Id |-> heap[i]] /\ damaged = FALSE /\ Owned(heap, owned)
      /\ \A i \in Id : Shaped(heap[i])
  BY InvIs
<1>2. c \in Id /\ Once(heap[c])
  BY <1>1 DEF Alive, Owned
<1>3. heap' = [i \in Id |-> heap'[i]] /\ \A i \in Id : heap'[i] = IF i = c THEN o ELSE heap[i]
  BY <1>1, <1>2
<1>4. CASE x \in Id
  <2>1. owned' = owned \cup {x}
    BY <1>4, NoneIsNoId DEF take
  <2>2. Owned(heap', owned \cup {x})
    BY <1>1, <1>2, <1>3, <1>4, TakeKeeps
  <2> QED
    BY <1>1, <1>3, <2>1, <2>2, StillInv
<1>5. CASE x \notin Id
  <2>1. owned' = owned
    BY <1>5 DEF take
  <2>2. Owned(heap', owned)
    BY <1>1, <1>2, <1>3, <1>5, SameKeeps
  <2> QED
    BY <1>1, <1>3, <2>1, <2>2, StillInv
<1> QED
  BY <1>4, <1>5

(* A container lets go of what was in a slot, which is freed. *)
LEMMA DropOwned ==
  ASSUME ObjectAssumption, NEW h, NEW own, Owned(h, own),
         NEW c \in Alive(h), NEW y, NEW o, o.type # "FREE", Once(o),
         \/ y \in Held(h[c]) /\ Held(o) = Held(h[c]) \ {y}
         \/ y \in {Null, NONE} /\ Held(o) = Held(h[c]),
         NEW h2, \A i \in Id : h2[i] = IF i = c THEN o ELSE mobject_free(y, h)[i]
  PROVE  Owned(h2, own) /\ \A i \in Id : Held(h2[i]) \subseteq Held(h[i])
<1>1. CASE y \in Held(h[c]) /\ Held(o) = Held(h[c]) \ {y}
  BY <1>1, DropKeeps
<1>2. CASE y \in {Null, NONE} /\ Held(o) = Held(h[c])
  <2>1. Below(y, h) = {}
    BY <1>2, NothingBelowNone
  <2>2. \A i \in Id : h2[i] = IF i = c THEN o ELSE h[i]
    BY <2>1 DEF mobject_free
  <2>3. Owned(h2, own)
    BY <1>2, <2>2, SameKeeps
  <2> QED
    BY <1>2, <2>2, <2>3
<1> QED
  BY <1>1, <1>2

LEMMA DropGiveStep ==
  ASSUME ObjectAssumption, ObjectInv, ~damaged,
         NEW c \in Alive(heap), NEW x \in owned, c \notin Below(x, heap), 
         NEW y, NEW o1, o1.type # "FREE", Once(heap[c]) => Once(o1),
         \/ y \in Held(heap[c]) /\ Held(o1) = Held(heap[c]) \ {y}
         \/ y \in {Null, NONE} /\ Held(o1) = Held(heap[c]),
         NEW o, Shaped(o), o.type # "FREE",
         Held(o) = Held(o1) \cup {x}, Once(o1) /\ x \notin Held(o1) => Once(o),
         heap' = [mobject_free(y, heap) EXCEPT ![c] = o], owned' = owned \ {x}, damaged' = FALSE
  PROVE  ObjectInv'
<1>1. /\ heap = [i \in Id |-> heap[i]] /\ damaged = FALSE /\ Owned(heap, owned)
      /\ \A i \in Id : Shaped(heap[i])
  BY InvIs
<1>2. c \in Id /\ Once(heap[c]) /\ x \notin Held(heap[c]) /\ x \in Id
      /\ \A i \in Id : Held(heap[i]) \subseteq Id
  BY <1>1 DEF Alive, Owned
<1> DEFINE h == mobject_free(y, heap)
           h1 == [i \in Id |-> IF i = c THEN o1 ELSE h[i]]
<1>3. h = [i \in Id |-> h[i]] /\ \A i \in Id : Shaped(h[i])
  BY <1>1, FreeShapes
<1>4. \A i \in Id : h1[i] = IF i = c THEN o1 ELSE h[i]
  OBVIOUS
<1>5. heap' = [h EXCEPT ![c] = o]
  OBVIOUS
<1>6. Owned(h1, owned) /\ \A i \in Id : Held(h1[i]) \subseteq Held(heap[i])
  <2> HIDE DEF h1
  <2> QED
    BY <1>1, <1>2, <1>4, DropOwned, SMTT(30)
<1> HIDE DEF h, h1
<1>7. heap' = [i \in Id |-> heap'[i]] /\ \A i \in Id : heap'[i] = IF i = c THEN o ELSE h[i]
  BY <1>2, <1>3, <1>5
<1>8. \A i \in Id : heap'[i] = IF i = c THEN o ELSE h1[i]
  BY <1>4, <1>7
<1>9. c \notin Below(x, h1)
  BY <1>2, <1>6, BelowLess
<1>10. c \in Alive(h1) /\ h1[c] = o1 /\ x \notin Held(o1) /\ Once(o)
  <2>1. h1[c] = o1
    BY <1>2, <1>4
  <2>2. c \in Alive(h1)
    BY <1>2, <2>1 DEF Alive
  <2>3. x \notin Held(o1)
    BY <1>2
  <2> QED
    BY <1>2, <2>1, <2>2, <2>3
<1>11. Owned(heap', owned \ {x})
  <2>1. Held(o) = Held(h1[c]) \cup {x} /\ o.type # "FREE" /\ Once(o)
    BY <1>10
  <2>2. ASSUME NEW h2, \A i \in Id : h2[i] = IF i = c THEN o ELSE h1[i]
        PROVE  Owned(h2, owned \ {x})
    BY <1>6, <1>9, <1>10, <2>1, <2>2, GiveKeeps
  <2> QED
    BY <1>8, <2>2
<1> QED
  BY <1>3, <1>7, <1>11, StillInv

LEMMA DropGiveNewStep ==
  ASSUME ObjectAssumption, ObjectInv, ~damaged,
         NEW c \in Alive(heap), NEW i \in Fresh, NEW e, Shaped(e), e.type # "FREE", Held(e) = {}, Once(e), 
         NEW y, NEW o1, o1.type # "FREE", Once(heap[c]) => Once(o1),
         \/ y \in Held(heap[c]) /\ Held(o1) = Held(heap[c]) \ {y}
         \/ y \in {Null, NONE} /\ Held(o1) = Held(heap[c]),
         NEW o, Shaped(o), o.type # "FREE",
         Held(o) = Held(o1) \cup {i}, Once(o1) /\ i \notin Held(o1) => Once(o),
         \/ heap' = [mobject_free(y, heap) EXCEPT ![c] = o, ![i] = e]
         \/ heap' = [mobject_free(y, heap) EXCEPT ![i] = e, ![c] = o],
         UNCHANGED owned, damaged' = FALSE
  PROVE  ObjectInv'
<1>1. /\ heap = [j \in Id |-> heap[j]] /\ damaged = FALSE /\ Owned(heap, owned)
      /\ \A j \in Id : Shaped(heap[j])
      /\ i \in Id /\ heap[i].type = "FREE"
  BY InvIs
<1>2. c \in Id /\ Once(heap[c]) /\ i # c /\ \A j \in Id : i \notin Held(heap[j])
  BY <1>1 DEF Alive, Owned
<1> DEFINE h == mobject_free(y, heap)
           h1 == [j \in Id |-> IF j = c THEN o1 ELSE h[j]]
<1>3. h = [j \in Id |-> h[j]] /\ (\A j \in Id : Shaped(h[j])) /\ h[i].type = "FREE"
  BY <1>1, FreeShapes
<1>4. \A j \in Id : h1[j] = IF j = c THEN o1 ELSE h[j]
  OBVIOUS
<1>5. heap' = [h EXCEPT ![c] = o, ![i] = e] \/ heap' = [h EXCEPT ![i] = e, ![c] = o]
  OBVIOUS
<1>6. Owned(h1, owned) /\ \A j \in Id : Held(h1[j]) \subseteq Held(heap[j])
  <2> HIDE DEF h1
  <2>1. Once(o1) /\ o1.type # "FREE"
    BY <1>2
  <2>2. \/ y \in Held(heap[c]) /\ Held(o1) = Held(heap[c]) \ {y}
        \/ y \in {Null, NONE} /\ Held(o1) = Held(heap[c])
    OBVIOUS
  <2>3. \A j \in Id : h1[j] = IF j = c THEN o1 ELSE mobject_free(y, heap)[j]
    BY <1>4
  <2>4. Owned(heap, owned)
    BY <1>1
  <2> HIDE DEF h
  <2>5. ASSUME NEW h2, \A j \in Id : h2[j] = IF j = c THEN o1 ELSE mobject_free(y, heap)[j]
        PROVE  Owned(h2, owned) /\ \A j \in Id : Held(h2[j]) \subseteq Held(heap[j])
    BY <2>1, <2>2, <2>4, <2>5, DropOwned
  <2> QED
    BY <2>3, <2>5
<1> HIDE DEF h, h1
<1>7. /\ heap' = [j \in Id |-> heap'[j]]
      /\ \A j \in Id : heap'[j] = IF j = c THEN o ELSE IF j = i THEN e ELSE h[j]
  BY <1>1, <1>2, <1>3, <1>5
<1>8. \A j \in Id : heap'[j] = IF j = c THEN o ELSE IF j = i THEN e ELSE h1[j]
  BY <1>4, <1>7
<1>9. c \in Alive(h1) /\ h1[c] = o1 /\ h1[i].type = "FREE" /\ Once(o)
  <2>1. h1[c] = o1 /\ h1[i] = h[i]
    BY <1>1, <1>2, <1>4
  <2>2. c \in Alive(h1)
    BY <1>2, <2>1 DEF Alive
  <2>3. i \notin Held(o1)
    BY <1>2
  <2> QED
    BY <1>2, <1>3, <2>1, <2>2, <2>3
<1>11. Owned(heap', owned)
  BY <1>1, <1>6, <1>8, <1>9, GiveNewKeeps
<1> QED
  BY <1>3, <1>7, <1>11, StillInv

LEMMA ArrayShaped == ASSUME NEW o, IsArray(o), o.type = "MARRAY"
                     PROVE  Shaped(o) /\ o.type # "FREE"
BY DEF Shaped

LEMMA DictShaped == ASSUME NEW o, IsDict(o), o.type = "MDICT"
                    PROVE  Shaped(o) /\ o.type # "FREE"
BY DEF Shaped

LEMMA AppendStep ==
  ASSUME ObjectAssumption, ObjectInv, ~damaged, NEW a \in Live("MARRAY"), NEW x \in owned, marray_append(a, x)
  PROVE  ObjectInv'
<1>1. PICK o : o = appended(heap[a], x)
  OBVIOUS
<1>2. a \in Alive(heap) /\ x \in Id /\ heap[a].type = "MARRAY" /\ IsArray(heap[a])
  BY InvIs
<1>3. /\ CanResize(heap[a], heap[a].nused + 1) /\ a \notin Below(x, heap) /\ owned' = owned \ {x}
      /\ heap' = [heap EXCEPT ![a] = o] /\ UNCHANGED damaged
  BY <1>1 DEF marray_append, give
<1>4. /\ Shaped(o) /\ o.type # "FREE" /\ Held(o) = Held(heap[a]) \cup {x}
      /\ Once(heap[a]) /\ x \notin Held(heap[a]) => Once(o)
  BY <1>1, <1>2, <1>3, AppendedIs, ArrayShaped
<1> QED
  BY <1>2, <1>3, <1>4, GiveStep

LEMMA PrependStep ==
  ASSUME ObjectAssumption, ObjectInv, ~damaged, NEW a \in Live("MARRAY"), NEW x \in owned, marray_prepend(a, x)
  PROVE  ObjectInv'
<1>1. PICK o : o = prepended(heap[a], x)
  OBVIOUS
<1>2. a \in Alive(heap) /\ x \in Id /\ heap[a].type = "MARRAY" /\ IsArray(heap[a])
  BY InvIs
<1>3. /\ CanResize(heap[a], heap[a].nused + 1) /\ a \notin Below(x, heap) /\ owned' = owned \ {x}
      /\ heap' = [heap EXCEPT ![a] = o] /\ UNCHANGED damaged
  BY <1>1 DEF marray_prepend, give
<1>4. /\ Shaped(o) /\ o.type # "FREE" /\ Held(o) = Held(heap[a]) \cup {x}
      /\ Once(heap[a]) /\ x \notin Held(heap[a]) => Once(o)
  BY <1>1, <1>2, <1>3, PrependedIs, ArrayShaped
<1> QED
  BY <1>2, <1>3, <1>4, GiveStep

LEMMA InsertStep ==
  ASSUME ObjectAssumption, ObjectInv, ~damaged, NEW d \in Live("MDICT"), NEW key \in Key, NEW x \in owned,
         mdict_insert(d, key, x)
  PROVE  ObjectInv'
<1>1. PICK o : o = inserted(heap[d], key, x)
  OBVIOUS
<1>2. d \in Alive(heap) /\ x \in Id /\ heap[d].type = "MDICT" /\ IsDict(heap[d])
  BY InvIs
<1>3. /\ ~Has(heap[d], key) /\ d \notin Below(x, heap) /\ owned' = owned \ {x}
      /\ heap' = [heap EXCEPT ![d] = o] /\ UNCHANGED damaged
  BY <1>1 DEF mdict_insert, give
<1>4. /\ Shaped(o) /\ o.type # "FREE" /\ Held(o) = Held(heap[d]) \cup {x}
      /\ Once(heap[d]) /\ x \notin Held(heap[d]) => Once(o)
  BY <1>1, <1>2, <1>3, InsertedIs, DictShaped
<1> QED
  BY <1>2, <1>3, <1>4, GiveStep

LEMMA AppendNewStep ==
  ASSUME ObjectAssumption, ObjectInv, ~damaged, NEW a \in Live("MARRAY"), NEW type \in Type,
         marray_append_new(a, type)
  PROVE  ObjectInv'
<1>1. PICK i \in Fresh : heap' = [heap EXCEPT ![i] = Empty(type), ![a] = appended(heap[a], i)]
  <2>1. PICK i \in Fresh : heap' = [heap EXCEPT ![i] = Empty(type), ![a] = appended(@, i)]
    BY DEF marray_append_new
  <2>2. i # a
    BY InvIs
  <2> QED
    BY <2>1, <2>2
<1>2. a \in Alive(heap) /\ i \in Id /\ heap[a].type = "MARRAY" /\ IsArray(heap[a])
  BY InvIs
<1>3. PICK o : o = appended(heap[a], i)
  OBVIOUS
<1>4. CanResize(heap[a], heap[a].nused + 1) /\ UNCHANGED <<owned, damaged>>
  BY DEF marray_append_new
<1>5. /\ Shaped(o) /\ o.type # "FREE" /\ Held(o) = Held(heap[a]) \cup {i}
      /\ Once(heap[a]) /\ i \notin Held(heap[a]) => Once(o)
  BY <1>2, <1>3, <1>4, AppendedIs, ArrayShaped
<1> QED
  BY <1>1, <1>2, <1>3, <1>4, <1>5, GiveNewStep

LEMMA PrependNewStep ==
  ASSUME ObjectAssumption, ObjectInv, ~damaged, NEW a \in Live("MARRAY"), NEW type \in Type,
         marray_prepend_new(a, type)
  PROVE  ObjectInv'
<1>1. PICK i \in Fresh : heap' = [heap EXCEPT ![i] = Empty(type), ![a] = prepended(heap[a], i)]
  <2>1. PICK i \in Fresh : heap' = [heap EXCEPT ![i] = Empty(type), ![a] = prepended(@, i)]
    BY DEF marray_prepend_new
  <2>2. i # a
    BY InvIs
  <2> QED
    BY <2>1, <2>2
<1>2. a \in Alive(heap) /\ i \in Id /\ heap[a].type = "MARRAY" /\ IsArray(heap[a])
  BY InvIs
<1>3. PICK o : o = prepended(heap[a], i)
  OBVIOUS
<1>4. CanResize(heap[a], heap[a].nused + 1) /\ UNCHANGED <<owned, damaged>>
  BY DEF marray_prepend_new
<1>5. /\ Shaped(o) /\ o.type # "FREE" /\ Held(o) = Held(heap[a]) \cup {i}
      /\ Once(heap[a]) /\ i \notin Held(heap[a]) => Once(o)
  BY <1>2, <1>3, <1>4, PrependedIs, ArrayShaped
<1> QED
  BY <1>1, <1>2, <1>3, <1>4, <1>5, GiveNewStep

LEMMA InsertNewStep ==
  ASSUME ObjectAssumption, ObjectInv, ~damaged, NEW d \in Live("MDICT"), NEW key \in Key, NEW type \in Type,
         mdict_insert_new(d, key, type)
  PROVE  ObjectInv'
<1>1. PICK i \in Fresh : heap' = [heap EXCEPT ![i] = Empty(type), ![d] = inserted(heap[d], key, i)]
  <2>1. PICK i \in Fresh : heap' = [heap EXCEPT ![i] = Empty(type), ![d] = inserted(@, key, i)]
    BY DEF mdict_insert_new
  <2>2. i # d
    BY InvIs
  <2> QED
    BY <2>1, <2>2
<1>2. d \in Alive(heap) /\ i \in Id /\ heap[d].type = "MDICT" /\ IsDict(heap[d])
  BY InvIs
<1>3. PICK o : o = inserted(heap[d], key, i)
  OBVIOUS
<1>4. ~Has(heap[d], key) /\ UNCHANGED <<owned, damaged>>
  BY DEF mdict_insert_new
<1>5. /\ Shaped(o) /\ o.type # "FREE" /\ Held(o) = Held(heap[d]) \cup {i}
      /\ Once(heap[d]) /\ i \notin Held(heap[d]) => Once(o)
  BY <1>2, <1>3, <1>4, InsertedIs, DictShaped
<1> QED
  BY <1>1, <1>2, <1>3, <1>4, <1>5, GiveNewStep

LEMMA PopStep ==
  ASSUME ObjectAssumption, ObjectInv, ~damaged, NEW a \in Live("MARRAY"), marray_pop(a)
  PROVE  ObjectInv'
<1>1. PICK t, o : t = heap[a].entries[heap[a].nused] /\ o = popped(heap[a])
  OBVIOUS
<1>2. a \in Alive(heap) /\ heap[a].type = "MARRAY" /\ IsArray(heap[a])
  BY InvIs
<1>3. heap[a].nused > 0 /\ take(t) /\ heap' = [heap EXCEPT ![a] = o] /\ UNCHANGED damaged
  BY <1>1 DEF marray_pop
<1>4. /\ Shaped(o) /\ o.type # "FREE" /\ t \in Id \cup {NONE}
      /\ t \in Id /\ Once(heap[a]) => t \in Held(heap[a]) /\ Held(o) = Held(heap[a]) \ {t} /\ Once(o)
      /\ t \notin Id => Held(o) = Held(heap[a]) /\ (Once(heap[a]) => Once(o))
  BY <1>1, <1>2, <1>3, PoppedIs, ArrayShaped
<1> QED
  BY <1>2, <1>3, <1>4, TakeStep

LEMMA PullStep ==
  ASSUME ObjectAssumption, ObjectInv, ~damaged, NEW a \in Live("MARRAY"), marray_pull(a)
  PROVE  ObjectInv'
<1>1. PICK t, o : t = heap[a].entries[1] /\ o = pulled(heap[a])
  OBVIOUS
<1>2. a \in Alive(heap) /\ heap[a].type = "MARRAY" /\ IsArray(heap[a])
  BY InvIs
<1>3. heap[a].nused > 0 /\ take(t) /\ heap' = [heap EXCEPT ![a] = o] /\ UNCHANGED damaged
  BY <1>1 DEF marray_pull
<1>4. /\ Shaped(o) /\ o.type # "FREE" /\ t \in Id \cup {NONE}
      /\ t \in Id /\ Once(heap[a]) => t \in Held(heap[a]) /\ Held(o) = Held(heap[a]) \ {t} /\ Once(o)
      /\ t \notin Id => Held(o) = Held(heap[a]) /\ (Once(heap[a]) => Once(o))
  BY <1>1, <1>2, <1>3, PulledIs, ArrayShaped
<1> QED
  BY <1>2, <1>3, <1>4, TakeStep

LEMMA RemoveStep ==
  ASSUME ObjectAssumption, ObjectInv, ~damaged, NEW d \in Live("MDICT"), NEW key \in Key, mdict_remove(d, key)
  PROVE  ObjectInv'
<1>1. PICK v, o : v = Value(heap[d], key) /\ o = removed(heap[d], key)
  OBVIOUS
<1>2. d \in Alive(heap) /\ heap[d].type = "MDICT" /\ IsDict(heap[d])
  BY InvIs
<1>3. Has(heap[d], key) /\ take(v) /\ heap' = [heap EXCEPT ![d] = o] /\ UNCHANGED damaged
  BY <1>1 DEF mdict_remove
<1>4. /\ Shaped(o) /\ o.type # "FREE" /\ v \in Id
      /\ Once(heap[d]) => v \in Held(heap[d]) /\ Held(o) = Held(heap[d]) \ {v} /\ Once(o)
  BY <1>1, <1>2, <1>3, RemovedIs, DictShaped
<1> QED
  BY <1>2, <1>3, <1>4, TakeStep

(* Once an object was freed that is held elsewhere, the shapes are all     *)
(* that is left.                                                           *)
LEMMA DamagedInv ==
  ASSUME ObjectInv, NEW y, NEW c, NEW o, Shaped(o), NEW i, NEW e, Shaped(e),
         \/ heap' = [mobject_free(y, heap) EXCEPT ![c] = o]
         \/ heap' = [mobject_free(y, heap) EXCEPT ![c] = o, ![i] = e],
         owned' \subseteq Id, damaged' = TRUE
  PROVE  ObjectInv'
<1> DEFINE h == mobject_free(y, heap)
<1>1. h = [j \in Id |-> h[j]] /\ \A j \in Id : Shaped(h[j])
  BY FreeShapes DEF ObjectInv
<1>2. heap' = [h EXCEPT ![c] = o] \/ heap' = [h EXCEPT ![c] = o, ![i] = e]
  OBVIOUS
<1> HIDE DEF h
<1>3. heap' = [j \in Id |-> heap'[j]] /\ \A j \in Id : heap'[j] \in {o, e, h[j]}
  BY <1>1, <1>2
<1>4. \A j \in Id : Shaped(heap'[j])
  BY <1>1, <1>3
<1> QED
  BY <1>3, <1>4 DEF ObjectInv

LEMMA SlotIs ==
  ASSUME ObjectAssumption, NEW o, o.type = "MARRAY", IsArray(o), NEW ndx \in Nat,
         CanResize(o, ndx + 1), NEW r, r = filled(o, ndx)
  PROVE  r.entries[ndx + 1] \in Slot
<1>1. ndx + 1 < r.nalloc /\ r.nalloc \in Nat /\ r.entries \in [1..r.nalloc -> Slot]
  BY FilledIs
<1> QED
  BY <1>1

LEMMA SetStep ==
  ASSUME ObjectAssumption, ObjectInv, ~damaged, NEW a \in Live("MARRAY"), NEW ndx \in 0..2, NEW x \in owned,
         marray_set(a, ndx, x)
  PROVE  ObjectInv'
<1>1. PICK r, y, c, d : /\ r = filled(heap[a], ndx) /\ y = r.entries[ndx + 1]
                        /\ c = stored(r, ndx, NONE) /\ d = stored(r, ndx, x)
  OBVIOUS
<1>2. /\ a \in Alive(heap) /\ x \in Id /\ heap[a].type = "MARRAY" /\ IsArray(heap[a])
      /\ Once(heap[a]) /\ ndx \in Nat /\ owned \subseteq Id
  BY InvIs
<1>3. /\ CanResize(heap[a], ndx + 1) /\ a \notin Below(x, heap) /\ owned' = owned \ {x}
      /\ heap' = [mobject_free(y, heap) EXCEPT ![a] = d]
      /\ damaged' = (ndx >= r.nused /\ y \in Id)
  BY <1>1 DEF marray_set, give
<1>4. /\ IsArray(c) /\ c.type = "MARRAY" /\ IsArray(d) /\ d.type = "MARRAY"
      /\ Held(d) = Held(c) \cup {x} /\ (Once(c) /\ x \notin Held(c) => Once(d))
      /\ ndx < r.nused /\ y \in Id => y \in Held(heap[a]) /\ Held(c) = Held(heap[a]) \ {y} /\ Once(c)
      /\ ~(ndx < r.nused /\ y \in Id) => Held(c) = Held(heap[a]) /\ Once(c)
  BY <1>1, <1>2, <1>3, SetIs
<1>5. y \in Slot /\ r.nused \in Nat
  <2>1. r.nused = heap[a].nused /\ heap[a].nused \in Nat
    BY <1>1, <1>2, <1>3, FilledIs, ArrayParts
  <2> QED
    BY <1>1, <1>2, <1>3, <2>1, SlotIs
<1>6. Shaped(c) /\ c.type # "FREE" /\ Shaped(d) /\ d.type # "FREE"
  BY <1>4, ArrayShaped
<1>7. CASE ndx >= r.nused /\ y \in Id
  <2>1. damaged' = TRUE /\ owned' \subseteq Id
    BY <1>2, <1>3, <1>7
  <2> QED
    BY <1>3, <1>6, <2>1, DamagedInv
<1>8. CASE ~(ndx >= r.nused /\ y \in Id)
  <2>1. damaged' = FALSE
    BY <1>3, <1>8
  <2>2. \/ y \in Held(heap[a]) /\ Held(c) = Held(heap[a]) \ {y}
        \/ y \in {Null, NONE} /\ Held(c) = Held(heap[a])
    BY <1>2, <1>4, <1>5, <1>8 DEF Slot
  <2>3. Once(c)
    BY <1>4
  <2> QED
    BY <1>2, <1>3, <1>4, <1>6, <2>1, <2>2, <2>3, DropGiveStep
<1> QED
  BY <1>7, <1>8

LEMMA SetNewStep ==
  ASSUME ObjectAssumption, ObjectInv, ~damaged, NEW a \in Live("MARRAY"), NEW ndx \in 0..2, NEW type \in Type,
         marray_set_new(a, ndx, type)
  PROVE  ObjectInv'
<1>1. PICK r, y, c : r = filled(heap[a], ndx) /\ y = r.entries[ndx + 1] /\ c = stored(r, ndx, NONE)
  OBVIOUS
<1>2. PICK i \in Fresh :
        /\ heap' = [mobject_free(y, heap) EXCEPT ![a] = stored(r, ndx, i), ![i] = Empty(type)]
        /\ damaged' = (ndx >= r.nused /\ y \in Id)
  BY <1>1 DEF marray_set_new
<1>3. PICK d, e : d = stored(r, ndx, i) /\ e = Empty(type)
  OBVIOUS
<1>4. /\ a \in Alive(heap) /\ i \in Id /\ heap[a].type = "MARRAY" /\ IsArray(heap[a])
      /\ Once(heap[a]) /\ ndx \in Nat /\ owned \subseteq Id
  BY InvIs
<1>5. CanResize(heap[a], ndx + 1) /\ UNCHANGED owned
  BY DEF marray_set_new
<1>6. /\ IsArray(c) /\ c.type = "MARRAY" /\ IsArray(d) /\ d.type = "MARRAY"
      /\ Held(d) = Held(c) \cup {i} /\ (Once(c) /\ i \notin Held(c) => Once(d))
      /\ ndx < r.nused /\ y \in Id => y \in Held(heap[a]) /\ Held(c) = Held(heap[a]) \ {y} /\ Once(c)
      /\ ~(ndx < r.nused /\ y \in Id) => Held(c) = Held(heap[a]) /\ Once(c)
  BY <1>1, <1>3, <1>4, <1>5, SetIs
<1>7. y \in Slot /\ r.nused \in Nat
  <2>1. r.nused = heap[a].nused /\ heap[a].nused \in Nat
    BY <1>1, <1>4, <1>5, FilledIs, ArrayParts
  <2> QED
    BY <1>1, <1>4, <1>5, <2>1, SlotIs
<1>8. Shaped(c) /\ c.type # "FREE" /\ Shaped(d) /\ d.type # "FREE"
  BY <1>6, ArrayShaped
<1>9. Shaped(e) /\ e.type # "FREE" /\ Held(e) = {} /\ Once(e)
  BY <1>3, EmptyIs
<1>10. heap' = [mobject_free(y, heap) EXCEPT ![a] = d, ![i] = e]
  BY <1>2, <1>3
<1>11. CASE ndx >= r.nused /\ y \in Id
  <2>1. damaged' = TRUE /\ owned' \subseteq Id
    BY <1>2, <1>4, <1>5, <1>11
  <2> QED
    BY <1>8, <1>9, <1>10, <2>1, DamagedInv
<1>12. CASE ~(ndx >= r.nused /\ y \in Id)
  <2>1. damaged' = FALSE
    BY <1>2, <1>12
  <2>2. \/ y \in Held(heap[a]) /\ Held(c) = Held(heap[a]) \ {y}
        \/ y \in {Null, NONE} /\ Held(c) = Held(heap[a])
    BY <1>4, <1>6, <1>7, <1>12 DEF Slot
  <2>3. Once(c)
    BY <1>6
  <2> QED
    BY <1>4, <1>5, <1>6, <1>8, <1>9, <1>10, <2>1, <2>2, <2>3, DropGiveNewStep
<1> QED
  BY <1>11, <1>12

(* What mdict_replace() frees: the value that the key had. *)
LEMMA DroppedIs ==
  ASSUME ObjectAssumption, NEW o, o.type = "MDICT", IsDict(o), NEW key, Once(o),
         NEW y, y = (IF Has(o, key) THEN Value(o, key) ELSE Null),
         NEW c, c = (IF Has(o, key) THEN removed(o, key) ELSE o)
  PROVE  Once(c) /\ \/ y \in Held(o) /\ Held(c) = Held(o) \ {y}
                    \/ y \in {Null, NONE} /\ Held(c) = Held(o)
<1>1. CASE Has(o, key)
  BY <1>1, RemovedIs
<1>2. CASE ~Has(o, key)
  BY <1>2
<1> QED
  BY <1>1, <1>2

LEMMA ReplaceStep ==
  ASSUME ObjectAssumption, ObjectInv, ~damaged, NEW d \in Live("MDICT"), NEW key \in Key, NEW x \in owned,
         mdict_replace(d, key, x)
  PROVE  ObjectInv'
<1>1. PICK y, c, o : /\ y = IF Has(heap[d], key) THEN Value(heap[d], key) ELSE Null
                     /\ c = IF Has(heap[d], key) THEN removed(heap[d], key) ELSE heap[d]
                     /\ o = replaced(heap[d], key, x)
  OBVIOUS
<1>2. /\ d \in Alive(heap) /\ x \in Id /\ heap[d].type = "MDICT" /\ IsDict(heap[d])
      /\ Once(heap[d]) /\ damaged = FALSE
  BY InvIs
<1>3. /\ d \notin Below(x, heap) /\ owned' = owned \ {x} /\ damaged' = FALSE
      /\ heap' = [mobject_free(y, heap) EXCEPT ![d] = o]
  BY <1>1, <1>2 DEF mdict_replace, give
<1>4. /\ IsDict(c) /\ c.type = "MDICT" /\ IsDict(o) /\ o.type = "MDICT"
      /\ Held(o) = Held(c) \cup {x} /\ (Once(c) /\ x \notin Held(c) => Once(o))
  BY <1>1, <1>2, ReplacedIs
<1>5. Once(c) /\ \/ y \in Held(heap[d]) /\ Held(c) = Held(heap[d]) \ {y}
                 \/ y \in {Null, NONE} /\ Held(c) = Held(heap[d])
  BY <1>1, <1>2, DroppedIs
<1>6. c.type # "FREE" /\ Shaped(o) /\ o.type # "FREE"
  BY <1>4, DictShaped
<1> QED
  BY <1>2, <1>3, <1>4, <1>5, <1>6, DropGiveStep

LEMMA ReplaceNewStep ==
  ASSUME ObjectAssumption, ObjectInv, ~damaged, NEW d \in Live("MDICT"), NEW key \in Key, NEW type \in Type,
         mdict_replace_new(d, key, type)
  PROVE  ObjectInv'
<1>1. PICK y, c : /\ y = IF Has(heap[d], key) THEN Value(heap[d], key) ELSE Null
                  /\ c = IF Has(heap[d], key) THEN removed(heap[d], key) ELSE heap[d]
  OBVIOUS
<1>2. PICK i \in Fresh :
        heap' = [mobject_free(y, heap) EXCEPT ![i] = Empty(type), ![d] = replaced(heap[d], key, i)]
  BY <1>1 DEF mdict_replace_new
<1>3. PICK o, e : o = replaced(heap[d], key, i) /\ e = Empty(type)
  OBVIOUS
<1>4. /\ d \in Alive(heap) /\ i \in Id /\ heap[d].type = "MDICT" /\ IsDict(heap[d])
      /\ Once(heap[d]) /\ damaged = FALSE
  BY InvIs
<1>5. UNCHANGED owned /\ damaged' = FALSE
  BY <1>4 DEF mdict_replace_new
<1>6. /\ IsDict(c) /\ c.type = "MDICT" /\ IsDict(o) /\ o.type = "MDICT"
      /\ Held(o) = Held(c) \cup {i} /\ (Once(c) /\ i \notin Held(c) => Once(o))
  BY <1>1, <1>3, <1>4, ReplacedIs
<1>7. Once(c) /\ \/ y \in Held(heap[d]) /\ Held(c) = Held(heap[d]) \ {y}
                 \/ y \in {Null, NONE} /\ Held(c) = Held(heap[d])
  BY <1>1, <1>4, DroppedIs
<1>8. c.type # "FREE" /\ Shaped(o) /\ o.type # "FREE"
  BY <1>6, DictShaped
<1>9. Shaped(e) /\ e.type # "FREE" /\ Held(e) = {} /\ Once(e)
  BY <1>3, EmptyIs
<1>10. heap' = [mobject_free(y, heap) EXCEPT ![i] = e, ![d] = o]
  BY <1>2, <1>3
<1> QED
  BY <1>4, <1>5, <1>6, <1>7, <1>8, <1>9, <1>10, DropGiveNewStep

(* Counting an entry off once more changes nothing of what is held. *)
LEMMA CountedOff ==
  ASSUME ObjectAssumption, NEW o, o.type = "MDICT", IsDict(o),
         NEW o2, o2 = [o EXCEPT !.num_entries = (@ - 1) % SIZE_MOD]
  PROVE  IsDict(o2) /\ o2.type = "MDICT" /\ Held(o2) = Held(o) /\ (Once(o) => Once(o2))
<1>1. /\ Len(o.entries) \in Nat /\ o.entries \in [1..Len(o.entries) -> Element]
      /\ \A j, k \in 1..Len(o.entries) : o.entries[j].key = o.entries[k].key => j = k
      /\ o.num_entries \in Int
      /\ Used(o) = 1..Len(o.entries) /\ Typed(o) /\ \A k : Item(o, k) = o.entries[k].value
  BY DictParts
<1>2. PICK l, e, n : l = Len(o.entries) /\ e = o.entries /\ n = (o.num_entries - 1) % SIZE_MOD
  OBVIOUS
<1>3. n \in 0..(SIZE_MOD - 1)
  BY <1>1, <1>2, Modulo
<1>4. o2 = Changed2(o, e, n)
  <2>1. o = [type |-> "MDICT", entries |-> o.entries, num_entries |-> o.num_entries]
    BY DEF IsDict
  <2>2. PICK s, v : s = o.entries /\ v = o.num_entries
    OBVIOUS
  <2>3. o = [type |-> "MDICT", entries |-> s, num_entries |-> v] /\ s = e
    BY ONLY <2>1, <2>2, <1>2
  <2>4. o2 = [o EXCEPT !.num_entries = n]
    BY <1>2
  <2>5. o2 = [type |-> "MDICT", entries |-> e, num_entries |-> n]
    BY ONLY <2>3, <2>4
  <2>6. Changed2(o, e, n) = [type |-> "MDICT", entries |-> e, num_entries |-> n]
    <3>1. o = [type |-> "MDICT", entries |-> s, num_entries |-> v]
      BY ONLY <2>3
    <3>2. PICK w : w = Changed2(o, e, n)
      OBVIOUS
    <3>3. w = [type |-> "MDICT", entries |-> e, num_entries |-> n]
      BY ONLY <3>1, <3>2 DEF Changed2
    <3> QED
      BY ONLY <3>2, <3>3
  <2> QED
    BY ONLY <2>5, <2>6
<1>5. /\ l \in Nat /\ e \in [1..l -> Element]
      /\ \A j, k \in 1..l : e[j].key = e[k].key => j = k
  BY <1>1, <1>2
<1>6. DictOf(o2, e)
  BY ONLY ObjectAssumption, IsDict(o), <1>3, <1>4, <1>5, DictChanged
<1>7. IsDict(o2) /\ o2.type = "MDICT" /\ o2.entries = o.entries
  BY <1>2, <1>6 DEF DictOf
<1>8. Used(o2) = Used(o) /\ Typed(o2) /\ \A k : Item(o2, k) = Item(o, k)
  <2>1. Used(o2) = 1..Len(o2.entries) /\ Typed(o2) /\ \A k : Item(o2, k) = o2.entries[k].value
    BY ONLY ObjectAssumption, <1>7, DictParts
  <2>2. Used(o2) = Used(o) /\ Typed(o2)
    BY ONLY <1>1, <1>7, <2>1
  <2>3. \A k : Item(o2, k) = Item(o, k)
    BY ONLY <1>1, <1>7, <2>1
  <2> QED
    BY ONLY <2>2, <2>3
<1>9. Held(o2) = Held(o) /\ (Once(o2) <=> Once(o))
  BY <1>1, <1>8, SameHeld
<1> QED
  BY <1>7, <1>9

LEMMA DeleteStep ==
  ASSUME ObjectAssumption, ObjectInv, ~damaged, NEW d \in Live("MDICT"), NEW key \in Key, mdict_delete(d, key)
  PROVE  ObjectInv'
<1>1. PICK v, r, o : /\ v = Value(heap[d], key) /\ r = removed(heap[d], key)
                     /\ o = [r EXCEPT !.num_entries = (@ - 1) % SIZE_MOD]
  OBVIOUS
<1>2. /\ d \in Alive(heap) /\ d \in Id /\ heap[d].type = "MDICT" /\ IsDict(heap[d])
      /\ heap = [i \in Id |-> heap[i]] /\ damaged = FALSE /\ Owned(heap, owned)
      /\ Once(heap[d]) /\ \A i \in Id : Shaped(heap[i])
  BY InvIs
<1>3. /\ Has(heap[d], key) /\ heap' = [mobject_free(v, heap) EXCEPT ![d] = o]
      /\ UNCHANGED owned /\ damaged' = FALSE
  BY <1>1, <1>2 DEF mdict_delete
<1>4. /\ IsDict(r) /\ r.type = "MDICT" /\ v \in Held(heap[d])
      /\ Held(r) = Held(heap[d]) \ {v} /\ Once(r)
  BY <1>1, <1>2, <1>3, RemovedIs
<1>5. IsDict(o) /\ o.type = "MDICT" /\ Held(o) = Held(heap[d]) \ {v} /\ Once(o)
  BY <1>1, <1>4, CountedOff
<1>6. Shaped(o) /\ o.type # "FREE"
  BY <1>5, DictShaped
<1>7. /\ mobject_free(v, heap) = [i \in Id |-> mobject_free(v, heap)[i]]
      /\ \A i \in Id : Shaped(mobject_free(v, heap)[i])
  BY <1>2, FreeShapes
<1>8. heap' = [i \in Id |-> heap'[i]] /\ \A i \in Id : heap'[i] = IF i = d THEN o ELSE mobject_free(v, heap)[i]
  <2>1. PICK g : g = mobject_free(v, heap)
    OBVIOUS
  <2> QED
    BY ONLY <1>3, <1>7, <2>1
<1>9. Owned(heap', owned)
  BY <1>2, <1>4, <1>5, <1>6, <1>8, DropKeeps
<1>10. \A i \in Id : Shaped(heap'[i])
  BY <1>6, <1>7, <1>8
<1> QED
  BY <1>3, <1>8, <1>9, <1>10, StillInv

LEMMA CreateStep ==
  ASSUME ObjectAssumption, ObjectInv, ~damaged, NEW type \in Type, create(type)
  PROVE  ObjectInv'
<1>1. PICK i \in Fresh : heap' = [heap EXCEPT ![i] = Empty(type)] /\ owned' = owned \cup {i}
  BY DEF create
<1>2. /\ i \in Id /\ heap[i].type = "FREE"
      /\ heap = [j \in Id |-> heap[j]] /\ damaged = FALSE /\ Owned(heap, owned)
      /\ \A j \in Id : Shaped(heap[j])
  BY InvIs
<1>3. PICK e : e = Empty(type)
  OBVIOUS
<1>4. Shaped(e) /\ e.type # "FREE" /\ Held(e) = {} /\ Once(e)
  BY <1>3, EmptyIs
<1>5. heap' = [j \in Id |-> heap'[j]] /\ \A j \in Id : heap'[j] = IF j = i THEN e ELSE heap[j]
  BY <1>1, <1>2, <1>3
<1>6. Owned(heap', owned \cup {i})
  BY <1>2, <1>4, <1>5, CreateKeeps
<1>7. \A j \in Id : Shaped(heap'[j])
  BY <1>2, <1>4, <1>5
<1>8. damaged' = FALSE
  BY <1>2 DEF create
<1> QED
  BY <1>1, <1>5, <1>6, <1>7, <1>8, StillInv

LEMMA FreeStep ==
  ASSUME ObjectAssumption, ObjectInv, ~damaged, NEW x \in owned, free(x)
  PROVE  ObjectInv'
<1>1. /\ damaged = FALSE /\ Owned(heap, owned) /\ \A j \in Id : Shaped(heap[j])
  BY InvIs
<1>2. heap' = mobject_free(x, heap) /\ owned' = owned \ {x} /\ damaged' = FALSE
  BY <1>1 DEF free
<1>3. Owned(heap', owned')
  BY <1>1, <1>2, FreeKeeps
<1>4. heap' = [i \in Id |-> heap'[i]] /\ \A i \in Id : Shaped(heap'[i])
  BY <1>1, <1>2, FreeShapes
<1> QED
  BY <1>2, <1>3, <1>4, StillInv

LEMMA CopyStep ==
  ASSUME ObjectAssumption, ObjectInv, ~damaged, NEW x \in owned, mobject_deepcopy(x)
  PROVE  ObjectInv'
<1>1. /\ damaged = FALSE /\ Owned(heap, owned) /\ x \in Id
      /\ \A j \in Id : Shaped(heap[j]) /\ Once(heap[j])
      /\ heap = [j \in Id |-> heap[j]]
  BY InvIs
<1>2. \A i \in Id : Held(heap[i]) \subseteq Id /\ Held(heap[i]) \subseteq Alive(heap)
  BY <1>1 DEF Owned, Alive
<1>3. PICK B, F : B = Below(x, heap) /\ F = Fresh
  OBVIOUS
<1>4. /\ B \in SUBSET Id /\ x \in B /\ Closed(B, heap)
      /\ \A S \in SUBSET Id : x \in S /\ Closed(S, heap) => B \subseteq S
  BY <1>1, <1>2, <1>3, BelowIs
<1>5. B \subseteq Alive(heap)
  <2>1. Closed(Alive(heap), heap) /\ Alive(heap) \in SUBSET Id /\ x \in Alive(heap)
    BY <1>1, <1>2 DEF Closed, Alive, Owned
  <2> QED
    BY <1>4, <2>1
<1>6. F \in SUBSET Id /\ F = {i \in Id : heap[i].type = "FREE"}
  BY <1>3 DEF Fresh, Live
<1>7. PICK f \in [B -> F] :
        /\ IsInjective(f)
        /\ heap' = [i \in Id |-> IF i \in Range(f) THEN copied(heap[Preimage(f, i)], f) ELSE heap[i]]
        /\ owned' = owned \cup {f[x]}
  BY <1>3 DEF mobject_deepcopy
<1>8. \A j, k \in B : f[j] = f[k] => j = k
  BY <1>7 DEF IsInjective
<1>9. \A i : i \in Range(f) <=> \E j \in B : i = f[j]
  BY DEF Range
<1>10. \A j \in B : Preimage(f, f[j]) = j
  BY <1>8 DEF Preimage
<1>11. ASSUME NEW j \in B
       PROVE  /\ heap'[f[j]].type # "FREE" /\ Once(heap'[f[j]]) /\ Shaped(heap'[f[j]])
              /\ Held(heap'[f[j]]) = {f[k] : k \in Held(heap[j])}
  <2>1. j \in Id /\ f[j] \in Id /\ f[j] \in Range(f) /\ Preimage(f, f[j]) = j
    BY <1>4, <1>6, <1>9, <1>10
  <2>2. heap'[f[j]] = copied(heap[j], f)
    BY <1>7, <2>1
  <2>3. heap[j].type # "FREE" /\ Held(heap[j]) \subseteq B /\ Shaped(heap[j]) /\ Once(heap[j])
    BY <1>1, <1>4, <1>5, <2>1 DEF Alive, Closed
  <2>4. PICK o, c : o = heap[j] /\ c = heap'[f[j]]
    OBVIOUS
  <2>5. /\ Shaped(c) /\ c.type = o.type
        /\ Held(c) = {f[k] : k \in Held(o)} /\ (Once(o) => Once(c))
    <3>1. Shaped(o) /\ Held(o) \subseteq B /\ c = copied(o, f)
      BY <2>2, <2>3, <2>4
    <3>2. B \in SUBSET Id /\ F \in SUBSET Id /\ f \in [B -> F]
      BY <1>4, <1>6
    <3>3. Shaped(c) /\ c.type = o.type
      BY ONLY ObjectAssumption, <1>8, <3>1, <3>2, CopiedIs
    <3>4. Held(c) = {f[k] : k \in Held(o)}
      BY ONLY ObjectAssumption, <1>8, <3>1, <3>2, CopiedIs
    <3>5. Once(o) => Once(c)
      BY ONLY ObjectAssumption, <1>8, <3>1, <3>2, CopiedIs
    <3> QED
      BY ONLY <3>3, <3>4, <3>5
  <2> QED
    BY <2>3, <2>4, <2>5
<1>12. \A i \in Id : (\A j \in B : i # f[j]) => heap'[i] = heap[i]
  BY <1>7, <1>9
<1>13. heap' = [i \in Id |-> heap'[i]]
  BY <1>7
<1>14. \A i \in Id : Shaped(heap'[i])
  <2> TAKE i \in Id
  <2>1. CASE \E j \in B : i = f[j]
    BY <1>11, <2>1
  <2>2. CASE \A j \in B : i # f[j]
    BY <1>1, <1>12, <2>2
  <2> QED
    BY <2>1, <2>2
<1>15. Owned(heap', owned \cup {f[x]})
  <2>1. f \in [Below(x, heap) -> {i \in Id : heap[i].type = "FREE"}]
    BY <1>3, <1>6
  <2>2. /\ \A j, k \in Below(x, heap) : f[j] = f[k] => j = k
        /\ \A i \in Id : (\A j \in Below(x, heap) : i # f[j]) => heap'[i] = heap[i]
        /\ \A j \in Below(x, heap) :
             /\ heap'[f[j]].type # "FREE" /\ Once(heap'[f[j]])
             /\ Held(heap'[f[j]]) = {f[k] : k \in Held(heap[j])}
    BY <1>3, <1>8, <1>11, <1>12
  <2>3. Owned(heap, owned) /\ x \in owned
    BY <1>1
  <2> QED
    BY ONLY ObjectAssumption, <2>1, <2>2, <2>3, CopyKeeps
<1>16. damaged' = FALSE
  BY <1>1 DEF mobject_deepcopy
<1> QED
  BY <1>7, <1>13, <1>14, <1>15, <1>16, StillInv

LEMMA InitInv == ASSUME ObjectAssumption, ObjectInit PROVE ObjectInv
<1>1. \A i \in Id : heap[i] = Gone
  BY DEF ObjectInit
<1>2. heap = [i \in Id |-> heap[i]] /\ owned = {} /\ damaged = FALSE
  BY DEF ObjectInit
<1>3. Gone.type = "FREE" /\ Held(Gone) = {} /\ Once(Gone) /\ Shaped(Gone)
  BY DEF Gone, Held, Once, Count, Shaped
<1>4. Alive(heap) = {}
  BY <1>1, <1>3 DEF Alive
<1>5. Owned(heap, owned)
  BY <1>1, <1>2, <1>3, <1>4 DEF Owned
<1> QED
  BY <1>1, <1>2, <1>3, <1>5 DEF ObjectInv

LEMMA ArrayKeeps ==
  ASSUME ObjectAssumption, ObjectInv, ~damaged, NEW a \in Live("MARRAY"), ArrayCall(a)
  PROVE  ObjectInv'
<1>1. ASSUME NEW type \in Type, marray_append_new(a, type) \/ marray_prepend_new(a, type)
      PROVE  ObjectInv'
  BY <1>1, AppendNewStep, PrependNewStep
<1>2. ASSUME NEW type \in Type, NEW ndx \in 0..2, marray_set_new(a, ndx, type)
      PROVE  ObjectInv'
  BY <1>2, SetNewStep
<1>3. ASSUME NEW x \in owned, marray_append(a, x) \/ marray_prepend(a, x)
      PROVE  ObjectInv'
  BY <1>3, AppendStep, PrependStep
<1>4. ASSUME NEW x \in owned, NEW ndx \in 0..2, marray_set(a, ndx, x)
      PROVE  ObjectInv'
  BY <1>4, SetStep
<1>5. CASE marray_pop(a) \/ marray_pull(a)
  BY <1>5, PopStep, PullStep
<1> QED
  BY <1>1, <1>2, <1>3, <1>4, <1>5 DEF ArrayCall

LEMMA DictKeeps ==
  ASSUME ObjectAssumption, ObjectInv, ~damaged, NEW d \in Live("MDICT"), DictCall(d)
  PROVE  ObjectInv'
<1>1. PICK key \in Key :
        \/ \E x \in owned : mdict_insert(d, key, x) \/ mdict_replace(d, key, x)
        \/ mdict_remove(d, key) \/ mdict_delete(d, key)
        \/ \E type \in Type : mdict_insert_new(d, key, type) \/ mdict_replace_new(d, key, type)
  BY DEF DictCall
<1>2. ASSUME NEW x \in owned, mdict_insert(d, key, x) \/ mdict_replace(d, key, x)
      PROVE  ObjectInv'
  BY <1>2, InsertStep, ReplaceStep
<1>3. CASE mdict_remove(d, key) \/ mdict_delete(d, key)
  BY <1>3, RemoveStep, DeleteStep
<1>4. ASSUME NEW type \in Type, mdict_insert_new(d, key, type) \/ mdict_replace_new(d, key, type)
      PROVE  ObjectInv'
  BY <1>4, InsertNewStep, ReplaceNewStep
<1> QED
  BY <1>1, <1>2, <1>3, <1>4

LEMMA NextKeeps ==
  ASSUME ObjectAssumption, ObjectInv, [ObjectNext]_object_vars
  PROVE  ObjectInv'
<1>1. CASE UNCHANGED object_vars
  <2>1. heap' = heap /\ owned' = owned /\ damaged' = damaged
    BY <1>1 DEF object_vars
  <2> QED
    BY <2>1 DEF ObjectInv
<1>2. CASE ObjectNext
  <2>1. ~damaged
    BY <1>2 DEF ObjectNext
  <2>2. ASSUME NEW type \in Type, create(type)
        PROVE  ObjectInv'
    BY <2>1, <2>2, CreateStep
  <2>3. ASSUME NEW a \in Live("MARRAY"), ArrayCall(a)
        PROVE  ObjectInv'
    BY <2>1, <2>3, ArrayKeeps
  <2>4. ASSUME NEW d \in Live("MDICT"), DictCall(d)
        PROVE  ObjectInv'
    BY <2>1, <2>4, DictKeeps
  <2>5. ASSUME NEW x \in owned, free(x) \/ mobject_deepcopy(x)
        PROVE  ObjectInv'
    BY <2>1, <2>5, FreeStep, CopyStep
  <2> QED
    BY <1>2, <2>2, <2>3, <2>4, <2>5 DEF ObjectNext
<1> QED
  BY <1>1, <1>2

-----------------------------------------------------------------------------
LEMMA ShapesHold ==
  ASSUME ObjectAssumption, ObjectInv
  PROVE  ObjectTypeOK /\ KeysDiffer
<1>1. Gone.type = "FREE" /\ Number.type = "MINT"
  BY DEF Gone, Number
<1>2. ASSUME NEW a \in Live("MARRAY")
      PROVE  /\ heap[a].nused <= heap[a].nalloc /\ heap[a].nalloc < MARRAY_MAX
             /\ Len(heap[a].entries) = heap[a].nalloc
  <2>1. a \in Id /\ heap[a].type = "MARRAY" /\ IsArray(heap[a])
    BY <1>1 DEF Live, ObjectInv, Shaped
  <2>2. PICK n, u, e : n = heap[a].nalloc /\ u = heap[a].nused /\ e = heap[a].entries
    OBVIOUS
  <2>3. n \in Size \cup {0} /\ u \in Nat /\ (u < n \/ u = 0) /\ e \in [1..n -> Slot]
    BY <2>1, <2>2 DEF IsArray
  <2>4. MARRAY_MAX \in Nat /\ 0 < MARRAY_MAX
    BY DEF ObjectAssumption
  <2>5. n \in Nat /\ n < MARRAY_MAX
    BY <2>3, <2>4, SizeIs
  <2>6. Len(e) = n
    BY <2>3, <2>5, LenOf
  <2> QED
    BY <2>2, <2>3, <2>5, <2>6
<1>3. ASSUME NEW d \in Live("MDICT")
      PROVE  /\ heap[d].num_entries \in 0..(SIZE_MOD - 1)
             /\ \A j, k \in 1..Len(heap[d].entries) :
                  heap[d].entries[j].key = heap[d].entries[k].key => j = k
  <2>1. d \in Id /\ heap[d].type = "MDICT" /\ IsDict(heap[d])
    BY <1>1, <1>3 DEF Live, ObjectInv, Shaped
  <2> QED
    BY <2>1 DEF IsDict
<1>4. owned \subseteq Id /\ damaged \in BOOLEAN
  BY DEF ObjectInv
<1> QED
  BY <1>2, <1>3, <1>4 DEF ObjectTypeOK, KeysDiffer

LEMMA PlacesAre ==
  ASSUME ObjectAssumption, NEW i \in Id
  PROVE  /\ \A p \in Places(i) : \E j \in Id : \E k \in 1..Count(heap[j]) :
                                   p = <<j, k>> /\ Item(heap[j], k) = i /\ i \in Held(heap[j])
         /\ \A j \in Id : \A k \in 1..Count(heap[j]) : Item(heap[j], k) = i => <<j, k>> \in Places(i)
         /\ \A j \in Id : i \in Held(heap[j]) => \E k \in 1..Count(heap[j]) : Item(heap[j], k) = i
<1>1. i \notin {Null, NONE}
  BY NoneIsNoId
<1>2. \A j \in Id : \A k \in 1..Count(heap[j]) : Item(heap[j], k) = i => i \in Held(heap[j])
  BY <1>1 DEF Held
<1>3. ASSUME NEW p \in Places(i)
      PROVE  \E j \in Id : \E k \in 1..Count(heap[j]) :
               p = <<j, k>> /\ Item(heap[j], k) = i /\ i \in Held(heap[j])
  <2>1. p \in UNION {{j} \X (1..Count(heap[j])) : j \in Id} /\ Item(heap[p[1]], p[2]) = i
    BY DEF Places
  <2>2. PICK j \in Id : p \in {j} \X (1..Count(heap[j]))
    BY <2>1
  <2>3. p = <<j, p[2]>> /\ p[1] = j /\ p[2] \in 1..Count(heap[j])
    BY <2>2
  <2> QED
    BY <1>2, <2>1, <2>3
<1>4. ASSUME NEW j \in Id, NEW k \in 1..Count(heap[j]), Item(heap[j], k) = i
      PROVE  <<j, k>> \in Places(i)
  <2>1. <<j, k>> \in {j} \X (1..Count(heap[j]))
    OBVIOUS
  <2>2. <<j, k>> \in UNION {{m} \X (1..Count(heap[m])) : m \in Id}
    BY <2>1
  <2>3. <<j, k>>[1] = j /\ <<j, k>>[2] = k
    OBVIOUS
  <2> QED
    BY <1>4, <2>2, <2>3 DEF Places
<1>5. \A j \in Id : i \in Held(heap[j]) => \E k \in 1..Count(heap[j]) : Item(heap[j], k) = i
  BY DEF Held
<1> QED
  BY <1>3, <1>4, <1>5

LEMMA OwnersAreOne ==
  ASSUME ObjectAssumption, ObjectInv
  PROVE  ~damaged => OwnedOnce
<1> SUFFICES ASSUME ~damaged, NEW i \in Id
             PROVE  Cardinality(Places(i)) + (IF i \in owned THEN 1 ELSE 0)
                      = (IF heap[i].type = "FREE" THEN 0 ELSE 1)
  BY DEF OwnedOnce
<1>1. Owned(heap, owned)
  BY InvIs
<1>2. i \in Alive(heap) <=> heap[i].type # "FREE"
  BY DEF Alive
<1>3. Cardinality({}) = 0
  BY FS_EmptySet
<1>4. CASE i \in owned
  <2>1. i \in Alive(heap) /\ \A j \in Id : i \notin Held(heap[j])
    BY <1>1, <1>4 DEF Owned
  <2>2. Places(i) = {}
    BY <2>1, PlacesAre
  <2> QED
    BY <1>2, <1>3, <1>4, <2>1, <2>2
<1>5. CASE i \notin Alive(heap)
  <2>1. i \notin owned /\ \A j \in Id : i \notin Held(heap[j])
    BY <1>1, <1>5 DEF Owned
  <2>2. Places(i) = {}
    BY <2>1, PlacesAre
  <2> QED
    BY <1>2, <1>3, <1>5, <2>1, <2>2
<1>6. CASE i \in Alive(heap) /\ i \notin owned
  <2>1. \E j \in Id : i \in Held(heap[j])
    <3>1. SUFFICES ASSUME \A j \in Id : i \notin Held(heap[j])
                   PROVE  FALSE
      OBVIOUS
    <3> DEFINE S == Id \ {i}
    <3>2. S \in SUBSET Id /\ owned \subseteq S /\ Closed(S, heap)
      BY <1>1, <1>6, <3>1 DEF Owned, Alive, Closed
    <3> HIDE DEF S
    <3>3. Alive(heap) \subseteq S
      BY <1>1, <3>2 DEF Owned
    <3> QED
      BY <1>6, <3>3 DEF S
  <2>2. PICK j \in Id : i \in Held(heap[j])
    BY <2>1
  <2>3. PICK k \in 1..Count(heap[j]) : Item(heap[j], k) = i
    BY <2>2, PlacesAre
  <2>4. <<j, k>> \in Places(i)
    BY <2>3, PlacesAre
  <2>5. ASSUME NEW p \in Places(i)
        PROVE  p = <<j, k>>
    <3>1. PICK m \in Id : \E n \in 1..Count(heap[m]) :
                            p = <<m, n>> /\ Item(heap[m], n) = i /\ i \in Held(heap[m])
      BY PlacesAre
    <3>2. PICK n \in 1..Count(heap[m]) : p = <<m, n>> /\ Item(heap[m], n) = i /\ i \in Held(heap[m])
      BY <3>1
    <3>3. m = j
      BY <1>1, <2>2, <3>2 DEF Owned
    <3>4. n = k
      BY <1>1, <2>3, <3>2, <3>3 DEF Owned, Once
    <3> QED
      BY <3>2, <3>3, <3>4
  <2>6. Places(i) = {<<j, k>>}
    BY <2>4, <2>5
  <2>7. Cardinality(Places(i)) = 1
    BY <2>6, FS_Singleton
  <2> QED
    BY <1>2, <1>6, <2>7
<1> QED
  BY <1>4, <1>5, <1>6

LEMMA NoneLeaks ==
  ASSUME ObjectAssumption, ObjectInv
  PROVE  ~damaged => NothingLeaks
<1> SUFFICES ASSUME ~damaged
             PROVE  \A i \in Id \ Fresh : \E x \in owned : i \in Below(x, heap)
  BY DEF NothingLeaks
<1>1. Owned(heap, owned)
  BY InvIs
<1>2. \A j \in Id : Held(heap[j]) \subseteq Id
  BY <1>1 DEF Owned, Alive
<1>3. owned \subseteq Id
  BY DEF ObjectInv
<1>4. \A x \in owned : Below(x, heap) \subseteq Id /\ x \in Below(x, heap) /\ Closed(Below(x, heap), heap)
  BY <1>2, <1>3, BelowIs
<1> DEFINE S == {i \in Id : \E x \in owned : i \in Below(x, heap)}
<1>5. S \in SUBSET Id /\ owned \subseteq S /\ Closed(S, heap)
  BY <1>2, <1>3, <1>4 DEF Closed
<1>6. \A i \in S : \E x \in owned : i \in Below(x, heap)
  OBVIOUS
<1> HIDE DEF S
<1>7. Alive(heap) \subseteq S
  BY <1>1, <1>5 DEF Owned
<1>8. Id \ Fresh = Alive(heap)
  BY DEF Fresh, Live, Alive
<1> QED
  BY <1>6, <1>7, <1>8

(* Whatever is called, in whatever order, with any number of objects and   *)
(* keys: until marray_set() hits a slot that marray_pull() left behind,    *)
(* each object that lives has exactly one owner and can be reached from    *)
(* the caller's; and always the arrays and dictionaries keep their shapes. *)
THEOREM ObjectsHaveOneOwner ==
  ASSUME ObjectAssumption
  PROVE  ObjectSpec => []OneOwner
<1>1. ObjectInit => ObjectInv
  BY InitInv
<1>2. ObjectInv /\ [ObjectNext]_object_vars => ObjectInv'
  BY NextKeeps
<1>3. ObjectInv => OneOwner
  BY ShapesHold, OwnersAreOne, NoneLeaks DEF OneOwner
<1> QED
  BY <1>1, <1>2, <1>3, PTL DEF ObjectSpec

-----------------------------------------------------------------------------
(* TemplateTools                                                           *)

Job == [kind : Kind, path : Path \cup {"-"}]
Blank == [p \in Path |-> [kind |-> "old", whole |-> TRUE]]

(* What a job makes of the files and of the standard output.               *)
Wrote(f, j, whole) ==
  IF j.path = "-" THEN f ELSE [f EXCEPT ![j.path] = [kind |-> j.kind, whole |-> whole]]
Said(s, j, whole) == IF j.path = "-" /\ whole THEN Append(s, j.kind) ELSE s
Kept(j) == j.kind \notin lost

FlagsAreGiven ==
  program = "cfsm" =>
    /\ flag["src"] <=> ToSet(given) \cap {"D", "g", "m"} = {}
    /\ flag["hdr"] <=> ToSet(given) \cap {"D", "d"} # {}
    /\ flag["dot"] <=> "g" \in ToSet(given)
    /\ flag["man"] <=> "m" \in ToSet(given)

(* Files f and output s while todo is still to be done. *)
Rendering(f, s) ==
  \/ todo = Jobs /\ f = Blank /\ s = <<>> /\ lost = {}
  \/ /\ Len(Jobs) = 2 /\ todo = <<Jobs[2]>> /\ lost \subseteq {Jobs[1].kind}
     /\ f = Wrote(Blank, Jobs[1], Kept(Jobs[1])) /\ s = Said(<<>>, Jobs[1], Kept(Jobs[1]))

AllRendered(f, s) ==
  \/ /\ Len(Jobs) = 1 /\ f = Wrote(Blank, Jobs[1], Kept(Jobs[1]))
     /\ s = Said(<<>>, Jobs[1], Kept(Jobs[1]))
  \/ /\ Len(Jobs) = 2
     /\ f = Wrote(Wrote(Blank, Jobs[1], Kept(Jobs[1])), Jobs[2], Kept(Jobs[2]))
     /\ s = Said(Said(<<>>, Jobs[1], Kept(Jobs[1])), Jobs[2], Kept(Jobs[2]))

(* Neither TextsMade nor FailKeepsOld is inductive: what was written has to *)
(* be what the options ask for at every moment.                            *)
ToolInv ==
  /\ ToolTypeOK /\ FlagsAreGiven
  /\ doing \in {"options", "input"} => file = Blank /\ stdout = <<>> /\ lost = {}
  /\ doing \in {"input", "template", "output", "run", "done"} => ~(program = "cfsm" /\ Usage)
  /\ doing \in {"template", "output"} => Rendering(file, stdout)
  /\ doing = "run" => \E f \in [Path -> [kind : Kind \cup {"old"}, whole : BOOLEAN]] :
                        Rendering(f, stdout) /\ file = Wrote(f, todo[1], FALSE)
  /\ doing = "done" => AllRendered(file, stdout)

-----------------------------------------------------------------------------
LEMMA FlagsDiffer ==
  ASSUME flag \in [Kind -> BOOLEAN], ~Usage
  PROVE  \A j, k \in {"dot", "hdr", "man"} : flag[j] /\ flag[k] => j = k
<1> DEFINE S == {k \in {"dot", "hdr", "man"} : flag[k]}
<1> SUFFICES ASSUME NEW j \in S, NEW k \in S, j # k
             PROVE  FALSE
  OBVIOUS
<1>1. IsFiniteSet({"dot", "hdr", "man"})
  <2>1. IsFiniteSet({"dot"} \cup ({"hdr"} \cup {"man"}))
    BY FS_Singleton, FS_Union
  <2> QED
    BY <2>1
<1>2. IsFiniteSet(S)
  BY <1>1, FS_Subset
<1>3. Cardinality({k}) = 1 /\ IsFiniteSet({k})
  BY FS_Singleton
<1>4. Cardinality({k} \cup {j}) = 2
  BY <1>3, FS_AddElement
<1>5. {k} \cup {j} \subseteq S
  OBVIOUS
<1>6. Cardinality({k} \cup {j}) <= Cardinality(S) /\ Cardinality(S) \in Nat
  BY <1>2, <1>5, FS_Subset, FS_CardinalityType
<1>7. ~(Cardinality(S) > 1)
  BY DEF Usage
<1> QED
  BY <1>4, <1>6, <1>7

LEMMA PairOfOnes ==
  ASSUME NEW S, NEW p \in S, NEW q \in S
  PROVE  <<p, q>> \in Seq(S) /\ <<p>> \o <<q>> = <<p, q>>
<1>1. /\ <<p>> \in Seq(S) /\ Len(<<p>>) = 1 /\ <<p>>[1] = p
      /\ <<q>> \in Seq(S) /\ Len(<<q>>) = 1 /\ <<q>>[1] = q
      /\ <<p, q>> \in Seq(S) /\ Len(<<p, q>>) = 2 /\ <<p, q>>[1] = p /\ <<p, q>>[2] = q
  OBVIOUS
<1> DEFINE a == <<p>>
           b == <<q>>
           c == <<p, q>>
<1> HIDE DEF a, b, c
<1>2. /\ a \in Seq(S) /\ Len(a) = 1 /\ a[1] = p /\ b \in Seq(S) /\ Len(b) = 1 /\ b[1] = q
      /\ c \in Seq(S) /\ Len(c) = 2 /\ c[1] = p /\ c[2] = q
  BY <1>1 DEF a, b, c
<1>3. /\ a \o b \in Seq(S) /\ Len(a \o b) = 2
      /\ \A i \in 1..2 : (a \o b)[i] = IF i <= 1 THEN a[i] ELSE b[i - 1]
  <2>1. /\ a \o b \in Seq(S) /\ Len(a \o b) = Len(a) + Len(b)
        /\ \A i \in 1..(Len(a) + Len(b)) :
             (a \o b)[i] = IF i <= Len(a) THEN a[i] ELSE b[i - Len(a)]
    BY <1>2, ConcatProperties, Zenon
  <2>2. Len(a) + Len(b) = 2
    BY <1>2
  <2> QED
    BY <1>2, <2>1, <2>2
<1>4. \A i \in 1..2 : (a \o b)[i] = c[i]
  <2>1. (a \o b)[1] = a[1] /\ (a \o b)[2] = b[1]
    BY <1>3
  <2>2. (a \o b)[1] = c[1] /\ (a \o b)[2] = c[2]
    BY <1>2, <2>1
  <2>3. \A i \in 1..2 : i = 1 \/ i = 2
    OBVIOUS
  <2> QED
    BY <2>2, <2>3
<1>5. a \o b = c
  BY <1>2, <1>3, <1>4, SeqEqual
<1> QED
  BY <1>1, <1>5 DEF a, b, c

LEMMA TailOfPair == ASSUME NEW S, NEW p \in S, NEW q \in S PROVE Tail(<<p, q>>) = <<q>>
<1> DEFINE s == <<p, q>>
           t == <<q>>
<1>1. /\ s \in Seq(S) /\ Len(s) = 2 /\ s[2] = q /\ s # <<>>
      /\ t \in Seq(S) /\ Len(t) = 1 /\ t[1] = q
  OBVIOUS
<1> HIDE DEF s, t
<1>2. /\ Tail(s) \in Seq(S) /\ Len(Tail(s)) = Len(s) - 1
      /\ \A i \in 1..Len(Tail(s)) : Tail(s)[i] = s[i + 1]
  BY <1>1, HeadTailProperties
<1>3. PICK u : u = Tail(s)
  OBVIOUS
<1>4. u \in Seq(S) /\ Len(u) = 1 /\ \A i \in 1..1 : u[i] = s[i + 1]
  <2>1. u \in Seq(S) /\ Len(u) = Len(s) - 1 /\ \A i \in 1..Len(u) : u[i] = s[i + 1]
    BY ONLY <1>2, <1>3
  <2> QED
    BY ONLY <1>1, <2>1
<1>5. \A i \in 1..Len(u) : u[i] = t[i]
  BY ONLY <1>1, <1>4
<1>6. u = t
  BY ONLY <1>1, <1>4, <1>5, SeqEqual
<1> QED
  BY <1>3, <1>6 DEF s, t

LEMMA JobsAre ==
  ASSUME program \in {"cfsm", "xtc"}, flag \in [Kind -> BOOLEAN], out_arg \in Out \cup {NoName},
         FlagsAreGiven, ~(program = "cfsm" /\ Usage)
  PROVE  \/ \E a \in Job : Jobs = <<a>> /\ Asked = {a.kind} /\ ~Replaced
         \/ \E a, b \in Job : /\ Jobs = <<a, b>> /\ Asked = {"src", "hdr"}
                              /\ a.kind = "src" /\ b.kind = "hdr" /\ a.path # "-" /\ b.path # "-"
                              /\ a.path = b.path <=> Replaced
<1> DEFINE or(name) == IF out_arg = NoName THEN name ELSE out_arg
           J(k, p) == [kind |-> k, path |-> p]
<1>0. \A k \in Kind, p \in Path \cup {"-"} : J(k, p) \in Job /\ J(k, p).kind = k /\ J(k, p).path = p
  BY DEF Job
<1>1. \A p \in Path : or(p) \in Path \cup {"-"} /\ or("-") \in Path \cup {"-"}
  BY DEF Out, Path, NoName
<1>2. Header \in Path \cup {"-"}
  BY DEF Out, Path, NoName, Header
<1>3. CASE program = "xtc"
  <2>1. Jobs = <<J("man", or("-"))>> /\ Asked = {"man"} /\ "fsm.c" \in Path /\ "man" \in Kind
    BY <1>3 DEF Jobs, Asked, Path, Kind
  <2>2. ~Replaced
    BY <2>1 DEF Replaced
  <2> QED
    BY <1>0, <1>1, <2>1, <2>2
<1>4. CASE program = "cfsm"
  <2>1. /\ flag["src"] <=> ToSet(given) \cap {"D", "g", "m"} = {}
        /\ flag["hdr"] <=> ToSet(given) \cap {"D", "d"} # {}
        /\ flag["dot"] <=> "g" \in ToSet(given)
        /\ flag["man"] <=> "m" \in ToSet(given)
    BY <1>4 DEF FlagsAreGiven
  <2>2. /\ ~(flag["dot"] /\ flag["hdr"]) /\ ~(flag["dot"] /\ flag["man"]) /\ ~(flag["hdr"] /\ flag["man"])
        /\ ~(flag["man"] /\ out_arg = NoName) /\ ~(flag["src"] /\ flag["hdr"] /\ out_arg = "-")
    BY <1>4, FlagsDiffer DEF Usage
  <2>3. ToSet(given) \cap {"D", "g", "m"} = {} <=>
          "D" \notin ToSet(given) /\ "g" \notin ToSet(given) /\ "m" \notin ToSet(given)
    OBVIOUS
  <2>4. ToSet(given) \cap {"D", "d"} = {} <=> "D" \notin ToSet(given) /\ "d" \notin ToSet(given)
    OBVIOUS
  <2>5. Asked = (IF flag["src"] THEN {"src"} ELSE {}) \cup (IF flag["hdr"] THEN {"hdr"} ELSE {})
                \cup (IF flag["dot"] THEN {"dot"} ELSE {}) \cup (IF flag["man"] THEN {"man"} ELSE {})
    BY <1>4, <2>1 DEF Asked
  <2>6. Jobs = (IF flag["dot"] THEN <<J("dot", or("fsm.dot"))>> ELSE <<>>)
               \o (IF flag["src"] THEN <<J("src", or("fsm.c"))>> ELSE <<>>)
               \o (IF flag["hdr"] THEN <<J("hdr", Header)>> ELSE <<>>)
               \o (IF flag["man"] THEN <<J("man", out_arg)>> ELSE <<>>)
    BY <1>4 DEF Jobs
  <2>7. /\ \A p \in Job : <<>> \o <<p>> = <<p>> /\ <<p>> \o <<>> = <<p>>
        /\ \A p, q \in Job : <<p>> \o <<q>> = <<p, q>> /\ <<p, q>> \o <<>> = <<p, q>>
    <3>1. \A p \in Job : <<p>> \in Seq(Job)
      OBVIOUS
    <3>2. \A p, q \in Job : <<p, q>> \in Seq(Job) /\ <<p>> \o <<q>> = <<p, q>>
      BY PairOfOnes
    <3> QED
      BY <3>1, <3>2, EmptySeq, ConcatEmptySeq
  <2>b. /\ J("dot", or("fsm.dot")) \in Job /\ J("src", or("fsm.c")) \in Job /\ J("hdr", Header) \in Job
        /\ out_arg # NoName => J("man", out_arg) \in Job
    BY DEF Job, Header, Out, Path, NoName, Kind
  <2>c. <<>> \o <<>> = <<>>
    BY EmptySeq, ConcatEmptySeq
  <2> HIDE DEF J, or
  <2>a. {"dot", "src", "hdr", "man"} = Kind /\ "fsm.c" \in Path /\ "fsm.dot" \in Path
    BY DEF Kind, Path
  <2>8. CASE flag["dot"]
    <3>1. ~flag["src"] /\ ~flag["hdr"] /\ ~flag["man"]
      BY <2>1, <2>2, <2>3, <2>8
    <3>2. Jobs = <<J("dot", or("fsm.dot"))>> /\ Asked = {"dot"}
      BY <2>5, <2>6, <2>7, <2>b, <2>c, <2>8, <3>1
    <3>3. ~Replaced
      BY <3>2 DEF Replaced
    <3> QED
      BY <1>0, <1>1, <2>a, <3>2, <3>3
  <2>9. CASE flag["man"]
    <3>1. ~flag["src"] /\ ~flag["hdr"] /\ ~flag["dot"]
      BY <2>1, <2>2, <2>3, <2>9
    <3>2. Jobs = <<J("man", out_arg)>> /\ Asked = {"man"}
      BY <2>2, <2>5, <2>6, <2>7, <2>b, <2>c, <2>9, <3>1
    <3>3. ~Replaced
      BY <3>2 DEF Replaced
    <3>4. out_arg \in Path \cup {"-"}
      BY <2>2, <2>9 DEF Out, Path
    <3> QED
      BY <1>0, <2>a, <3>2, <3>3, <3>4
  <2>10. CASE ~flag["dot"] /\ ~flag["man"] /\ ~flag["hdr"]
    <3>1. flag["src"]
      BY <2>1, <2>3, <2>4, <2>10
    <3>2. Jobs = <<J("src", or("fsm.c"))>> /\ Asked = {"src"}
      BY <2>5, <2>6, <2>7, <2>b, <2>c, <2>10, <3>1
    <3>3. ~Replaced
      BY <3>2 DEF Replaced
    <3> QED
      BY <1>0, <1>1, <2>a, <3>2, <3>3
  <2>11. CASE ~flag["dot"] /\ ~flag["man"] /\ flag["hdr"] /\ ~flag["src"]
    <3>2. Jobs = <<J("hdr", Header)>> /\ Asked = {"hdr"}
      BY <2>5, <2>6, <2>7, <2>b, <2>c, <2>11
    <3>3. ~Replaced
      BY <3>2 DEF Replaced
    <3> QED
      BY <1>0, <1>2, <2>a, <3>2, <3>3
  <2>12. CASE ~flag["dot"] /\ ~flag["man"] /\ flag["hdr"] /\ flag["src"]
    <3>2. Jobs = <<J("src", or("fsm.c")), J("hdr", Header)>> /\ Asked = {"src", "hdr"}
      BY <2>5, <2>6, <2>7, <2>b, <2>c, <2>12
    <3>3. Replaced <=> out_arg = "x.h"
      BY <3>2 DEF Replaced
    <3>4. /\ or("fsm.c") # "-" /\ Header # "-" 
          /\ or("fsm.c") = Header <=> out_arg = "x.h"
      BY <2>2, <2>12 DEF or, Header, Out, NoName
    <3> QED
      BY <1>0, <1>1, <1>2, <2>a, <3>2, <3>3, <3>4, SMTT(30)
  <2> QED
    BY <2>8, <2>9, <2>10, <2>11, <2>12
<1> QED
  BY <1>3, <1>4

-----------------------------------------------------------------------------
LEMMA JobsTyped ==
  ASSUME ToolInv, ~(program = "cfsm" /\ Usage)
  PROVE  /\ Jobs \in Seq(Job) /\ Jobs # <<>> /\ Len(Jobs) \in {1, 2}
         /\ Jobs[1] \in Job
         /\ Len(Jobs) = 2 => /\ Jobs[2] \in Job /\ Tail(Jobs) = <<Jobs[2]>>
                             /\ Jobs[1].kind # Jobs[2].kind
<1>1. \/ \E a \in Job : Jobs = <<a>>
      \/ \E a, b \in Job : Jobs = <<a, b>> /\ a.kind = "src" /\ b.kind = "hdr"
  BY JobsAre DEF ToolInv, ToolTypeOK
<1>2. \A a, b \in Job : Tail(<<a, b>>) = <<b>>
  BY TailOfPair
<1>3. CASE \E a \in Job : Jobs = <<a>>
  BY <1>3
<1>4. CASE \E a, b \in Job : Jobs = <<a, b>> /\ a.kind = "src" /\ b.kind = "hdr"
  <2>1. PICK a \in Job, b \in Job : Jobs = <<a, b>> /\ a.kind = "src" /\ b.kind = "hdr"
    BY <1>4
  <2>2. Tail(Jobs) = <<b>> /\ Jobs[2] = b
    BY <1>2, <2>1
  <2> QED
    BY <2>1, <2>2
<1> QED
  BY <1>1, <1>3, <1>4

LEMMA WroteTyped ==
  ASSUME NEW f \in [Path -> [kind : Kind \cup {"old"}, whole : BOOLEAN]], NEW j \in Job, NEW w \in BOOLEAN
  PROVE  /\ Wrote(f, j, w) \in [Path -> [kind : Kind \cup {"old"}, whole : BOOLEAN]]
         /\ Wrote(Wrote(f, j, FALSE), j, w) = Wrote(f, j, w)
BY DEF Wrote, Job

LEMMA SaidTyped ==
  ASSUME NEW s \in Seq(Kind), NEW j \in Job, NEW w \in BOOLEAN
  PROVE  Said(s, j, w) \in Seq(Kind)
BY DEF Said, Job

LEMMA BlankTyped ==
  /\ Blank \in [Path -> [kind : Kind \cup {"old"}, whole : BOOLEAN]]
  /\ \A p \in Path : Blank[p].whole
BY DEF Blank

(* What is still to be done is a job, and what was done broke no file but  *)
(* the one whose end was lost.                                             *)
LEMMA RenderingTyped ==
  ASSUME ToolInv, ~(program = "cfsm" /\ Usage), NEW f, NEW s, Rendering(f, s)
  PROVE  /\ f \in [Path -> [kind : Kind \cup {"old"}, whole : BOOLEAN]] /\ s \in Seq(Kind)
         /\ todo # <<>> /\ Len(todo) \in {1, 2} /\ todo[1] \in Job
         /\ \A p \in Path : f[p].whole \/ f[p].kind \in lost
         /\ todo[1].kind \notin lost
<1>1. CASE todo = Jobs /\ f = Blank /\ s = <<>> /\ lost = {}
  BY <1>1, JobsTyped, BlankTyped
<1>2. CASE /\ Len(Jobs) = 2 /\ todo = <<Jobs[2]>> /\ lost \subseteq {Jobs[1].kind}
           /\ f = Wrote(Blank, Jobs[1], Kept(Jobs[1])) /\ s = Said(<<>>, Jobs[1], Kept(Jobs[1]))
  <2>0. Kept(Jobs[1]) \in BOOLEAN /\ (~Kept(Jobs[1]) => Jobs[1].kind \in lost)
    BY DEF Kept
  <2>1. Jobs[1] \in Job /\ Jobs[2] \in Job /\ Jobs[1].kind # Jobs[2].kind
    BY <1>2, JobsTyped
  <2>2. <<>> \in Seq(Kind)
    OBVIOUS
  <2>3. s \in Seq(Kind)
    BY <1>2, <2>0, <2>1, <2>2, SaidTyped
  <2>4. /\ f \in [Path -> [kind : Kind \cup {"old"}, whole : BOOLEAN]]
        /\ \A p \in Path : f[p].whole \/ f[p].kind \in lost
    <3>1. PICK j \in Job : j = Jobs[1]
      BY <2>1
    <3>2. PICK w \in BOOLEAN : w = Kept(Jobs[1])
      BY <2>0
    <3>3. f = Wrote(Blank, j, w) /\ (w = FALSE => j.kind \in lost)
      BY <1>2, <2>0, <3>1, <3>2
    <3>4. f \in [Path -> [kind : Kind \cup {"old"}, whole : BOOLEAN]]
      BY <3>3, BlankTyped, WroteTyped
    <3>5. \A p \in Path : f[p] = Blank[p] \/ f[p] = [kind |-> j.kind, whole |-> w]
      BY <3>3, <3>4, BlankTyped DEF Wrote
    <3>6. Blank \in [Path -> [kind : Kind \cup {"old"}, whole : BOOLEAN]] /\ \A p \in Path : Blank[p].whole
      BY BlankTyped
    <3>7. [kind |-> j.kind, whole |-> w].whole = w /\ [kind |-> j.kind, whole |-> w].kind = j.kind
      OBVIOUS
    <3>8. w = TRUE \/ j.kind \in lost
      BY <3>3
    <3> QED
      BY <3>4, <3>5, <3>6, <3>7, <3>8
  <2>5. todo # <<>> /\ Len(todo) = 1 /\ todo[1] = Jobs[2] /\ todo[1].kind \notin lost
    BY <1>2, <2>1
  <2> QED
    BY <2>1, <2>3, <2>4, <2>5
<1> QED
  BY <1>1, <1>2 DEF Rendering

-----------------------------------------------------------------------------
LEMMA ToolInitInv == ASSUME ToolAssumption PROVE ToolInit => ToolInv
<1> SUFFICES ASSUME ToolInit PROVE ToolInv
  OBVIOUS
<1>1. ToSet(given) = {} /\ Len(given) = 0 /\ given \in Seq({"D", "d", "g", "m"} \cup Out)
  BY DEF ToolInit, ToSet
<1>2. flag["src"] /\ ~flag["hdr"] /\ ~flag["dot"] /\ ~flag["man"] /\ flag \in [Kind -> BOOLEAN]
  BY DEF ToolInit, Kind
<1>3. ToolTypeOK
  BY <1>1, <1>2, BlankTyped DEF ToolInit, ToolTypeOK, ToolAssumption, Blank
<1>4. FlagsAreGiven
  BY <1>1, <1>2 DEF FlagsAreGiven
<1> QED
  BY <1>3, <1>4 DEF ToolInv, ToolInit, Blank

LEMMA OptionStep == ASSUME ToolAssumption PROVE ToolInv /\ getopt => ToolInv'
<1> SUFFICES ASSUME ToolInv, getopt PROVE ToolInv'
  OBVIOUS
<1> DEFINE All == {"D", "d", "g", "m"} \cup Out
<1>1. /\ doing = "options" /\ doing' = "options" /\ given \in Seq(All) /\ Len(given) < Options
      /\ UNCHANGED <<program, doing, todo, file, stdout, lost>>
  BY DEF getopt, ToolInv, ToolTypeOK
<1>2. ASSUME NEW o \in All, given' = Append(given, o)
      PROVE  /\ ToSet(given') = ToSet(given) \cup {o}
             /\ given' \in Seq(All) /\ Len(given') = Len(given) + 1
  <2> HIDE DEF All
  <2>1. given' \in Seq(All) /\ Len(given') = Len(given) + 1
    BY <1>1, <1>2
  <2>2. \A i \in 1..Len(given) : given'[i] = given[i]
    BY <1>1, <1>2
  <2>3. given'[Len(given) + 1] = o
    BY <1>1, <1>2
  <2>4. DOMAIN given' = 1..(Len(given) + 1) /\ DOMAIN given = 1..Len(given) /\ Len(given) \in Nat
    BY <1>1, <2>1
  <2>5. 1..(Len(given) + 1) = 1..Len(given) \cup {Len(given) + 1}
    BY <2>4
  <2> QED
    BY <2>1, <2>2, <2>3, <2>4, <2>5 DEF ToSet
<1>3. ASSUME NEW o \in {"D", "d", "g", "m"}, program = "cfsm",
             flag' = set_flag(o), given' = Append(given, o), UNCHANGED out_arg
      PROVE  ToolInv'
  <2>1. /\ ToSet(given') = ToSet(given) \cup {o}
        /\ given' \in Seq(All) /\ Len(given') = Len(given) + 1
    BY <1>2, <1>3
  <2>2. ToolTypeOK'
    <3>1. flag' \in [Kind -> BOOLEAN]
      BY <1>3 DEF ToolInv, ToolTypeOK, set_flag
    <3>2. Len(given') <= Options
      BY ONLY <1>1, <2>1, ToolAssumption, LenProperties DEF ToolAssumption
    <3> QED
      BY <1>1, <1>3, <2>1, <3>1, <3>2 DEF ToolInv, ToolTypeOK
  <2>3. FlagsAreGiven'
    <3>1. flag \in [Kind -> BOOLEAN] /\ FlagsAreGiven
      BY DEF ToolInv, ToolTypeOK
    <3> QED
      BY <1>3, <2>1, <3>1 DEF FlagsAreGiven, set_flag, Kind
  <2> QED
    BY <1>1, <2>2, <2>3 DEF ToolInv, Blank
<1>4. ASSUME NEW o \in Out, out_arg' = o, given' = Append(given, o), UNCHANGED flag
      PROVE  ToolInv'
  <2>1. /\ ToSet(given') = ToSet(given) \cup {o}
        /\ given' \in Seq(All) /\ Len(given') = Len(given) + 1
    BY <1>2, <1>4
  <2>2. ToolTypeOK'
    <3>2. Len(given') <= Options
      BY ONLY <1>1, <2>1, ToolAssumption, LenProperties DEF ToolAssumption
    <3> QED
      BY <1>1, <1>4, <2>1, <3>2 DEF ToolInv, ToolTypeOK
  <2>3. FlagsAreGiven'
    <3>1. o \notin {"D", "d", "g", "m"}
      BY <1>4 DEF Out
    <3> QED
      BY <1>1, <1>4, <2>1, <3>1 DEF FlagsAreGiven, ToolInv
  <2> QED
    BY <1>1, <2>2, <2>3 DEF ToolInv, Blank
<1> QED
  BY <1>3, <1>4 DEF getopt

(* The actions that leave the options alone. *)
LEMMA SameOptions ==
  ASSUME ToolInv, UNCHANGED <<program, given, flag, out_arg>>
  PROVE  /\ Jobs' = Jobs /\ (Usage <=> Usage') /\ FlagsAreGiven'
         /\ program' = "cfsm" <=> program = "cfsm"
         /\ Asked' = Asked /\ (Replaced' <=> Replaced)
BY DEF Jobs, Header, Usage, FlagsAreGiven, ToolInv, Asked, Replaced

LEMMA GivesUpStep == ToolInv /\ GivesUp => ToolInv'
<1> SUFFICES ASSUME ToolInv, GivesUp PROVE ToolInv'
  OBVIOUS
<1>1. ToolTypeOK'
  BY DEF ToolInv, ToolTypeOK, GivesUp
<1> QED
  BY <1>1, SameOptions DEF ToolInv, GivesUp

LEMMA HelpStep == ToolInv /\ help => ToolInv'
<1> SUFFICES ASSUME ToolInv, help PROVE ToolInv'
  OBVIOUS
<1>1. ToolTypeOK'
  BY DEF ToolInv, ToolTypeOK, help
<1> QED
  BY <1>1, SameOptions DEF ToolInv, help

LEMMA OptionsEndStep == ToolInv /\ options_end => ToolInv'
<1> SUFFICES ASSUME ToolInv, options_end, ~GivesUp PROVE ToolInv'
  BY GivesUpStep
<1>0. /\ ~(program = "cfsm" /\ Usage) /\ doing = "options" /\ doing' = "input"
      /\ UNCHANGED <<program, given, flag, out_arg, todo, file, stdout, lost>>
  BY DEF options_end
<1>1. ToolTypeOK'
  BY <1>0 DEF ToolInv, ToolTypeOK
<1> QED
  BY <1>0, <1>1, SameOptions DEF ToolInv, Blank

LEMMA ParseStep == ToolInv /\ yyparse => ToolInv'
<1> SUFFICES ASSUME ToolInv, yyparse, ~GivesUp PROVE ToolInv'
  BY GivesUpStep
<1>0. /\ doing = "input" /\ doing' = "template" /\ todo' = Jobs
      /\ UNCHANGED <<program, given, flag, out_arg, file, stdout, lost>>
  BY DEF yyparse
<1>1. ~(program = "cfsm" /\ Usage) /\ file = Blank /\ stdout = <<>> /\ lost = {}
  BY <1>0 DEF ToolInv
<1>2. ToolTypeOK'
  BY <1>0, <1>1, JobsTyped DEF ToolInv, ToolTypeOK, Job
<1>3. Rendering(file, stdout)'
  BY <1>0, <1>1, SameOptions DEF Rendering, Blank
<1> QED
  BY <1>0, <1>1, <1>2, <1>3, SameOptions DEF ToolInv

LEMMA ReadStep == ToolInv /\ read_template => ToolInv'
<1> SUFFICES ASSUME ToolInv, read_template, ~GivesUp PROVE ToolInv'
  BY GivesUpStep
<1>0. /\ doing = "template" /\ doing' = "output"
      /\ UNCHANGED <<program, given, flag, out_arg, todo, file, stdout, lost>>
  BY DEF read_template
<1>1. ~(program = "cfsm" /\ Usage) /\ Rendering(file, stdout)
  BY <1>0 DEF ToolInv
<1>2. ToolTypeOK'
  BY <1>0 DEF ToolInv, ToolTypeOK
<1>3. Rendering(file, stdout)'
  BY <1>0, <1>1, SameOptions DEF Rendering, Blank, Wrote, Said, Kept
<1> QED
  BY <1>0, <1>1, <1>2, <1>3, SameOptions DEF ToolInv

LEMMA OpenStep == ToolInv /\ fopen => ToolInv'
<1> SUFFICES ASSUME ToolInv, fopen, ~GivesUp PROVE ToolInv'
  BY GivesUpStep
<1>0. /\ doing = "output" /\ doing' = "run" /\ Written(FALSE)
      /\ UNCHANGED <<program, given, flag, out_arg, todo, lost>>
  BY DEF fopen
<1>1. ~(program = "cfsm" /\ Usage) /\ Rendering(file, stdout)
  BY <1>0 DEF ToolInv
<1>2. /\ todo[1] \in Job
      /\ file \in [Path -> [kind : Kind \cup {"old"}, whole : BOOLEAN]]
  BY <1>1, RenderingTyped
<1>3. file' = Wrote(file, todo[1], FALSE) /\ stdout' = stdout
  BY <1>0 DEF Written, Wrote
<1>4. ToolTypeOK'
  BY <1>0, <1>2, <1>3, WroteTyped DEF ToolInv, ToolTypeOK
<1>5. PICK f \in [Path -> [kind : Kind \cup {"old"}, whole : BOOLEAN]] : f = file
  BY <1>2
<1>6. Rendering(f, stdout)'
  BY <1>0, <1>1, <1>3, <1>5, SameOptions DEF Rendering, Blank, Wrote, Said, Kept
<1>7. (file = Wrote(f, todo[1], FALSE))'
  BY <1>0, <1>3, <1>5 DEF Wrote
<1>8. (\E h \in [Path -> [kind : Kind \cup {"old"}, whole : BOOLEAN]] :
         Rendering(h, stdout) /\ file = Wrote(h, todo[1], FALSE))'
  BY <1>6, <1>7
<1> QED
  BY <1>0, <1>1, <1>4, <1>8, SameOptions DEF ToolInv

LEMMA RunStep == ToolInv /\ mtemplate_run_stdio => ToolInv'
<1> SUFFICES ASSUME ToolInv, mtemplate_run_stdio, ~GivesUp PROVE ToolInv'
  BY GivesUpStep
<1>0. PICK w \in BOOLEAN :
        /\ doing = "run" /\ Written(w) /\ todo' = Tail(todo)
        /\ lost' = lost \cup (IF w THEN {} ELSE {todo[1].kind})
        /\ doing' = IF Len(todo) = 1 THEN "done" ELSE "template"
        /\ UNCHANGED <<program, given, flag, out_arg>>
  BY DEF mtemplate_run_stdio
<1>1. ~(program = "cfsm" /\ Usage)
  BY <1>0 DEF ToolInv
<1>2. PICK f \in [Path -> [kind : Kind \cup {"old"}, whole : BOOLEAN]] :
        Rendering(f, stdout) /\ file = Wrote(f, todo[1], FALSE)
  BY <1>0 DEF ToolInv
<1>3. /\ todo[1] \in Job /\ todo # <<>> /\ Len(todo) \in {1, 2} /\ stdout \in Seq(Kind)
      /\ file \in [Path -> [kind : Kind \cup {"old"}, whole : BOOLEAN]]
      /\ todo \in Seq(Job) /\ todo[1].kind \notin lost
  BY <1>1, <1>2, RenderingTyped DEF ToolInv, ToolTypeOK, Job
<1>4. file' = Wrote(file, todo[1], w) /\ stdout' = Said(stdout, todo[1], w)
  BY <1>0 DEF Written, Wrote, Said
<1>5. file' = Wrote(f, todo[1], w)
  BY <1>2, <1>3, <1>4, WroteTyped
<1>6. ToolTypeOK'
  <2>1. todo' \in Seq(Job)
    BY <1>0, <1>3
  <2>2. lost' \subseteq Kind
    BY <1>0, <1>3 DEF ToolInv, ToolTypeOK, Job
  <2> QED
    BY <1>0, <1>3, <1>4, <2>1, <2>2, WroteTyped, SaidTyped DEF ToolInv, ToolTypeOK, Job
<1>j. Jobs' = Jobs
  BY <1>0, SameOptions
<1>7. CASE todo = Jobs /\ f = Blank /\ stdout = <<>> /\ lost = {} /\ Len(Jobs) = 1
  <2>1. doing' = "done"
    BY <1>0, <1>7
  <2>2. AllRendered(file, stdout)'
    <3>1. Kept(Jobs[1])' = w
      BY <1>0, <1>7, <1>j DEF Kept
    <3>2. file' = Wrote(Blank, Jobs[1], w) /\ stdout' = Said(<<>>, Jobs[1], w)
      BY <1>4, <1>5, <1>7
    <3> QED
      BY <1>7, <1>j, <3>1, <3>2 DEF AllRendered, Blank, Wrote, Said, Kept
  <2> QED
    BY <1>0, <1>1, <1>6, <2>1, <2>2, SameOptions DEF ToolInv
<1>8. CASE todo = Jobs /\ f = Blank /\ stdout = <<>> /\ lost = {} /\ Len(Jobs) = 2
  <2>1. doing' = "template"
    BY <1>0, <1>8
  <2>2. Tail(Jobs) = <<Jobs[2]>>
    BY <1>1, <1>8, JobsTyped
  <2>3. Rendering(file, stdout)'
    <3>1. Kept(Jobs[1])' = w /\ lost' \subseteq {Jobs[1].kind}
      BY <1>0, <1>8, <1>j DEF Kept
    <3>2. file' = Wrote(Blank, Jobs[1], w) /\ stdout' = Said(<<>>, Jobs[1], w)
      BY <1>4, <1>5, <1>8
    <3>3. todo' = <<Jobs[2]>>
      BY <1>0, <1>8, <2>2
    <3> QED
      BY <1>8, <1>j, <3>1, <3>2, <3>3 DEF Rendering, Blank, Wrote, Said, Kept
  <2> QED
    BY <1>0, <1>1, <1>6, <2>1, <2>3, SameOptions DEF ToolInv
<1>9. CASE /\ Len(Jobs) = 2 /\ todo = <<Jobs[2]>> /\ lost \subseteq {Jobs[1].kind}
           /\ f = Wrote(Blank, Jobs[1], Kept(Jobs[1])) /\ stdout = Said(<<>>, Jobs[1], Kept(Jobs[1]))
  <2>1. doing' = "done" /\ todo[1] = Jobs[2]
    BY <1>0, <1>9
  <2>2. AllRendered(file, stdout)'
    <3>1. Kept(Jobs[2])' = w /\ Kept(Jobs[1])' = Kept(Jobs[1])
      <4>1. Jobs[1].kind # Jobs[2].kind
        BY <1>1, <1>9, JobsTyped
      <4> QED
        BY <1>0, <1>3, <1>j, <2>1, <4>1 DEF Kept
    <3>2. /\ file' = Wrote(Wrote(Blank, Jobs[1], Kept(Jobs[1])), Jobs[2], w)
          /\ stdout' = Said(Said(<<>>, Jobs[1], Kept(Jobs[1])), Jobs[2], w)
      BY <1>4, <1>5, <1>9, <2>1
    <3> QED
      BY <1>9, <1>j, <3>1, <3>2 DEF AllRendered, Blank, Wrote, Said, Kept
  <2> QED
    BY <1>0, <1>1, <1>6, <2>1, <2>2, SameOptions DEF ToolInv
<1> QED
  BY <1>1, <1>2, <1>7, <1>8, <1>9, JobsTyped DEF Rendering

LEMMA ToolStep ==
  ASSUME ToolAssumption
  PROVE  ToolInv /\ [ToolNext]_tool_vars => ToolInv'
<1> SUFFICES ASSUME ToolInv, [ToolNext]_tool_vars PROVE ToolInv'
  OBVIOUS
<1>1. CASE UNCHANGED tool_vars
  <2>1. /\ ToolTypeOK'
        /\ UNCHANGED <<program, given, flag, out_arg>> /\ UNCHANGED <<doing, todo, file, stdout, lost>>
    BY <1>1 DEF ToolInv, ToolTypeOK, tool_vars
  <2>2. /\ Jobs' = Jobs /\ FlagsAreGiven' /\ (Usage <=> Usage')
    BY <2>1, SameOptions
  <2>3. \A f : (Rendering(f, stdout) => Rendering(f, stdout)')
    BY <2>1, <2>2 DEF Rendering, Blank, Wrote, Said, Kept
  <2>4. AllRendered(file, stdout) => AllRendered(file, stdout)'
    BY <2>1, <2>2 DEF AllRendered, Blank, Wrote, Said, Kept
  <2>5. \A f : file = Wrote(f, todo[1], FALSE) => (file = Wrote(f, todo[1], FALSE))'
    BY <2>1 DEF Wrote
  <2>6. doing = "run" =>
          (\E f \in [Path -> [kind : Kind \cup {"old"}, whole : BOOLEAN]] :
             Rendering(f, stdout) /\ file = Wrote(f, todo[1], FALSE))'
    BY <2>3, <2>5 DEF ToolInv
  <2>7. doing \in {"template", "output"} => Rendering(file, stdout)'
    BY <2>1, <2>2 DEF ToolInv, Rendering, Blank, Wrote, Said, Kept
  <2> QED
    BY <2>1, <2>2, <2>4, <2>6, <2>7 DEF ToolInv, Blank
<1>2. CASE bad_option
  BY <1>2, GivesUpStep DEF bad_option
<1> QED
  BY <1>1, <1>2, OptionStep, HelpStep, OptionsEndStep, ParseStep, ReadStep, OpenStep, RunStep
     DEF ToolNext

-----------------------------------------------------------------------------
(* Where the texts are when the jobs are done. *)
LEMMA ToolInvTextsMade == ToolInv => ToolTypeOK /\ TextsMade
<1> SUFFICES ASSUME ToolInv, doing = "done" PROVE TextsMade
  BY DEF ToolInv, TextsMade
<1>1. ~(program = "cfsm" /\ Usage) /\ AllRendered(file, stdout)
  BY DEF ToolInv
<1>2. \A x : Cardinality({x}) = 1
  BY FS_Singleton
<1>3. Cardinality({}) = 0
  BY FS_EmptySet
<1>4. \/ \E a \in Job : Jobs = <<a>> /\ Asked = {a.kind} /\ ~Replaced
      \/ \E a, b \in Job : /\ Jobs = <<a, b>> /\ Asked = {"src", "hdr"}
                           /\ a.kind = "src" /\ b.kind = "hdr" /\ a.path # "-" /\ b.path # "-"
                           /\ a.path = b.path <=> Replaced
  BY <1>1, JobsAre DEF ToolInv, ToolTypeOK
<1>5. ASSUME NEW a \in Job, Jobs = <<a>>, Asked = {a.kind}, ~Replaced
      PROVE  TextsMade
  <2> DEFINE w == a.kind \notin lost
  <2>1. file = Wrote(Blank, a, w) /\ stdout = Said(<<>>, a, w)
    BY <1>1, <1>5 DEF AllRendered, Kept
  <2>4. \A k \in Kind : k \in Asked \ lost <=> k = a.kind /\ w
    BY <1>5 DEF Job
  <2>5. ~w <=> a.kind \in lost
    OBVIOUS
  <2> HIDE DEF w
  <2>2. CASE a.path = "-"
    <3>1. file = Blank /\ stdout = IF w THEN <<a.kind>> ELSE <<>>
      BY <2>1, <2>2 DEF Wrote, Said
    <3>2. ToSet(stdout) = (IF w THEN {a.kind} ELSE {}) /\ Len(stdout) <= 1
      BY <3>1 DEF ToSet
    <3>3. \A k \in Kind : {p \in Path : file[p] = [kind |-> k, whole |-> TRUE]} = {}
      BY <3>1 DEF Blank, Kind
    <3>4. \A k \in Kind : Text(k) = IF k = a.kind /\ w THEN {"-"} ELSE {}
      BY <3>2, <3>3 DEF Text
    <3>5. \A k \in Kind : Cardinality(Text(k)) = IF k = a.kind /\ w THEN 1 ELSE 0
      BY <1>2, <1>3, <3>4
    <3> QED
      BY <1>5, <2>4, <3>1, <3>2, <3>5, BlankTyped DEF TextsMade
  <2>3. CASE a.path # "-"
    <3>1. file = [Blank EXCEPT ![a.path] = [kind |-> a.kind, whole |-> w]] /\ stdout = <<>>
      BY <2>1, <2>3 DEF Wrote, Said
    <3>2. ToSet(stdout) = {} /\ Len(stdout) = 0 /\ a.path \in Path
      BY <2>3, <3>1 DEF ToSet, Job
    <3>3. \A k \in Kind : {p \in Path : file[p] = [kind |-> k, whole |-> TRUE]}
                            = IF k = a.kind /\ w THEN {a.path} ELSE {}
      BY <3>1, <3>2 DEF Blank, Kind
    <3>4. \A k \in Kind : Text(k) = IF k = a.kind /\ w THEN {a.path} ELSE {}
      BY <3>2, <3>3 DEF Text
    <3>5. \A k \in Kind : Cardinality(Text(k)) = IF k = a.kind /\ w THEN 1 ELSE 0
      BY <1>2, <1>3, <3>4
    <3>6. \A p \in Path : file[p].whole \/ file[p].kind \in lost
      BY <2>5, <3>1, <3>2 DEF Blank
    <3> QED
      BY <1>5, <2>4, <3>2, <3>5, <3>6 DEF TextsMade
  <2> QED
    BY <2>2, <2>3
<1>6. ASSUME NEW a \in Job, NEW b \in Job, Jobs = <<a, b>>, Asked = {"src", "hdr"},
             a.kind = "src", b.kind = "hdr", a.path # "-", b.path # "-",
             a.path = b.path <=> Replaced
      PROVE  TextsMade
  <2> DEFINE v == "src" \notin lost
             w == "hdr" \notin lost
  <2>1. file = Wrote(Wrote(Blank, a, v), b, w) /\ stdout = Said(Said(<<>>, a, v), b, w)
    BY <1>1, <1>6 DEF AllRendered, Kept
  <2>a. \A k \in Kind : k \in Asked \ lost <=> (k = "src" /\ v) \/ (k = "hdr" /\ w)
    BY <1>6
  <2>b. (~v <=> "src" \in lost) /\ (~w <=> "hdr" \in lost) /\ v \in BOOLEAN /\ w \in BOOLEAN
    OBVIOUS
  <2> HIDE DEF v, w
  <2>2. /\ file = [[Blank EXCEPT ![a.path] = [kind |-> "src", whole |-> v]]
                     EXCEPT ![b.path] = [kind |-> "hdr", whole |-> w]]
        /\ stdout = <<>>
    BY <1>6, <2>1 DEF Wrote, Said
  <2>3. ToSet(stdout) = {} /\ Len(stdout) = 0 /\ a.path \in Path /\ b.path \in Path
    BY <1>6, <2>2 DEF ToSet, Job
  <2>4. \A p \in Path : file[p] = IF p = b.path THEN [kind |-> "hdr", whole |-> w]
                                 ELSE IF p = a.path THEN [kind |-> "src", whole |-> v]
                                 ELSE [kind |-> "old", whole |-> TRUE]
    BY <2>2, <2>3 DEF Blank
  <2>5. \A k \in Kind : Text(k) = {p \in Path : file[p] = [kind |-> k, whole |-> TRUE]}
    BY <2>3 DEF Text
  <2>6. ASSUME NEW k \in Kind
        PROVE  Text(k) = IF k = "hdr" /\ w THEN {b.path}
                         ELSE IF k = "src" /\ v /\ a.path # b.path THEN {a.path} ELSE {}
    <3>1. CASE k = "hdr"
      <4>1. \A p \in Path : file[p] = [kind |-> k, whole |-> TRUE] <=> p = b.path /\ w
        <5>1. \A p \in Path : p = b.path => file[p] = [kind |-> "hdr", whole |-> w]
          BY <2>4
        <5>2. \A p \in Path : p # b.path => file[p].kind # "hdr"
          BY <2>4
        <5>3. [kind |-> "hdr", whole |-> w] = [kind |-> k, whole |-> TRUE] <=> w
          BY <2>b, <3>1
        <5>4. [kind |-> k, whole |-> TRUE].kind = "hdr"
          BY <3>1
        <5> QED
          BY <5>1, <5>2, <5>3, <5>4
      <4> QED
        BY <2>3, <2>5, <3>1, <4>1
    <3>2. CASE k = "src"
      <4>1. \A p \in Path : file[p] = [kind |-> k, whole |-> TRUE] <=> p = a.path /\ p # b.path /\ v
        <5>1. \A p \in Path : p = a.path /\ p # b.path => file[p] = [kind |-> "src", whole |-> v]
          BY <2>4
        <5>2. \A p \in Path : p # a.path \/ p = b.path => file[p].kind # "src"
          BY <2>4
        <5>3. [kind |-> "src", whole |-> v] = [kind |-> k, whole |-> TRUE] <=> v
          BY <2>b, <3>2
        <5>4. [kind |-> k, whole |-> TRUE].kind = "src"
          BY <3>2
        <5> QED
          BY <5>1, <5>2, <5>3, <5>4
      <4> QED
        BY <2>3, <2>5, <3>2, <4>1
    <3>3. CASE k \notin {"hdr", "src"}
      <4>1. \A p \in Path : file[p] # [kind |-> k, whole |-> TRUE]
        BY <2>4, <3>3 DEF Kind
      <4> QED
        BY <2>5, <3>3, <4>1
    <3> QED
      BY <3>1, <3>2, <3>3
  <2>7. \A k \in Kind : Cardinality(Text(k)) =
           IF (k = "hdr" /\ w) \/ (k = "src" /\ v /\ a.path # b.path) THEN 1 ELSE 0
    BY <1>2, <1>3, <2>6
  <2>8. \A p \in Path : file[p].whole \/ file[p].kind \in lost
    BY <2>4, <2>b
  <2> QED
    BY <1>6, <2>3, <2>7, <2>8, <2>a DEF TextsMade
<1> QED
  BY <1>4, <1>5, <1>6

LEMMA FailStep ==
  ToolInv /\ [ToolNext]_tool_vars =>
    [doing' = "failed" /\ doing # "run" =>
       \A p \in Path : file'[p].whole \/ file'[p].kind \in lost']_tool_vars
<1> SUFFICES ASSUME ToolInv, ToolNext, doing' = "failed", doing # "run"
             PROVE  \A p \in Path : file'[p].whole \/ file'[p].kind \in lost'
  OBVIOUS
<1>1. doing \in {"options", "input", "template", "output"} /\ file' = file /\ lost' = lost
  BY DEF ToolNext, getopt, bad_option, help, options_end, yyparse, read_template, fopen,
         mtemplate_run_stdio, GivesUp
<1>2. CASE doing \in {"options", "input"}
  BY <1>1, <1>2, BlankTyped DEF ToolInv
<1>3. CASE doing \in {"template", "output"}
  BY <1>1, <1>3, RenderingTyped DEF ToolInv
<1> QED
  BY <1>1, <1>2, <1>3

(* cfsm and xtc write each text that their options ask for to a place of   *)
(* its own, whole unless its own fclose() lost the end of it, and neither  *)
(* that loss nor a failure before the writing breaks any other file.       *)
THEOREM ToolsMakeWhatWasAsked ==
  ASSUME ToolAssumption
  PROVE  ToolSpec => MadeWhatWasAsked
<1>1. ToolInit => ToolInv
  BY ToolInitInv
<1> QED
  BY <1>1, ToolStep, ToolInvTextsMade, FailStep, PTL DEF ToolSpec, MadeWhatWasAsked, FailKeepsOld

-----------------------------------------------------------------------------
(* Mnamespace                                                              *)

(* Steps and locations. *)
LEMMA StepIs ==
  ASSUME NEW s \in Step
  PROVE  /\ s.by \in {".", "[", "?"}
         /\ s.by = "." => s.name \in Name \cup {""} /\ s = [by |-> ".", name |-> s.name]
         /\ s.by = "[" => s.ndx \in Index \cup {-1} /\ s = [by |-> "[", ndx |-> s.ndx]
BY DEF Step

LEMMA ValidIs ==
  ASSUME SpaceAssumption, NEW s \in Step, Valid(s)
  PROVE  \/ s.by = "." /\ s.name \in Name /\ s.name # "" /\ Container(s) = "MDICT"
         \/ s.by = "[" /\ s.ndx \in Nat /\ Container(s) = "MARRAY"
BY StepIs DEF SpaceAssumption, Valid, Container

LEMMA LocationIs ==
  ASSUME SpaceAssumption, NEW l \in Location
  PROVE  /\ l \in Seq(Step) /\ Len(l) \in Nat \ {0}
         /\ l[1].by = "." /\ Valid(l[1]) /\ \A k \in 1..Len(l) : l[k] \in Step
<1>1. PICK n \in 1..Steps : l \in [1..n -> Step]
  BY DEF Location
<1>2. n \in Nat \ {0}
  <2>1. Steps \in Nat
    BY DEF SpaceAssumption
  <2> QED
    BY <2>1
<1>3. l \in Seq(Step) /\ Len(l) = n
  BY <1>1, <1>2
<1>4. 1 \in 1..Len(l)
  BY <1>2, <1>3
<1>5. l[1].by = "." /\ l[1].name # ""
  BY DEF Location
<1>6. Valid(l[1])
  BY <1>5 DEF Valid
<1> QED
  BY <1>2, <1>3, <1>5, <1>6, ElementOfSeq

-----------------------------------------------------------------------------
(* Objects of a namespace. *)
Leaf == {Absent, Hole} \cup [type : {"MINT"}, value : Nat]
Nodes(U) ==
  U \subseteq Leaf \cup [type : {"MDICT"}, items : [Name -> U]]
                   \cup [type : {"MARRAY"}, items : Seq(U)]

(* Whatever lies below an object has the form of an object.                *)
Formed(v) == \E U : v \in U /\ Nodes(U)

LEMMA ShapeIs ==
  ASSUME NEW U, Nodes(U), NEW v \in U
  PROVE  /\ v.type \in {"NULL", "MNONE", "MINT", "MDICT", "MARRAY"}
         /\ v.type = "NULL" <=> v = Absent
         /\ v.type = "MDICT" => v.items \in [Name -> U]
                                /\ v = [type |-> "MDICT", items |-> v.items]
         /\ v.type = "MARRAY" => v.items \in Seq(U)
                                 /\ v = [type |-> "MARRAY", items |-> v.items]
<1>1. CASE v \in Leaf
  BY <1>1 DEF Leaf, Absent, Hole
<1>2. CASE v \in [type : {"MDICT"}, items : [Name -> U]]
  BY <1>2 DEF Absent
<1>3. CASE v \in [type : {"MARRAY"}, items : Seq(U)]
  BY <1>3 DEF Absent
<1> QED
  BY <1>1, <1>2, <1>3 DEF Nodes

LEMMA LeafFormed ==
  /\ Formed(Absent) /\ Formed(NewDict) /\ Formed(NewArray)
  /\ \A n \in Nat : Formed(Integer(n)) /\ Integer(n).type = "MINT"
<1>1. Nodes({Absent}) /\ Nodes({Absent, NewDict}) /\ Nodes({NewArray})
  <2>1. NewDict \in [type : {"MDICT"}, items : [Name -> {Absent, NewDict}]]
    BY DEF NewDict
  <2>2. NewArray \in [type : {"MARRAY"}, items : Seq({NewArray})]
    BY DEF NewArray
  <2> QED
    BY <2>1, <2>2 DEF Nodes, Leaf
<1>2. \A n \in Nat : Nodes({Integer(n)})
  BY DEF Nodes, Leaf, Integer
<1> QED
  BY <1>1, <1>2 DEF Formed, Integer

LEMMA ItemFormed ==
  ASSUME SpaceAssumption, NEW s \in Step, NEW v, Formed(v)
  PROVE  Formed(item(v, s))
<1>1. PICK U : v \in U /\ Nodes(U)
  BY DEF Formed
<1>2. CASE v.type # Container(s)
  BY <1>2, LeafFormed DEF item
<1>3. CASE v.type = Container(s) /\ s.by = "."
  <2>1. v.items \in [Name -> U]
    BY <1>1, <1>3, ShapeIs DEF Container
  <2>2. s.name = "" \/ v.items[s.name] \in U
    BY <1>3, <2>1, StepIs
  <2>3. s.name # "" => item(v, s) = v.items[s.name]
    BY <1>3 DEF item
  <2>4. s.name = "" => item(v, s) = Absent
    BY <1>3 DEF item
  <2> QED
    BY <1>1, <2>2, <2>3, <2>4, LeafFormed DEF Formed
<1>4. CASE v.type = Container(s) /\ s.by # "."
  <2>1. s.by = "["
    BY <1>1, <1>4, ShapeIs, StepIs DEF Container
  <2>2. v.items \in Seq(U) /\ Len(v.items) \in Nat
    BY <1>1, <1>4, <2>1, ShapeIs, LenProperties DEF Container
  <2>3. CASE s.ndx \in 0..(Len(v.items) - 1)
    <3>1. s.ndx + 1 \in 1..Len(v.items)
      BY <2>2, <2>3
    <3>2. v.items[s.ndx + 1] \in U
      BY <2>2, <3>1, ElementOfSeq
    <3>3. item(v, s) = v.items[s.ndx + 1]
      BY <1>4, <2>3 DEF item
    <3> QED
      BY <1>1, <3>2, <3>3 DEF Formed
  <2>4. CASE s.ndx \notin 0..(Len(v.items) - 1)
    <3>1. item(v, s) = Absent
      BY <1>4, <2>4 DEF item
    <3> QED
      BY <3>1, LeafFormed
  <2> QED
    BY <2>3, <2>4
<1> QED
  BY <1>2, <1>3, <1>4

(* replace() on a container that the step fits. *)
IsPadded(f, U, items, ndx, x) ==
  /\ f \in Seq(U) /\ Len(f) \in Nat /\ ndx < Len(f) /\ Len(items) <= Len(f)
  /\ f[ndx + 1] = x
  /\ \A k \in 1..Len(items) : k # ndx + 1 => f[k] = items[k]

LEMMA PaddedIs ==
  ASSUME NEW U, NEW items \in Seq(U), NEW ndx \in Nat, NEW x \in U, Hole \in U
  PROVE  IsPadded(padded(items, ndx, x), U, items, ndx, x)
<1>1. PICK n \in Nat : n = Len(items)
  BY LenProperties
<1>2. PICK m \in Nat : m = (IF ndx < n THEN n ELSE ndx + 1) /\ n <= m /\ ndx < m
  BY <1>1
<1>3. \A k \in 1..n : items[k] \in U
  BY <1>1, ElementOfSeq
<1> DEFINE e(k) == IF k = ndx + 1 THEN x ELSE IF k <= n THEN items[k] ELSE Hole
<1>4. padded(items, ndx, x) = [k \in 1..m |-> e(k)]
  BY <1>1, <1>2 DEF padded
<1>5. \A k \in 1..m : e(k) \in U
  BY <1>3
<1>6. PICK f : f = padded(items, ndx, x)
  OBVIOUS
<1>7. f \in [1..m -> U]
  BY <1>4, <1>5, <1>6
<1>8. f \in Seq(U) /\ Len(f) = m
  BY <1>7
<1>9. ndx + 1 \in 1..m
  BY <1>2
<1>10. f[ndx + 1] = x
  BY <1>4, <1>6, <1>9
<1>11. \A k \in 1..n : k # ndx + 1 => f[k] = items[k]
  BY <1>2, <1>4, <1>6
<1> QED
  BY <1>1, <1>2, <1>6, <1>8, <1>10, <1>11 DEF IsPadded

LEMMA ReplaceDict ==
  ASSUME SpaceAssumption, NEW s \in Step, Valid(s), s.by = ".",
         NEW v, Formed(v), v.type = Container(s), NEW x, Formed(x)
  PROVE  LET w == replace(v, s, x) IN
         /\ Formed(w) /\ w.type = v.type /\ item(w, s) = x
         /\ \A t \in Step : t # s => item(w, t) = item(v, t) \/ item(v, t) = Absent
<1>1. PICK U, W : v \in U /\ Nodes(U) /\ x \in W /\ Nodes(W)
  BY DEF Formed
<1>2. s.name \in Name /\ s.name # "" /\ Container(s) = "MDICT"
  BY ValidIs
<1>3. v.items \in [Name -> U] /\ v = [type |-> "MDICT", items |-> v.items]
  BY <1>1, <1>2, ShapeIs
<1>4. PICK items, w : items = [v.items EXCEPT ![s.name] = x] /\ w = [type |-> "MDICT", items |-> items]
  OBVIOUS
<1>5. w = replace(v, s, x)
  BY <1>3, <1>4 DEF replace
<1>6. items \in [Name -> U \cup W] /\ items[s.name] = x
      /\ \A n \in Name : n # s.name => items[n] = v.items[n]
  BY <1>1, <1>2, <1>3, <1>4
<1>7. Formed(w)
  <2>1. w \in [type : {"MDICT"}, items : [Name -> U \cup W \cup {w}]]
    BY <1>4, <1>6
  <2>2. Nodes(U \cup W \cup {w})
    <3>1. U \subseteq Leaf \cup [type : {"MDICT"}, items : [Name -> U \cup W \cup {w}]]
                           \cup [type : {"MARRAY"}, items : Seq(U \cup W \cup {w})]
      BY <1>1, SeqMonotonic DEF Nodes
    <3>2. W \subseteq Leaf \cup [type : {"MDICT"}, items : [Name -> U \cup W \cup {w}]]
                           \cup [type : {"MARRAY"}, items : Seq(U \cup W \cup {w})]
      BY <1>1, SeqMonotonic DEF Nodes
    <3> QED
      BY <2>1, <3>1, <3>2 DEF Nodes
  <2> QED
    BY <2>2 DEF Formed
<1>8. w.type = "MDICT" /\ w.items = items
  BY <1>4
<1>9. item(w, s) = x
  BY <1>2, <1>6, <1>8 DEF item
<1>10. ASSUME NEW t \in Step, t # s
       PROVE  item(w, t) = item(v, t) \/ item(v, t) = Absent
  <2>1. CASE t.by = "." /\ t.name # ""
    <3>1. t.name \in Name /\ t.name # s.name
      BY <1>10, <2>1, StepIs
    <3>2. item(w, t) = items[t.name] /\ item(v, t) = v.items[t.name]
      BY <1>2, <1>8, <2>1 DEF item, Container
    <3> QED
      BY <1>6, <3>1, <3>2
  <2>2. CASE ~(t.by = "." /\ t.name # "")
    <3>1. item(v, t) = Absent
      BY <1>2, <2>2 DEF item, Container
    <3> QED
      BY <3>1
  <2> QED
    BY <2>1, <2>2
<1> QED
  BY <1>2, <1>5, <1>7, <1>8, <1>9, <1>10

LEMMA ReplaceArray ==
  ASSUME SpaceAssumption, NEW s \in Step, Valid(s), s.by = "[",
         NEW v, Formed(v), v.type = Container(s), NEW x, Formed(x)
  PROVE  LET w == replace(v, s, x) IN
         /\ Formed(w) /\ w.type = v.type /\ item(w, s) = x
         /\ \A t \in Step : t # s => item(w, t) = item(v, t) \/ item(v, t) = Absent
<1>1. PICK U, W : v \in U /\ Nodes(U) /\ x \in W /\ Nodes(W)
  BY DEF Formed
<1>2. PICK ndx \in Nat : ndx = s.ndx /\ Container(s) = "MARRAY"
  BY ValidIs
<1>3. v.items \in Seq(U) /\ v = [type |-> "MARRAY", items |-> v.items]
  BY <1>1, <1>2, ShapeIs
<1>4. PICK V : V = U \cup W \cup {Hole}
  OBVIOUS
<1>5. PICK items, w : items = padded(v.items, ndx, x) /\ w = [type |-> "MARRAY", items |-> items]
  OBVIOUS
<1>6. w = replace(v, s, x)
  BY <1>2, <1>3, <1>5 DEF replace
<1>7. PICK q \in Seq(V) : q = v.items
  BY <1>1, <1>3, <1>4, SeqMonotonic
<1>8. x \in V /\ Hole \in V
  BY <1>1, <1>4
<1>9. /\ items \in Seq(V) /\ Len(items) \in Nat /\ ndx < Len(items) /\ Len(q) <= Len(items)
      /\ items[ndx + 1] = x
      /\ \A k \in 1..Len(q) : k # ndx + 1 => items[k] = q[k]
  <2>1. IsPadded(padded(q, ndx, x), V, q, ndx, x)
    BY <1>8, PaddedIs
  <2>2. items = padded(q, ndx, x)
    BY <1>5, <1>7
  <2> QED
    BY <2>1, <2>2 DEF IsPadded
<1>10. PICK n \in Nat, m \in Nat : n = Len(q) /\ m = Len(items)
  BY <1>9, LenProperties
<1>11. /\ n = Len(v.items) /\ m = Len(items)
      /\ items \in Seq(V) /\ ndx < m /\ n <= m /\ items[ndx + 1] = x
      /\ \A k \in 1..n : k # ndx + 1 => items[k] = v.items[k]
  BY <1>7, <1>9, <1>10
<1>12. Formed(w)
  <2>1. V \subseteq V \cup {w} /\ U \subseteq V \cup {w} /\ W \subseteq V \cup {w}
    BY <1>4
  <2>2. w \in [type : {"MARRAY"}, items : Seq(V \cup {w})]
    <3>1. items \in Seq(V \cup {w})
      BY <1>11, <2>1, SeqMonotonic
    <3> QED
      BY <1>5, <3>1
  <2>3. Nodes(V \cup {w})
    <3>1. U \subseteq Leaf \cup [type : {"MDICT"}, items : [Name -> V \cup {w}]]
                           \cup [type : {"MARRAY"}, items : Seq(V \cup {w})]
      BY <1>1, <2>1, SeqMonotonic DEF Nodes
    <3>2. W \subseteq Leaf \cup [type : {"MDICT"}, items : [Name -> V \cup {w}]]
                           \cup [type : {"MARRAY"}, items : Seq(V \cup {w})]
      BY <1>1, <2>1, SeqMonotonic DEF Nodes
    <3> QED
      BY <1>4, <2>2, <3>1, <3>2 DEF Nodes, Leaf
  <2> QED
    BY <2>3 DEF Formed
<1>13. w.type = "MARRAY" /\ w.items = items
  BY <1>5
<1>14. item(w, s) = x
  <2>1. s.by # "." /\ ndx \in 0..(m - 1)
    BY <1>11
  <2> QED
    BY <1>2, <1>11, <1>13, <2>1 DEF item
<1>15. ASSUME NEW t \in Step, t # s
       PROVE  item(w, t) = item(v, t) \/ item(v, t) = Absent
  <2>1. CASE t.by = "[" /\ t.ndx \in 0..(n - 1)
    <3>1. t.ndx # ndx /\ t.ndx \in Nat
      <4>1. t = [by |-> "[", ndx |-> t.ndx] /\ s = [by |-> "[", ndx |-> s.ndx]
        BY <2>1, StepIs
      <4>2. t.ndx # s.ndx
        BY <1>15, <4>1
      <4> QED
        BY <1>2, <2>1, <4>2
    <3>2. t.ndx \in 0..(m - 1) /\ t.ndx + 1 \in 1..n /\ t.ndx + 1 # ndx + 1
      BY <1>11, <2>1, <3>1
    <3>3. Container(t) = "MARRAY" /\ t.by # "."
      BY <2>1 DEF Container
    <3>4. item(w, t) = items[t.ndx + 1]
      BY <1>11, <1>13, <3>2, <3>3 DEF item
    <3>5. item(v, t) = v.items[t.ndx + 1]
      BY <1>2, <1>11, <2>1, <3>3 DEF item
    <3> QED
      BY <1>11, <3>2, <3>4, <3>5
  <2>2. CASE ~(t.by = "[" /\ t.ndx \in 0..(n - 1))
    <3>1. CASE t.by = "["
      <4>1. item(v, t) = Absent
        BY <1>2, <1>11, <2>2, <3>1 DEF item, Container
      <4> QED
        BY <4>1
    <3>2. CASE t.by # "["
      <4>1. item(v, t) = Absent
        BY <1>2, <3>2 DEF item, Container
      <4> QED
        BY <4>1
    <3> QED
      BY <3>1, <3>2
  <2> QED
    BY <2>1, <2>2
<1> QED
  BY <1>2, <1>6, <1>12, <1>13, <1>14, <1>15

LEMMA ReplaceIs ==
  ASSUME SpaceAssumption, NEW s \in Step, Valid(s),
         NEW v, Formed(v), v.type = Container(s), NEW x, Formed(x)
  PROVE  LET w == replace(v, s, x) IN
         /\ Formed(w) /\ w.type = v.type /\ item(w, s) = x
         /\ \A t \in Step : t # s => item(w, t) = item(v, t) \/ item(v, t) = Absent
<1>1. s.by = "." \/ s.by = "["
  BY ValidIs
<1> QED
  BY <1>1, ReplaceArray, ReplaceDict

LEMMA MadeIs ==
  ASSUME SpaceAssumption, NEW s \in Step, Valid(s), NEW next \in Step,
         NEW v, Formed(v), v.type = Container(s)
  PROVE  LET w == made(v, s, next) IN
         /\ Formed(w) /\ w.type = v.type
         /\ item(v, s) # Absent => w = v
         /\ \A t \in Step : t # s => item(w, t) = item(v, t) \/ item(v, t) = Absent
<1>1. CASE made(v, s, next) = v
  BY <1>1
<1>2. CASE made(v, s, next) # v
  <2>1. PICK x \in {NewDict, NewArray} : made(v, s, next) = replace(v, s, x)
    BY <1>2 DEF made
  <2>2. Formed(x)
    BY LeafFormed
  <2>3. item(v, s) = Absent
    BY <1>2 DEF made
  <2> QED
    BY <2>1, <2>2, <2>3, ReplaceIs
<1> QED
  BY <1>1, <1>2

-----------------------------------------------------------------------------
(* A lookup goes from item to item. *)
Looks(g, v, l, n) == g = [k \in 0..n |-> IF k = 0 THEN v ELSE item(g[k - 1], l[k])]

LEMMA LooksExist ==
  ASSUME NEW v, NEW l, NEW n \in Nat
  PROVE  \E g : Looks(g, v, l, n)
<1> DEFINE T == {m \in Nat : ~\E g : Looks(g, v, l, m)}
<1> SUFFICES ASSUME T # {}
             PROVE  FALSE
  OBVIOUS
<1>1. PICK m \in T : \A k \in T : m <= k
  <2>1. T \in SUBSET Nat
    OBVIOUS
  <2> HIDE DEF T
  <2> QED
    BY <2>1, Smallest
<1>2. m # 0
  <2> DEFINE g == [k \in 0..0 |-> v]
  <2>1. \A k \in 0..0 : k = 0
    OBVIOUS
  <2>2. Looks(g, v, l, 0)
    BY <2>1 DEF Looks
  <2> QED
    BY <2>2
<1>3. PICK k \in Nat : m = k + 1 /\ k \notin T
  BY <1>1, <1>2
<1>4. PICK g : Looks(g, v, l, k)
  BY <1>3
<1>5. \A j \in 0..k : g[j] = IF j = 0 THEN v ELSE item(g[j - 1], l[j])
  BY <1>4 DEF Looks
<1> DEFINE h == [j \in 0..(k + 1) |-> IF j = k + 1 THEN item(g[k], l[k + 1]) ELSE g[j]]
<1>6. ASSUME NEW j \in 0..(k + 1)
      PROVE  h[j] = IF j = 0 THEN v ELSE item(h[j - 1], l[j])
  <2>1. CASE j = k + 1
    <3>1. h[k + 1] = item(g[k], l[k + 1]) /\ h[k] = g[k] /\ (k + 1) - 1 = k /\ k + 1 # 0
      OBVIOUS
    <3> HIDE DEF h
    <3> QED
      BY <2>1, <3>1
  <2>2. CASE j \in 0..k
    <3>1. h[j] = g[j] /\ j # k + 1
      BY <2>2
    <3>2. j # 0 => h[j - 1] = g[j - 1]
      BY <2>2
    <3> HIDE DEF h
    <3> QED
      BY <1>5, <2>2, <3>1, <3>2
  <2> HIDE DEF h
  <2> QED
    BY <2>1, <2>2
<1>7. Looks(h, v, l, k + 1)
  <2>1. h = [j \in 0..(k + 1) |-> h[j]]
    OBVIOUS
  <2> HIDE DEF h
  <2> QED
    BY <1>6, <2>1 DEF Looks
<1> QED
  BY <1>1, <1>3, <1>7

LEMMA LookupIs ==
  ASSUME NEW v, NEW l \in Seq(Step)
  PROVE  \E g : /\ g[0] = v /\ \A k \in 1..Len(l) : g[k] = item(g[k - 1], l[k])
                /\ mnamespace_lookup(v, l) = g[Len(l)]
<1>1. Len(l) \in Nat
  BY LenProperties
<1>2. PICK g : g = (CHOOSE f : Looks(f, v, l, Len(l))) /\ Looks(g, v, l, Len(l))
  BY <1>1, LooksExist
<1>3. mnamespace_lookup(v, l) = g[Len(l)]
  BY <1>2 DEF mnamespace_lookup, Looks
<1>4. \A k \in 0..Len(l) : g[k] = IF k = 0 THEN v ELSE item(g[k - 1], l[k])
  BY <1>2 DEF Looks
<1>5. 0 \in 0..Len(l) /\ \A k \in 1..Len(l) : k \in 0..Len(l) /\ k # 0
  BY <1>1
<1> QED
  BY <1>3, <1>4, <1>5

(* mnamespace_set() goes from container to container, ... *)
Comes(c, v, l, n) ==
  c = [k \in 1..n |-> IF k = 1 THEN v ELSE item(made(c[k - 1], l[k - 1], l[k]), l[k - 1])]

LEMMA ComesExist ==
  ASSUME NEW v, NEW l, NEW n \in Nat
  PROVE  \E c : Comes(c, v, l, n)
<1> DEFINE T == {m \in Nat : ~\E c : Comes(c, v, l, m)}
<1> SUFFICES ASSUME T # {}
             PROVE  FALSE
  OBVIOUS
<1>1. PICK m \in T : \A k \in T : m <= k
  <2>1. T \in SUBSET Nat
    OBVIOUS
  <2> HIDE DEF T
  <2> QED
    BY <2>1, Smallest
<1>2. m # 0
  <2> DEFINE c == [k \in 1..0 |-> v]
  <2>1. \A k \in 1..0 : k = 1
    OBVIOUS
  <2>2. Comes(c, v, l, 0)
    BY <2>1 DEF Comes
  <2> QED
    BY <2>2
<1>3. PICK k \in Nat : m = k + 1 /\ k \notin T
  BY <1>1, <1>2
<1>4. PICK c : Comes(c, v, l, k)
  BY <1>3
<1> DEFINE E(f, j) == IF j = 1 THEN v ELSE item(made(f[j - 1], l[j - 1], l[j]), l[j - 1])
<1>5. \A j \in 1..k : c[j] = E(c, j)
  BY <1>4 DEF Comes
<1> DEFINE h == [j \in 1..(k + 1) |-> IF j = k + 1 THEN E(c, k + 1) ELSE c[j]]
<1>6. ASSUME NEW j \in 1..(k + 1)
      PROVE  h[j] = E(h, j)
  <2>1. j # 1 => h[j - 1] = c[j - 1]
    OBVIOUS
  <2>2. E(h, j) = E(c, j)
    <3> HIDE DEF h
    <3> QED
      BY <2>1
  <2>3. CASE j = k + 1
    <3>1. h[j] = E(c, k + 1)
      BY <2>3
    <3> HIDE DEF h, E
    <3> QED
      BY <2>2, <2>3, <3>1
  <2>4. CASE j \in 1..k
    <3>1. h[j] = c[j]
      BY <2>4
    <3> HIDE DEF h, E
    <3> QED
      BY <1>5, <2>2, <2>4, <3>1
  <2> HIDE DEF h, E
  <2> QED
    BY <2>3, <2>4
<1>7. Comes(h, v, l, k + 1)
  <2>1. h = [j \in 1..(k + 1) |-> h[j]]
    OBVIOUS
  <2> HIDE DEF h
  <2> QED
    BY <1>6, <2>1 DEF Comes
<1> QED
  BY <1>1, <1>3, <1>7

LEMMA CurrentIs ==
  ASSUME NEW v, NEW l \in Seq(Step), Len(l) # 0
  PROVE  LET c == Current(v, l) IN
         /\ c[1] = v
         /\ \A k \in 1..(Len(l) - 1) : c[k + 1] = item(made(c[k], l[k], l[k + 1]), l[k])
<1>1. PICK n \in Nat : n = Len(l) /\ n # 0
  BY LenProperties
<1>2. PICK c : c = Current(v, l)
  OBVIOUS
<1>3. c = CHOOSE f : Comes(f, v, l, n)
  BY <1>1, <1>2 DEF Current, Comes
<1>4. Comes(c, v, l, n)
  BY <1>3, ComesExist
<1>5. \A k \in 1..n : c[k] = IF k = 1 THEN v ELSE item(made(c[k - 1], l[k - 1], l[k]), l[k - 1])
  BY <1>4 DEF Comes
<1>6. c[1] = v
  BY <1>1, <1>5
<1>7. ASSUME NEW k \in 1..(n - 1)
      PROVE  c[k + 1] = item(made(c[k], l[k], l[k + 1]), l[k])
  <2>1. k + 1 \in 1..n /\ k + 1 # 1 /\ (k + 1) - 1 = k
    BY <1>1
  <2> QED
    BY <1>5, <2>1
<1> QED
  BY <1>1, <1>2, <1>6, <1>7

(* ... and what that makes of them goes back. *)
Back(a, c, l, e, x, j) ==
  IF j = 0 THEN changed(c, l, e, x)
  ELSE replace(made(c[e - j], l[e - j], l[e - j + 1]), l[e - j], a[j - 1])
Goes(a, c, l, e, x, n) == a = [j \in 0..n |-> Back(a, c, l, e, x, j)]

LEMMA GoesExist ==
  ASSUME NEW c, NEW l, NEW e, NEW x, NEW n \in Nat
  PROVE  \E a : Goes(a, c, l, e, x, n)
<1> DEFINE T == {m \in Nat : ~\E a : Goes(a, c, l, e, x, m)}
<1> SUFFICES ASSUME T # {}
             PROVE  FALSE
  OBVIOUS
<1>1. PICK m \in T : \A k \in T : m <= k
  <2>1. T \in SUBSET Nat
    OBVIOUS
  <2> HIDE DEF T
  <2> QED
    BY <2>1, Smallest
<1>2. m # 0
  <2> DEFINE a == [j \in 0..0 |-> changed(c, l, e, x)]
  <2>1. \A j \in 0..0 : j = 0
    OBVIOUS
  <2>2. \A j \in 0..0 : Back(a, c, l, e, x, j) = changed(c, l, e, x)
    BY <2>1 DEF Back
  <2>3. Goes(a, c, l, e, x, 0)
    BY <2>2 DEF Goes
  <2> QED
    BY <2>3
<1>3. PICK k \in Nat : m = k + 1 /\ k \notin T
  BY <1>1, <1>2
<1>4. PICK a : Goes(a, c, l, e, x, k)
  BY <1>3
<1>5. \A j \in 0..k : a[j] = Back(a, c, l, e, x, j)
  BY <1>4 DEF Goes
<1> DEFINE h == [j \in 0..(k + 1) |-> IF j = k + 1 THEN Back(a, c, l, e, x, k + 1) ELSE a[j]]
<1>6. ASSUME NEW j \in 0..(k + 1)
      PROVE  h[j] = Back(h, c, l, e, x, j)
  <2>1. j # 0 => h[j - 1] = a[j - 1]
    OBVIOUS
  <2>2. Back(h, c, l, e, x, j) = Back(a, c, l, e, x, j)
    <3> HIDE DEF h
    <3> QED
      BY <2>1 DEF Back
  <2>3. CASE j = k + 1
    <3>1. h[j] = Back(a, c, l, e, x, k + 1)
      BY <2>3
    <3> HIDE DEF h
    <3> QED
      BY <2>2, <2>3, <3>1
  <2>4. CASE j \in 0..k
    <3>1. h[j] = a[j]
      BY <2>4
    <3> HIDE DEF h
    <3> QED
      BY <1>5, <2>2, <2>4, <3>1
  <2> HIDE DEF h
  <2> QED
    BY <2>3, <2>4
<1>7. Goes(h, c, l, e, x, k + 1)
  <2>1. h = [j \in 0..(k + 1) |-> h[j]]
    OBVIOUS
  <2> HIDE DEF h
  <2> QED
    BY <1>6, <2>1 DEF Goes
<1> QED
  BY <1>1, <1>3, <1>7

(* The containers from the first to the one where the call ends, before and *)
(* after.                                                                  *)
Way(b, c, l, e, x) ==
  /\ b[e] = changed(c, l, e, x)
  /\ \A k \in 1..(e - 1) : b[k] = replace(made(c[k], l[k], l[k + 1]), l[k], b[k + 1])

LEMMA AfterIs ==
  ASSUME NEW c, NEW l, NEW e \in Nat \ {0}, NEW x
  PROVE  \E b : Way(b, c, l, e, x) /\ After(c, l, e, x)[e - 1] = b[1]
<1>1. PICK n \in Nat : n = e - 1
  OBVIOUS
<1>2. PICK a : a = After(c, l, e, x)
  OBVIOUS
<1>3. a = CHOOSE f : Goes(f, c, l, e, x, n)
  BY <1>1, <1>2 DEF After, Goes, Back
<1>4. Goes(a, c, l, e, x, n)
  BY <1>3, GoesExist
<1>5. \A j \in 0..n : a[j] = Back(a, c, l, e, x, j)
  BY <1>4 DEF Goes
<1> DEFINE b == [k \in 1..e |-> a[e - k]]
<1>6. \A k \in 1..e : b[k] = a[e - k] /\ e - k \in 0..n
  BY <1>1
<1> HIDE DEF b
<1>7. b[1] = a[e - 1]
  BY <1>6
<1>8. b[e] = changed(c, l, e, x)
  <2>1. b[e] = a[0] /\ 0 \in 0..n
    BY <1>6
  <2> QED
    BY <1>5, <2>1 DEF Back
<1>9. ASSUME NEW k \in 1..(e - 1)
      PROVE  b[k] = replace(made(c[k], l[k], l[k + 1]), l[k], b[k + 1])
  <2>1. PICK j \in 1..n : j = e - k /\ k = e - j /\ k + 1 \in 1..e /\ e - (k + 1) = j - 1
    BY <1>1
  <2>2. b[k] = a[j] /\ b[k + 1] = a[j - 1]
    BY <1>6, <2>1
  <2>3. a[j] = Back(a, c, l, e, x, j)
    BY <1>5, <2>1
  <2>4. a[j] = replace(made(c[e - j], l[e - j], l[e - j + 1]), l[e - j], a[j - 1])
    BY <2>1, <2>3 DEF Back
  <2> QED
    BY <2>1, <2>2, <2>4
<1> QED
  BY <1>2, <1>7, <1>8, <1>9 DEF Way

(* Every location has an end, before which nothing stops the call. *)
LEMMA EndIs ==
  ASSUME NEW c, NEW l \in Seq(Step), Len(l) # 0
  PROVE  LET e == End(c, l) IN
         /\ e \in 1..Len(l) /\ e \in Nat \ {0} /\ Ends(c, l, e)
         /\ \A k \in 1..(e - 1) : ~Ends(c, l, k)
<1>1. PICK n \in Nat : n = Len(l) /\ n # 0
  BY LenProperties
<1> DEFINE T == {k \in 1..n : Ends(c, l, k)}
<1>2. n \in T
  BY <1>1 DEF Ends
<1>3. PICK m \in T : \A k \in T : m <= k
  <2>1. T \in SUBSET Nat /\ T # {}
    BY <1>2
  <2> HIDE DEF T
  <2> QED
    BY <2>1, Smallest
<1>4. m \in 1..n /\ Ends(c, l, m)
  OBVIOUS
<1>5. \A k \in 1..(m - 1) : ~Ends(c, l, k)
  <2>1. ASSUME NEW k \in 1..(m - 1)
        PROVE  ~Ends(c, l, k)
    <3>1. k \in 1..n /\ ~(m <= k)
      BY <1>4
    <3> QED
      BY <1>3, <3>1
  <2> QED
    BY <2>1
<1>6. \E k \in 1..Len(l) : Ends(c, l, k) /\ \A j \in 1..(k - 1) : ~Ends(c, l, j)
  BY <1>1, <1>4, <1>5
<1>7. PICK e : e = End(c, l)
  OBVIOUS
<1>8. e \in 1..n /\ Ends(c, l, e) /\ \A j \in 1..(e - 1) : ~Ends(c, l, j)
  BY <1>1, <1>6, <1>7 DEF End
<1> QED
  BY <1>1, <1>7, <1>8

-----------------------------------------------------------------------------
(* Each container on the way has the form of one, and its step fits it.    *)
Suits(c, l, k) == /\ l[k] \in Step /\ Valid(l[k])
                 /\ Formed(c[k]) /\ c[k].type = Container(l[k])

LEMMA WaySuits ==
  ASSUME SpaceAssumption, NEW v, Formed(v), v.type = "MDICT", NEW l \in Location,
         NEW c, c = Current(v, l), NEW e, e = End(c, l)
  PROVE  \A k \in 1..e : Suits(c, l, k)
<1>1. /\ l \in Seq(Step) /\ Len(l) # 0 /\ l[1].by = "." /\ Valid(l[1])
      /\ \A k \in 1..Len(l) : l[k] \in Step
  BY LocationIs
<1>2. /\ e \in 1..Len(l) /\ e \in Nat /\ Len(l) \in Nat
      /\ \A k \in 1..(e - 1) : ~Ends(c, l, k)
  BY <1>1, EndIs, LenProperties
<1>3. /\ c[1] = v
      /\ \A k \in 1..(Len(l) - 1) : c[k + 1] = item(made(c[k], l[k], l[k + 1]), l[k])
  BY <1>1, CurrentIs
<1> DEFINE T == {k \in Nat : k \in 1..e /\ ~Suits(c, l, k)}
<1> SUFFICES ASSUME T # {}
             PROVE  FALSE
  BY <1>2
<1>4. PICK k \in T : \A j \in T : k <= j
  <2>1. T \in SUBSET Nat
    OBVIOUS
  <2> HIDE DEF T
  <2> QED
    BY <2>1, Smallest
<1>5. k \in Nat /\ k \in 1..e /\ ~Suits(c, l, k)
  BY <1>4
<1>6. k # 1
  <2>1. Container(l[1]) = "MDICT" /\ l[1] \in Step
    BY <1>1, <1>2 DEF Container
  <2>2. Suits(c, l, 1)
    BY <1>1, <1>3, <2>1 DEF Suits
  <2> QED
    BY <1>5, <2>2
<1>7. PICK j \in Nat : j = k - 1 /\ k = j + 1 /\ j \in 1..e /\ j \in 1..(e - 1) /\ ~(k <= j)
                       /\ j \in 1..(Len(l) - 1) /\ k \in 1..Len(l) /\ j # Len(l)
  BY <1>2, <1>5, <1>6
<1>8. Suits(c, l, j)
  BY <1>4, <1>7
<1>9. ~Ends(c, l, j)
  BY <1>2, <1>7
<1>10. l[k] \in Step /\ Valid(l[k]) /\ c[k].type = Container(l[k])
  BY <1>1, <1>7, <1>9 DEF Ends
<1>11. Formed(made(c[j], l[j], l[k]))
  BY <1>8, <1>10, MadeIs DEF Suits
<1>12. Formed(c[k])
  <2>1. c[k] = item(made(c[j], l[j], l[k]), l[j])
    BY <1>3, <1>7
  <2> QED
    BY <1>8, <1>11, <2>1, ItemFormed DEF Suits
<1> QED
  BY <1>5, <1>10, <1>12 DEF Suits

(* What a call that comes this way makes of a container: of the entries     *)
(* that are there only the one of its step may differ.                     *)
Keeps(w, v, s) ==
  /\ Formed(w) /\ w.type = v.type
  /\ \A t \in Step : t # s => item(w, t) = item(v, t) \/ item(v, t) = Absent

LEMMA ChangedIs ==
  ASSUME SpaceAssumption, NEW l \in Location, NEW e \in 1..Len(l), NEW c, Suits(c, l, e),
         NEW x, Formed(x)
  PROVE  LET w == changed(c, l, e, x) IN
         /\ Keeps(w, c[e], l[e])
         /\ IF e = Len(l) /\ Settable(l[e]) THEN item(w, l[e]) = x
            ELSE w = c[e] \/ item(c[e], l[e]) = Absent
<1>1. /\ Len(l) \in Nat /\ \A k \in 1..Len(l) : l[k] \in Step
  BY LocationIs
<1>2. PICK s, v : s = l[e] /\ v = c[e]
  OBVIOUS
<1>3. s \in Step /\ Valid(s) /\ Formed(v) /\ v.type = Container(s)
  BY <1>2 DEF Suits
<1>4. PICK w : w = changed(c, l, e, x)
  OBVIOUS
<1>5. CASE e < Len(l)
  <2>1. PICK next \in Step : next = l[e + 1]
    <3>1. e + 1 \in 1..Len(l)
      BY <1>1, <1>5
    <3> QED
      BY <1>1, <3>1
  <2>2. w = made(v, s, next) /\ e # Len(l)
    BY <1>1, <1>2, <1>4, <1>5, <2>1 DEF changed
  <2>3. Keeps(w, v, s) /\ (item(v, s) # Absent => w = v)
    BY <1>3, <2>2, MadeIs DEF Keeps
  <2> QED
    BY <1>2, <1>4, <2>2, <2>3
<1>6. CASE e = Len(l) /\ Settable(s)
  <2>1. w = replace(v, s, x)
    BY <1>1, <1>2, <1>4, <1>6 DEF changed
  <2>2. Keeps(w, v, s) /\ item(w, s) = x
    BY <1>3, <2>1, ReplaceIs DEF Keeps
  <2> QED
    BY <1>2, <1>4, <1>6, <2>2
<1>7. CASE e = Len(l) /\ ~Settable(s)
  <2>1. w = v
    BY <1>1, <1>2, <1>4, <1>7 DEF changed
  <2>2. Keeps(v, v, s)
    BY <1>3 DEF Keeps
  <2> QED
    BY <1>2, <1>4, <1>7, <2>1, <2>2
<1> QED
  BY <1>1, <1>2, <1>5, <1>6, <1>7

LEMMA BackIs ==
  ASSUME SpaceAssumption, NEW s \in Step, Valid(s), NEW next \in Step,
         NEW v, Formed(v), v.type = Container(s), NEW x, Formed(x)
  PROVE  LET w == replace(made(v, s, next), s, x) IN Keeps(w, v, s) /\ item(w, s) = x
<1>1. PICK u : u = made(v, s, next)
  OBVIOUS
<1>2. /\ Formed(u) /\ u.type = v.type
      /\ \A t \in Step : t # s => item(u, t) = item(v, t) \/ item(v, t) = Absent
  BY <1>1, MadeIs
<1>3. PICK w : w = replace(u, s, x)
  OBVIOUS
<1>4. /\ Formed(w) /\ w.type = u.type /\ item(w, s) = x
      /\ \A t \in Step : t # s => item(w, t) = item(u, t) \/ item(u, t) = Absent
  BY <1>2, <1>3, ReplaceIs
<1>5. \A t \in Step : t # s => item(w, t) = item(v, t) \/ item(v, t) = Absent
  BY <1>2, <1>4
<1> QED
  BY <1>1, <1>2, <1>3, <1>4, <1>5 DEF Keeps

(* A call, container by container: b is what it makes of c.                *)
Leads(b, c, l, e) ==
  /\ \A k \in 1..e : c[k].type = Container(l[k]) /\ Keeps(b[k], c[k], l[k])
  /\ \A k \in 1..(e - 1) :
       /\ item(b[k], l[k]) = b[k + 1]
       /\ c[k + 1] = item(c[k], l[k]) \/ item(c[k], l[k]) = Absent

LEMMA CallLeads ==
  ASSUME SpaceAssumption, NEW v, Formed(v), v.type = "MDICT", NEW l \in Location,
         NEW c, c = Current(v, l), NEW e, e = End(c, l), NEW x, Formed(x),
         NEW b, Way(b, c, l, e, x)
  PROVE  Leads(b, c, l, e)
<1>1. /\ l \in Seq(Step) /\ Len(l) # 0 /\ \A k \in 1..Len(l) : l[k] \in Step
  BY LocationIs
<1>2. e \in 1..Len(l) /\ e \in Nat /\ e # 0 /\ Len(l) \in Nat
  BY <1>1, EndIs, LenProperties
<1>3. \A k \in 1..(Len(l) - 1) : c[k + 1] = item(made(c[k], l[k], l[k + 1]), l[k])
  BY <1>1, CurrentIs
<1>4. \A k \in 1..e : Suits(c, l, k)
  BY WaySuits
<1>5. Keeps(b[e], c[e], l[e])
  <2>1. Suits(c, l, e)
    BY <1>2, <1>4
  <2> QED
    BY <1>2, <2>1, ChangedIs DEF Way
<1>6. ASSUME NEW k \in 1..(e - 1), Keeps(b[k + 1], c[k + 1], l[k + 1])
      PROVE  Keeps(b[k], c[k], l[k]) /\ item(b[k], l[k]) = b[k + 1]
  <2>1. k \in 1..e /\ k + 1 \in 1..Len(l)
    BY <1>2
  <2>2. PICK next \in Step : next = l[k + 1]
    BY <1>1, <2>1
  <2>3. PICK s, u, y : s = l[k] /\ u = c[k] /\ y = b[k + 1]
    OBVIOUS
  <2>4. s \in Step /\ Valid(s) /\ Formed(u) /\ u.type = Container(s)
    BY <1>4, <2>1, <2>3 DEF Suits
  <2>5. Formed(y)
    BY <1>6, <2>3 DEF Keeps
  <2>6. b[k] = replace(made(u, s, next), s, y)
    BY <2>2, <2>3 DEF Way
  <2> QED
    BY <2>3, <2>4, <2>5, <2>6, BackIs
<1> DEFINE T == {j \in Nat : e - j \in 1..e /\ ~Keeps(b[e - j], c[e - j], l[e - j])}
<1>7. T = {}
  <2> SUFFICES ASSUME T # {}
               PROVE  FALSE
    OBVIOUS
  <2>1. PICK j \in T : \A i \in T : j <= i
    <3>1. T \in SUBSET Nat
      OBVIOUS
    <3> HIDE DEF T
    <3> QED
      BY <3>1, Smallest
  <2>2. PICK k \in 1..e : k = e - j /\ ~Keeps(b[k], c[k], l[k]) /\ j \in Nat
    BY <2>1
  <2>3. k # e
    BY <1>5, <2>2
  <2>4. k \in 1..(e - 1) /\ k + 1 = e - (j - 1) /\ j - 1 \in Nat /\ k + 1 \in 1..e /\ ~(j <= j - 1)
    BY <1>2, <2>2, <2>3
  <2>5. j - 1 \notin T
    BY <2>1, <2>4
  <2>6. Keeps(b[k + 1], c[k + 1], l[k + 1])
    BY <2>4, <2>5
  <2> QED
    BY <1>6, <2>2, <2>4, <2>6
<1>8. ASSUME NEW k \in 1..e
      PROVE  Keeps(b[k], c[k], l[k])
  <2>1. PICK j \in Nat : j = e - k /\ k = e - j
    BY <1>2
  <2> QED
    BY <1>7, <2>1
<1>9. ASSUME NEW k \in 1..(e - 1)
      PROVE  /\ item(b[k], l[k]) = b[k + 1]
             /\ c[k + 1] = item(c[k], l[k]) \/ item(c[k], l[k]) = Absent
  <2>1. k + 1 \in 1..e /\ k \in 1..e /\ k \in 1..(Len(l) - 1) /\ k + 1 \in 1..Len(l)
    BY <1>2
  <2>2. item(b[k], l[k]) = b[k + 1]
    BY <1>6, <1>8, <2>1
  <2>3. item(c[k], l[k]) # Absent => made(c[k], l[k], l[k + 1]) = c[k]
    <3>1. PICK next \in Step : next = l[k + 1]
      BY <1>1, <2>1
    <3>2. PICK s, u : s = l[k] /\ u = c[k]
      OBVIOUS
    <3>3. s \in Step /\ Valid(s) /\ Formed(u) /\ u.type = Container(s)
      BY <1>4, <2>1, <3>2 DEF Suits
    <3> QED
      BY <3>1, <3>2, <3>3, MadeIs
  <2> QED
    BY <1>3, <2>1, <2>2, <2>3
<1> QED
  BY <1>4, <1>8, <1>9 DEF Leads, Suits

-----------------------------------------------------------------------------
(* A call that reaches the end of its location stores its value there.     *)
LEMMA Stored ==
  ASSUME SpaceAssumption, NEW l \in Location, NEW e, e = Len(l), NEW b, NEW c,
         Leads(b, c, l, e), NEW x, item(b[e], l[e]) = x
  PROVE  mnamespace_lookup(b[1], l) = x
<1>1. l \in Seq(Step) /\ e \in Nat /\ e # 0
  BY LocationIs
<1>2. PICK g : /\ g[0] = b[1] /\ \A k \in 1..e : g[k] = item(g[k - 1], l[k])
               /\ mnamespace_lookup(b[1], l) = g[e]
  BY <1>1, LookupIs
<1> DEFINE T == {k \in Nat : k < e /\ g[k] # b[k + 1]}
<1>3. T = {}
  <2> SUFFICES ASSUME T # {}
               PROVE  FALSE
    OBVIOUS
  <2>1. PICK k \in T : \A i \in T : k <= i
    <3>1. T \in SUBSET Nat
      OBVIOUS
    <3> HIDE DEF T
    <3> QED
      BY <3>1, Smallest
  <2>2. k \in Nat /\ k < e /\ g[k] # b[k + 1]
    OBVIOUS
  <2>3. k # 0
    BY <1>2, <2>2
  <2>4. PICK j \in Nat : j = k - 1 /\ k = j + 1 /\ j < e /\ k \in 1..(e - 1) /\ ~(k <= j) /\ k \in 1..e
    BY <1>1, <2>2, <2>3
  <2>5. g[j] = b[k]
    BY <2>1, <2>4
  <2>6. item(b[k], l[k]) = b[k + 1]
    BY <2>4 DEF Leads
  <2> QED
    BY <1>2, <2>2, <2>4, <2>5, <2>6
<1>4. PICK j \in Nat : j = e - 1 /\ e = j + 1 /\ j < e /\ e \in 1..e
  BY <1>1
<1>5. g[j] = b[e]
  BY <1>3, <1>4
<1> QED
  BY <1>2, <1>4, <1>5

(* The walks of a lookup before and after a call: on the way of the call,  *)
(* or off it, where what was found is found still.                         *)
OnWay(g, h, b, c, l, m, e, k) ==
  k < e /\ (\A i \in 1..k : m[i] = l[i]) /\ g[k] = c[k + 1] /\ h[k] = b[k + 1]
OffWay(g, h, k) == h[k] = g[k] \/ g[k] = Absent

LEMMA AbsentHasNone == \A s : item(Absent, s) = Absent
BY DEF item, Absent, Container

LEMMA OtherKept ==
  ASSUME SpaceAssumption, NEW l \in Location, NEW m \in Location,
         NEW e \in 1..Len(l), NEW b, NEW c, Leads(b, c, l, e),
         (e = Len(l) /\ Settable(l[e]))
           \/ b[e] = c[e] \/ item(c[e], l[e]) = Absent,
         e = Len(l) /\ Settable(l[e]) => ~Under(l, m),
         mnamespace_lookup(c[1], m).type = "MINT"
  PROVE  mnamespace_lookup(b[1], m) = mnamespace_lookup(c[1], m)
<1>1. /\ m \in Seq(Step) /\ \A k \in 1..Len(m) : m[k] \in Step
      /\ \A k \in 1..Len(l) : l[k] \in Step
  BY LocationIs
<1>2. PICK n \in Nat : n = Len(m)
  BY LocationIs
<1>3. PICK g : /\ g[0] = c[1] /\ \A k \in 1..n : g[k] = item(g[k - 1], m[k])
               /\ mnamespace_lookup(c[1], m) = g[n]
  BY <1>1, <1>2, LookupIs
<1>4. PICK h : /\ h[0] = b[1] /\ \A k \in 1..n : h[k] = item(h[k - 1], m[k])
               /\ mnamespace_lookup(b[1], m) = h[n]
  <2>1. PICK w : w = b[1]
    OBVIOUS
  <2>2. \E h : /\ h[0] = w /\ \A k \in 1..n : h[k] = item(h[k - 1], m[k])
               /\ mnamespace_lookup(w, m) = h[n]
    BY <1>1, <1>2, LookupIs
  <2> QED
    BY <2>1, <2>2
<1>5. e \in Nat /\ 1 <= e /\ Len(l) \in Nat
  BY LocationIs
<1> DEFINE P(k) == OnWay(g, h, b, c, l, m, e, k) \/ OffWay(g, h, k)
<1>6. P(0)
  BY <1>3, <1>4, <1>5 DEF OnWay
<1>7. ASSUME NEW j \in Nat, NEW k \in 1..n, k = j + 1, OffWay(g, h, j)
      PROVE  OffWay(g, h, k)
  <2>1. g[k] = item(g[j], m[k]) /\ h[k] = item(h[j], m[k])
    BY <1>3, <1>4, <1>7
  <2> QED
    BY <1>7, <2>1, AbsentHasNone DEF OffWay
<1>8. ASSUME NEW j \in Nat, NEW k \in 1..n, k = j + 1, OnWay(g, h, b, c, l, m, e, j)
      PROVE  P(k)
  <2>1. k \in 1..e /\ k \in 1..Len(l)
    BY <1>5, <1>8 DEF OnWay
  <2>2. g[k] = item(c[k], m[k]) /\ h[k] = item(b[k], m[k])
    BY <1>3, <1>4, <1>8 DEF OnWay
  <2>3. CASE m[k] # l[k]
    <3>1. item(b[k], m[k]) = item(c[k], m[k]) \/ item(c[k], m[k]) = Absent
      <4>1. PICK s, t, u, w : s = l[k] /\ t = m[k] /\ u = b[k] /\ w = c[k]
        OBVIOUS
      <4>2. Keeps(u, w, s)
        BY <2>1, <4>1 DEF Leads
      <4>3. t \in Step /\ t # s
        BY <1>1, <1>2, <1>8, <2>3, <4>1
      <4>4. item(u, t) = item(w, t) \/ item(w, t) = Absent
        BY <4>2, <4>3 DEF Keeps
      <4> QED
        BY <4>1, <4>4
    <3> QED
      BY <2>2, <3>1 DEF OffWay
  <2>4. \A i \in 1..k : m[k] = l[k] => m[i] = l[i]
    BY <1>8 DEF OnWay
  <2>5. CASE m[k] = l[k] /\ k = e
    <3>1. e = Len(l) => Under(l, m)
      BY <1>2, <2>4, <2>5 DEF Under
    <3>2. b[e] = c[e] \/ item(c[e], l[e]) = Absent
      BY <3>1
    <3> QED
      BY <2>2, <2>5, <3>2 DEF OffWay
  <2>6. CASE m[k] = l[k] /\ k # e
    <3>1. k \in 1..(e - 1) /\ k < e
      BY <1>5, <2>1, <2>6
    <3>2. /\ item(b[k], l[k]) = b[k + 1]
          /\ c[k + 1] = item(c[k], l[k]) \/ item(c[k], l[k]) = Absent
      BY <3>1 DEF Leads
    <3> QED
      BY <2>2, <2>4, <2>6, <3>1, <3>2 DEF OnWay, OffWay
  <2> QED
    BY <2>3, <2>5, <2>6
<1> DEFINE T == {k \in Nat : k <= n /\ ~P(k)}
<1>9. T = {}
  <2> SUFFICES ASSUME T # {}
               PROVE  FALSE
    OBVIOUS
  <2>1. PICK k \in T : \A i \in T : k <= i
    <3>1. T \in SUBSET Nat
      OBVIOUS
    <3> HIDE DEF T
    <3> QED
      BY <3>1, Smallest
  <2>2. k \in Nat /\ k <= n /\ ~P(k)
    OBVIOUS
  <2> HIDE DEF P
  <2>3. k # 0
    BY <1>6, <2>2
  <2>4. PICK j \in Nat : k = j + 1 /\ j <= n /\ ~(k <= j) /\ k \in 1..n
    <3>1. k - 1 \in Nat /\ k = (k - 1) + 1 /\ k - 1 <= n /\ ~(k <= k - 1) /\ k \in 1..n
      BY <2>2, <2>3
    <3> QED
      BY <3>1
  <2>5. P(j)
    BY <2>1, <2>4
  <2>6. P(k)
    BY <1>7, <1>8, <2>4, <2>5 DEF P
  <2> QED
    BY <2>2, <2>6
<1>10. P(n)
  <2> HIDE DEF P
  <2> QED
    BY <1>9
<1>11. g[n].type = "MINT"
  BY <1>3
<1>12. CASE OffWay(g, h, n)
  <2>1. g[n] # Absent
    BY <1>11 DEF Absent
  <2> QED
    BY <1>3, <1>4, <1>12, <2>1 DEF OffWay
<1>13. CASE OnWay(g, h, b, c, l, m, e, n)
  <2>1. n + 1 \in 1..e /\ g[n] = c[n + 1]
    BY <1>5, <1>13 DEF OnWay
  <2>2. g[n].type = Container(l[n + 1])
    BY <2>1 DEF Leads
  <2> QED
    BY <1>11, <2>2 DEF Container
<1> QED
  BY <1>10, <1>12, <1>13

(* Both, of one call. *)
LEMMA CallIs ==
  ASSUME SpaceAssumption, NEW v, Formed(v), v.type = "MDICT", NEW l \in Location,
         NEW n \in Nat,
         NEW e, e = End(Current(v, l), l), NEW ok, ok = (e = Len(l) /\ Settable(l[e])),
         NEW w, w = After(Current(v, l), l, e, Integer(n))[e - 1]
  PROVE  /\ Formed(w) /\ w.type = "MDICT"
         /\ ok => mnamespace_lookup(w, l) = Integer(n)
         /\ \A m \in Location :
              LET x == mnamespace_lookup(v, m)
              IN  x.type = "MINT" /\ (ok => ~Under(l, m)) => mnamespace_lookup(w, m) = x
<1>1. PICK c, x : c = Current(v, l) /\ x = Integer(n)
  OBVIOUS
<1>2. /\ l \in Seq(Step) /\ Len(l) # 0 /\ Len(l) \in Nat /\ Container(l[1]) = "MDICT"
  BY LocationIs DEF Container
<1>3. e \in 1..Len(l) /\ e \in Nat \ {0}
  BY <1>1, <1>2, EndIs
<1>4. PICK b : Way(b, c, l, e, x) /\ w = b[1]
  BY <1>1, <1>3, AfterIs
<1>5. Formed(x)
  BY <1>1, LeafFormed
<1>6. Leads(b, c, l, e)
  BY <1>1, <1>4, <1>5, CallLeads
<1>7. c[1] = v
  BY <1>1, <1>2, CurrentIs
<1>8. Formed(w) /\ w.type = "MDICT"
  <2>1. 1 \in 1..e
    BY <1>3
  <2>2. Keeps(b[1], c[1], l[1])
    BY <1>6, <2>1 DEF Leads
  <2> QED
    BY <1>4, <1>7, <2>2 DEF Keeps
<1>9. IF ok THEN item(b[e], l[e]) = x ELSE b[e] = c[e] \/ item(c[e], l[e]) = Absent
  <2>1. Suits(c, l, e)
    <3>1. e \in 1..e
      BY <1>3
    <3> QED
      BY <1>1, <3>1, WaySuits
  <2>2. b[e] = changed(c, l, e, x)
    BY <1>4 DEF Way
  <2>3. IF e = Len(l) /\ Settable(l[e]) THEN item(changed(c, l, e, x), l[e]) = x
        ELSE changed(c, l, e, x) = c[e] \/ item(c[e], l[e]) = Absent
    BY <1>3, <1>5, <2>1, ChangedIs
  <2> QED
    BY <2>2, <2>3
<1>10. ok => mnamespace_lookup(w, l) = x
  BY <1>4, <1>6, <1>9, Stored
<1>11. ASSUME NEW m \in Location, mnamespace_lookup(v, m).type = "MINT", ok => ~Under(l, m)
       PROVE  mnamespace_lookup(w, m) = mnamespace_lookup(v, m)
  <2>1. (e = Len(l) /\ Settable(l[e])) \/ b[e] = c[e] \/ item(c[e], l[e]) = Absent
    BY <1>9
  <2>2. e = Len(l) /\ Settable(l[e]) => ~Under(l, m)
    BY <1>11
  <2>3. mnamespace_lookup(c[1], m).type = "MINT"
    BY <1>7, <1>11
  <2>4. mnamespace_lookup(b[1], m) = mnamespace_lookup(c[1], m)
    BY <1>3, <1>6, <2>1, <2>2, <2>3, OtherKept
  <2> QED
    BY <1>4, <1>7, <2>4
<1> QED
  BY <1>1, <1>8, <1>10, <1>11

-----------------------------------------------------------------------------
(* The invariant: the namespace is a dictionary of the right form.          *)
SpaceInv ==
  /\ Formed(ns) /\ ns.type = "MDICT" /\ last_set.n \in Nat
  /\ SetIsFound

LEMMA SpaceInitHolds ==
  ASSUME SpaceInit
  PROVE  SpaceInv
<1>1. Formed(ns) /\ ns.type = "MDICT"
  BY LeafFormed DEF SpaceInit, NewDict
<1>2. last_set.n = 0 /\ last_set.before = ns
  BY DEF SpaceInit
<1>3. StoredIsFound
  BY <1>2 DEF StoredIsFound
<1>4. OthersStay
  BY <1>2 DEF OthersStay
<1> QED
  BY <1>1, <1>2, <1>3, <1>4 DEF SpaceInv, SetIsFound

LEMMA SpaceStep ==
  ASSUME SpaceAssumption, SpaceInv, [SpaceNext]_space_vars
  PROVE  SpaceInv'
<1>1. CASE SpaceNext
  <2>1. PICK l \in Location : mnamespace_set(l)
    BY <1>1 DEF SpaceNext
  <2>2. PICK n \in Nat : n = last_set.n + 1
    BY DEF SpaceInv
  <2>3. PICK e, ok : e = End(Current(ns, l), l) /\ ok = (e = Len(l) /\ Settable(l[e]))
    OBVIOUS
  <2>4. ns' = After(Current(ns, l), l, e, Integer(n))[e - 1]
    BY <2>1, <2>2, <2>3 DEF mnamespace_set
  <2>5. last_set' = [n |-> n, before |-> ns, location |-> l, ok |-> ok]
    BY <2>1, <2>2, <2>3 DEF mnamespace_set
  <2>6. PICK v, w : v = ns /\ w = ns'
    OBVIOUS
  <2>7. /\ Formed(w) /\ w.type = "MDICT"
        /\ ok => mnamespace_lookup(w, l) = Integer(n)
        /\ \A m \in Location :
             LET x == mnamespace_lookup(v, m)
             IN  x.type = "MINT" /\ (ok => ~Under(l, m)) => mnamespace_lookup(w, m) = x
    BY <2>3, <2>4, <2>6, CallIs DEF SpaceInv
  <2>8. /\ last_set'.n = n /\ last_set'.before = v
        /\ last_set'.location = l /\ last_set'.ok = ok
    BY <2>5, <2>6
  <2>9. StoredIsFound'
    BY <2>6, <2>7, <2>8 DEF StoredIsFound
  <2>10. OthersStay'
    BY <2>6, <2>7, <2>8 DEF OthersStay
  <2> QED
    BY <2>6, <2>7, <2>8, <2>9, <2>10 DEF SpaceInv, SetIsFound
<1>2. CASE UNCHANGED space_vars
  BY <1>2 DEF space_vars, SpaceInv, SetIsFound, StoredIsFound, OthersStay
<1> QED
  BY <1>1, <1>2

(* mnamespace_set() and mnamespace_lookup(): what a call has stored is      *)
(* found, and whatever it did not replace is still there, even when it has  *)
(* failed, for names, indices, locations and calls of any number.           *)
THEOREM SetsAreFound ==
  ASSUME SpaceAssumption
  PROVE  SpaceSpec => []SetIsFound
<1>1. SpaceInit => SpaceInv
  BY SpaceInitHolds
<1>2. SpaceInv /\ [SpaceNext]_space_vars => SpaceInv'
  BY SpaceStep
<1>3. SpaceInv => SetIsFound
  BY DEF SpaceInv
<1> QED
  BY <1>1, <1>2, <1>3, PTL DEF SpaceSpec

-----------------------------------------------------------------------------
(* Templates.                                                              *)

(* The tokens of a template and of the tree. *)
Tok == Template \cup {Token(kind) : kind \in {"root", "else", "endif", "endfor"}}

NodeRecord ==
  [token : Tok, parent : Nat, in_else : BOOLEAN, child_nodes : Seq(Nat), child_nodes_else : Seq(Nat)]

(* A list of nodes below node n: in the order in which they were made.     *)
ListBelow(t, n, list) ==
  /\ list \in Seq(Nat)
  /\ \A i \in 1..Len(list) : list[i] \in (n + 1)..Len(t) /\ t[list[i]].parent = n
  /\ \A i, j \in 1..Len(list) : i < j => list[i] < list[j]

IsTree(t) ==
  /\ t \in Seq(NodeRecord) /\ Len(t) >= 1
  /\ \A n \in 1..Len(t) :
       /\ ListBelow(t, n, t[n].child_nodes) /\ ListBelow(t, n, t[n].child_nodes_else)
       /\ \A i \in 1..Len(t[n].child_nodes) : \A j \in 1..Len(t[n].child_nodes_else) :
            t[n].child_nodes[i] < t[n].child_nodes_else[j]
       /\ n # 1 => t[n].parent \in 1..(n - 1)

(* The list of a block that grows. *)
ActiveOf(t, n) == IF t[n].in_else THEN t[n].child_nodes_else ELSE t[n].child_nodes

(* The open blocks are the last nodes of one another. *)
Spine(t, open, b) ==
  /\ open \subseteq 1..b /\ 1 \in open /\ b \in open /\ b <= Len(t)
  /\ \A n \in open :
       /\ t[n].in_else => t[n].token.kind = "if"
       /\ ~t[n].in_else => t[n].child_nodes_else = <<>>
       /\ n # 1 => /\ t[n].parent \in open /\ ActiveOf(t, t[n].parent) # <<>>
                   /\ n = ActiveOf(t, t[n].parent)[Len(ActiveOf(t, t[n].parent))]
       /\ n # b => \E c \in open : c # 1 /\ t[c].parent = n

LEMMA Assoc == \A S : \A a, b, c \in Seq(S) : (a \o b) \o c = a \o (b \o c)
<1> SUFFICES ASSUME NEW S, NEW a \in Seq(S), NEW b \in Seq(S), NEW c \in Seq(S)
             PROVE  (a \o b) \o c = a \o (b \o c)
  OBVIOUS
<1> QED
  BY ConcatAssociative

(* What is put together is the last of what a function has put together of *)
(* the beginnings.                                                         *)
Flats(f, s) == f = [i \in 1..Len(s) |-> IF i = 1 THEN s[i] ELSE f[i - 1] \o s[i]]

LEMMA FlatIs ==
  ASSUME NEW s, Len(s) # 0
  PROVE  FlattenSeq(s) = (CHOOSE f : Flats(f, s))[Len(s)]
<1> QED
  BY DEF FlattenSeq, Flats

LEMMA FlatNone == FlattenSeq(<<>>) = <<>>
<1>1. Len(<<>>) = 0
  OBVIOUS
<1> QED
  BY <1>1 DEF FlattenSeq

LEMMA FlatExists ==
  ASSUME NEW T, NEW s \in Seq(Seq(T))
  PROVE  \E f \in [1..Len(s) -> Seq(T)] : Flats(f, s)
<1>1. PICK n \in Nat : n = Len(s)
  BY LenProperties
<1>2. \A i \in 1..n : s[i] \in Seq(T)
  BY <1>1, ElementOfSeq
<1> DEFINE Adding(g, i) == g[i] = IF i = 1 THEN s[i] ELSE g[i - 1] \o s[i]
           Good(k) == \E g \in [1..n -> Seq(T)] : \A i \in 1..n : i <= k => Adding(g, i)
           Bad == {k \in Nat : ~Good(k)}
<1>3. Bad = {}
  <2> SUFFICES ASSUME Bad # {}
               PROVE  FALSE
    OBVIOUS
  <2>1. PICK k \in Bad : \A l \in Bad : k <= l
    <3>1. Bad \in SUBSET Nat
      OBVIOUS
    <3> HIDE DEF Bad
    <3> QED
      BY <3>1, Smallest
  <2>2. k \in Nat /\ ~Good(k)
    OBVIOUS
  <2>3. k # 0
    <3>1. [i \in 1..n |-> s[i]] \in [1..n -> Seq(T)]
      BY <1>2
    <3>2. \A i \in 1..n : ~(i <= 0)
      OBVIOUS
    <3>3. Good(0)
      BY <3>1, <3>2
    <3> HIDE DEF Good
    <3> QED
      BY <2>2, <3>3
  <2>4. Good(k - 1)
    <3> HIDE DEF Good
    <3>1. k - 1 \in Nat
      BY <2>2, <2>3
    <3> QED
      BY <2>1, <2>2, <3>1
  <2>5. PICK g \in [1..n -> Seq(T)] : \A i \in 1..n : i <= k - 1 => Adding(g, i)
    BY <2>4
  <2>6. ASSUME k \in 1..n
        PROVE  FALSE
    <3>1. PICK x \in Seq(T) : x = IF k = 1 THEN s[k] ELSE g[k - 1] \o s[k]
      <4>1. k # 1 => k - 1 \in 1..n
        BY <2>6
      <4>2. k # 1 => g[k - 1] \o s[k] \in Seq(T)
        BY <1>2, <2>5, <2>6, <4>1, ConcatProperties
      <4> QED
        BY <1>2, <2>6, <4>2
    <3> DEFINE h == [g EXCEPT ![k] = x]
    <3>2. h \in [1..n -> Seq(T)]
      BY <2>5, <3>1
    <3>3. h[k] = x /\ \A i \in 1..n : i # k => h[i] = g[i]
      BY <2>5, <2>6
    <3> HIDE DEF h
    <3>4. ASSUME NEW i \in 1..n, i <= k
          PROVE  Adding(h, i)
      <4>1. CASE i = k
        <5>1. k # 1 => k - 1 \in 1..n /\ k - 1 # k
          BY <2>6
        <5> QED
          BY <3>1, <3>3, <4>1, <5>1
      <4>2. CASE i # k
        <5>1. i <= k - 1 /\ (i # 1 => i - 1 \in 1..n /\ i - 1 # k)
          BY <2>2, <3>4, <4>2
        <5> QED
          BY <2>5, <3>3, <4>2, <5>1
      <4> QED
        BY <4>1, <4>2
    <3>5. Good(k)
      BY <3>2, <3>4
    <3> HIDE DEF Good
    <3> QED
      BY <2>2, <3>5
  <2>7. ASSUME k \notin 1..n
        PROVE  FALSE
    <3>1. \A i \in 1..n : i <= k => i <= k - 1
      BY <2>2, <2>3, <2>7
    <3>2. Good(k)
      BY <2>5, <3>1
    <3> HIDE DEF Good
    <3> QED
      BY <2>2, <3>2
  <2> QED
    BY <2>6, <2>7
<1>4. Good(n)
  <2> HIDE DEF Good
  <2> QED
    BY <1>3
<1>4a. PICK g \in [1..n -> Seq(T)] : \A i \in 1..n : i <= n => Adding(g, i)
  BY <1>4
<1>5. \A i \in 1..n : Adding(g, i)
  <2>1. \A i \in 1..n : i <= n
    OBVIOUS
  <2> HIDE DEF Adding
  <2> QED
    BY <1>4a, <2>1
<1>6. g = [i \in 1..n |-> g[i]]
  OBVIOUS
<1>7. g = [i \in 1..n |-> IF i = 1 THEN s[i] ELSE g[i - 1] \o s[i]]
  BY <1>5, <1>6
<1> QED
  BY <1>1, <1>7 DEF Flats

LEMMA FlatChosen ==
  ASSUME NEW T, NEW s \in Seq(Seq(T)), s # <<>>
  PROVE  \E f \in [1..Len(s) -> Seq(T)] :
           /\ FlattenSeq(s) = f[Len(s)]
           /\ \A i \in 1..Len(s) : f[i] = IF i = 1 THEN s[i] ELSE f[i - 1] \o s[i]
<1>1. PICK n \in Nat : n = Len(s) /\ n # 0
  BY LenProperties, EmptySeq
<1> DEFINE f == CHOOSE g : Flats(g, s)
<1>2. Flats(f, s)
  BY FlatExists
<1>3. FlattenSeq(s) = f[n]
  BY <1>1, FlatIs
<1> HIDE DEF f
<1>4. \A i \in 1..n : f[i] = IF i = 1 THEN s[i] ELSE f[i - 1] \o s[i]
  BY <1>1, <1>2 DEF Flats
<1>5. DOMAIN f = 1..n /\ f = [i \in 1..n |-> f[i]]
  BY <1>1, <1>2 DEF Flats
<1>6. \A i \in 1..n : s[i] \in Seq(T)
  BY <1>1, ElementOfSeq
<1> DEFINE Bad == {k \in Nat : k \in 1..n /\ f[k] \notin Seq(T)}
<1>7. Bad = {}
  <2> SUFFICES ASSUME Bad # {}
               PROVE  FALSE
    OBVIOUS
  <2>1. PICK k \in Bad : \A l \in Bad : k <= l
    <3>1. Bad \in SUBSET Nat
      OBVIOUS
    <3> HIDE DEF Bad
    <3> QED
      BY <3>1, Smallest
  <2>2. k \in 1..n /\ f[k] \notin Seq(T)
    OBVIOUS
  <2>3. CASE k = 1
    BY <1>4, <1>6, <2>2, <2>3
  <2>4. CASE k # 1
    <3>1. k - 1 \in 1..n /\ k - 1 \in Nat /\ k - 1 < k
      BY <2>2, <2>4
    <3>2. f[k - 1] \in Seq(T)
      BY <2>1, <3>1
    <3>3. f[k] = f[k - 1] \o s[k]
      BY <1>4, <2>2, <2>4
    <3>4. f[k - 1] \o s[k] \in Seq(T)
      BY <1>6, <2>2, <3>2, ConcatProperties
    <3> QED
      BY <2>2, <3>3, <3>4
  <2> QED
    BY <2>3, <2>4
<1>8. f \in [1..n -> Seq(T)]
  <2>1. \A i \in 1..n : f[i] \in Seq(T)
    BY <1>7
  <2> QED
    BY <1>5, <2>1
<1> QED
  BY <1>1, <1>3, <1>4, <1>8

LEMMA FlatTyped ==
  ASSUME NEW T, NEW s \in Seq(Seq(T))
  PROVE  FlattenSeq(s) \in Seq(T)
<1>1. CASE s = <<>>
  <2>1. FlattenSeq(s) = <<>>
    BY <1>1, FlatNone
  <2> QED
    BY <2>1, EmptySeq
<1>2. CASE s # <<>>
  <2>1. Len(s) \in 1..Len(s)
    BY <1>2, LenProperties, EmptySeq
  <2> QED
    BY <1>2, <2>1, FlatChosen
<1> QED
  BY <1>1, <1>2

LEMMA FlatAppend ==
  ASSUME NEW T, NEW s \in Seq(Seq(T)), NEW x \in Seq(T)
  PROVE  FlattenSeq(Append(s, x)) = FlattenSeq(s) \o x
<1>1. PICK n \in Nat : n = Len(s)
  BY LenProperties
<1>2. PICK t : t = Append(s, x)
  OBVIOUS
<1>3. t \in Seq(Seq(T)) /\ Len(t) = n + 1 /\ t # <<>> /\ t[n + 1] = x
      /\ \A i \in 1..n : t[i] = s[i]
  <2>1. Append(s, x) # <<>>
    BY AppendProperties
  <2> QED
    BY <1>1, <1>2, <2>1, AppendProperties
<1> DEFINE m == Len(t)
<1>4. PICK g \in [1..m -> Seq(T)] :
        /\ FlattenSeq(t) = g[m]
        /\ \A i \in 1..m : g[i] = IF i = 1 THEN t[i] ELSE g[i - 1] \o t[i]
  BY <1>3, FlatChosen, ZenonT(60)
<1> HIDE DEF m
<1>4a. m = n + 1
  BY <1>3 DEF m
<1>5. CASE s = <<>>
  <2>1. n = 0
    BY <1>1, <1>5, EmptySeq
  <2>2. FlattenSeq(t) = x
    BY <1>3, <1>4, <1>4a, <2>1
  <2>3. FlattenSeq(s) = <<>>
    BY <1>5, FlatNone
  <2> QED
    BY <1>2, <2>2, <2>3, ConcatEmptySeq
<1>6. CASE s # <<>>
  <2>1. n >= 1 /\ n \in 1..n
    BY <1>1, <1>6, EmptySeq
  <2> DEFINE k == Len(s)
  <2>2. PICK f \in [1..k -> Seq(T)] :
          /\ FlattenSeq(s) = f[k]
          /\ \A i \in 1..k : f[i] = IF i = 1 THEN s[i] ELSE f[i - 1] \o s[i]
    BY <1>6, FlatChosen
  <2> HIDE DEF k
  <2>2a. k = n
    BY <1>1 DEF k
  <2> DEFINE Bad == {i \in Nat : i \in 1..n /\ f[i] # g[i]}
  <2>3. Bad = {}
    <3> SUFFICES ASSUME Bad # {}
                 PROVE  FALSE
      OBVIOUS
    <3>1. PICK j \in Bad : \A l \in Bad : j <= l
      <4>1. Bad \in SUBSET Nat
        OBVIOUS
      <4> HIDE DEF Bad
      <4> QED
        BY <4>1, Smallest
    <3>2. j \in 1..n /\ j \in 1..m /\ f[j] # g[j]
      BY <1>4a
    <3>3. CASE j = 1
      BY <1>3, <1>4, <2>2, <2>2a, <3>2, <3>3
    <3>4. CASE j # 1
      <4>1. j - 1 \in 1..n /\ j - 1 \in Nat /\ j - 1 < j
        BY <3>2, <3>4
      <4>2. f[j - 1] = g[j - 1]
        BY <3>1, <4>1
      <4> QED
        <5>1. f[j] = f[j - 1] \o s[j]
          BY <2>2, <2>2a, <3>2, <3>4
        <5>2. g[j] = g[j - 1] \o t[j]
          BY <1>4, <3>2, <3>4
        <5>3. t[j] = s[j]
          BY <1>3, <3>2
        <5> QED
          BY <3>2, <4>2, <5>1, <5>2, <5>3
    <3> QED
      BY <3>3, <3>4
  <2>4. f[n] = g[n]
    BY <2>1, <2>3
  <2>5. g[n + 1] = g[n] \o t[n + 1]
    <3>1. n + 1 \in 1..m /\ n + 1 # 1 /\ (n + 1) - 1 = n
      BY <1>4a, <2>1
    <3> QED
      BY <1>4, <3>1
  <2> QED
    BY <1>2, <1>3, <1>4, <1>4a, <2>2, <2>2a, <2>4, <2>5
<1> QED
  BY <1>5, <1>6

LEMMA FlatOne ==
  ASSUME NEW T, NEW x \in Seq(T)
  PROVE  FlattenSeq(<<x>>) = x
<1>1. <<>> \in Seq(Seq(T)) /\ <<x>> = Append(<<>>, x)
  BY EmptySeq
<1>2. FlattenSeq(Append(<<>>, x)) = FlattenSeq(<<>>) \o x
  BY <1>1, FlatAppend
<1> QED
  BY <1>1, <1>2, FlatNone, ConcatEmptySeq

LEMMA FlatMore ==
  ASSUME NEW T, NEW l \in Seq(Seq(T)), NEW r \in Seq(Seq(T)), NEW p \in Seq(T), NEW x \in Seq(T),
         FlattenSeq(l) = p \o FlattenSeq(r)
  PROVE  FlattenSeq(Append(l, x)) = p \o FlattenSeq(Append(r, x))
<1>1. PICK q \in Seq(T) : q = FlattenSeq(r)
  BY FlatTyped
<1>2. (p \o q) \o x = p \o (q \o x)
  BY Assoc, SMTT(30)
<1>3. FlattenSeq(Append(l, x)) = FlattenSeq(l) \o x
  BY FlatAppend
<1>4. FlattenSeq(Append(r, x)) = FlattenSeq(r) \o x
  BY FlatAppend
<1> QED
  BY <1>1, <1>2, <1>3, <1>4, Zenon

(* From the other end. *)
LEMMA FlatHead ==
  ASSUME NEW T, NEW s \in Seq(Seq(T)), s # <<>>
  PROVE  FlattenSeq(s) = Head(s) \o FlattenSeq(Tail(s))
<1> DEFINE Bad == {n \in Nat : \E t \in Seq(Seq(T)) :
                     /\ t # <<>> /\ Len(t) = n
                     /\ FlattenSeq(t) # Head(t) \o FlattenSeq(Tail(t))}
<1> SUFFICES ASSUME Bad # {}
             PROVE  FALSE
  <2>1. Len(s) \in Nat
    BY LenProperties
  <2> QED
    BY <2>1
<1>1. PICK n \in Bad : \A k \in Bad : n <= k
  <2>1. Bad \in SUBSET Nat
    OBVIOUS
  <2> HIDE DEF Bad
  <2> QED
    BY <2>1, Smallest
<1>2. PICK t \in Seq(Seq(T)) : /\ t # <<>> /\ Len(t) = n
                               /\ FlattenSeq(t) # Head(t) \o FlattenSeq(Tail(t))
  OBVIOUS
<1>2a. n \in Nat
  OBVIOUS
<1>3. \A l \in Seq(Seq(T)) : l # <<>> /\ Len(l) < n => FlattenSeq(l) = Head(l) \o FlattenSeq(Tail(l))
  <2> SUFFICES ASSUME NEW l \in Seq(Seq(T)), l # <<>>, Len(l) < n,
                      FlattenSeq(l) # Head(l) \o FlattenSeq(Tail(l))
               PROVE  FALSE
    OBVIOUS
  <2>1. Len(l) \in Nat
    BY LenProperties
  <2>2. Len(l) \in Bad
    BY <2>1
  <2> HIDE DEF Bad
  <2> QED
    BY <1>1, <1>2a, <2>1, <2>2
<1> HIDE DEF Bad
<1>4. PICK l \in Seq(Seq(T)), x \in Seq(T) : t = Append(l, x)
  BY <1>2, SequenceEmptyOrAppend
<1>6. CASE l = <<>>
  <2>1. t = <<x>>
    BY <1>4, <1>6
  <2>2. Head(t) = x /\ Tail(t) = <<>>
    BY <2>1
  <2>3. x \o <<>> = x
    BY ConcatEmptySeq
  <2> QED
    BY <1>2, <2>1, <2>2, <2>3, FlatOne, FlatNone
<1>7. CASE l # <<>>
  <2>1. Len(l) \in Nat /\ Len(t) = Len(l) + 1
    BY <1>4, LenProperties, AppendProperties
  <2>2. FlattenSeq(l) = Head(l) \o FlattenSeq(Tail(l))
    <3>1. Len(l) < n
      BY <1>2, <1>2a, <2>1
    <3> QED
      BY <1>3, <1>7, <3>1
  <2>3. Head(l) \in Seq(T) /\ Tail(l) \in Seq(Seq(T))
    BY <1>7, HeadTailProperties
  <2>4. Head(t) = Head(l) /\ Tail(t) = Append(Tail(l), x)
    BY <1>4, <1>7
  <2>5. PICK p \in Seq(T), r \in Seq(Seq(T)) : p = Head(l) /\ r = Tail(l)
    BY <2>3
  <2>6. FlattenSeq(l) = p \o FlattenSeq(r)
    BY <2>2, <2>5, Zenon
  <2>7. FlattenSeq(Append(l, x)) = p \o FlattenSeq(Append(r, x))
    BY <2>6, FlatMore
  <2>8. FlattenSeq(t) = Head(t) \o FlattenSeq(Tail(t))
    BY <1>4, <2>4, <2>5, <2>7, Zenon
  <2> QED
    BY <1>2, <2>8, Zenon
<1> QED
  BY <1>6, <1>7


-----------------------------------------------------------------------------
LEMMA AsTextTyped ==
  ASSUME NEW T, NEW D, NEW list \in Seq(D), NEW w,
         \A i \in 1..Len(list) : w[list[i]] \in Seq(T)
  PROVE  /\ [i \in DOMAIN list |-> w[list[i]]] \in Seq(Seq(T))
         /\ Len([i \in DOMAIN list |-> w[list[i]]]) = Len(list)
         /\ AsText(list, w) \in Seq(T)
<1>1. PICK n \in Nat : n = Len(list) /\ DOMAIN list = 1..n
  BY LenProperties
<1> DEFINE s == [i \in 1..n |-> w[list[i]]]
<1>2. s \in [1..n -> Seq(T)]
  BY <1>1
<1>3. s \in Seq(Seq(T)) /\ Len(s) = n
  <2> HIDE DEF s
  <2>1. DOMAIN s = 1..n
    BY <1>2
  <2> QED
    BY <1>2, <2>1
<1>4. s = [i \in DOMAIN list |-> w[list[i]]]
  BY <1>1
<1> HIDE DEF s
<1>5. FlattenSeq(s) \in Seq(T)
  BY <1>3, FlatTyped
<1> QED
  BY <1>1, <1>3, <1>4, <1>5 DEF AsText

LEMMA AsTextNone == ASSUME NEW w PROVE AsText(<<>>, w) = <<>>
<1>1. [i \in DOMAIN <<>> |-> w[<<>>[i]]] = <<>>
  OBVIOUS
<1> QED
  BY <1>1, FlatNone DEF AsText

LEMMA AsTextAppend ==
  ASSUME NEW T, NEW D, NEW list \in Seq(D), NEW c \in D, NEW w,
         \A i \in 1..Len(list) : w[list[i]] \in Seq(T), w[c] \in Seq(T)
  PROVE  AsText(Append(list, c), w) = AsText(list, w) \o w[c]
<1>1. PICK n \in Nat : n = Len(list) /\ DOMAIN list = 1..n
  BY LenProperties
<1>2. PICK l : l = Append(list, c)
  OBVIOUS
<1>3. l \in Seq(D) /\ Len(l) = n + 1 /\ DOMAIN l = 1..(n + 1) /\ l[n + 1] = c
      /\ \A i \in 1..n : l[i] = list[i]
  BY <1>1, <1>2, AppendProperties
<1>4. PICK s : s = [i \in DOMAIN list |-> w[list[i]]]
  OBVIOUS
<1>5. s \in Seq(Seq(T)) /\ Len(s) = n /\ \A i \in 1..n : s[i] = w[list[i]]
  <2>1. [i \in DOMAIN list |-> w[list[i]]] \in Seq(Seq(T))
        /\ Len([i \in DOMAIN list |-> w[list[i]]]) = Len(list)
    BY AsTextTyped
  <2>2. \A i \in 1..n : s[i] = w[list[i]]
    BY <1>1, <1>4
  <2> QED
    BY <1>1, <1>4, <2>1, <2>2
<1>6. PICK u : u = [i \in DOMAIN l |-> w[l[i]]]
  OBVIOUS
<1>7. DOMAIN u = 1..(n + 1) /\ u[n + 1] = w[c] /\ \A i \in 1..n : u[i] = s[i]
  BY <1>3, <1>5, <1>6
<1>8. PICK x \in Seq(T) : x = w[c]
  OBVIOUS
<1>9. PICK v : v = Append(s, x)
  OBVIOUS
<1>10. v \in Seq(Seq(T)) /\ Len(v) = n + 1 /\ v[n + 1] = x /\ \A i \in 1..n : v[i] = s[i]
  BY <1>5, <1>9, AppendProperties
<1>11. u = v
  <2>1. DOMAIN v = 1..(n + 1) /\ v = [i \in 1..(n + 1) |-> v[i]]
    <3>1. v \in [1..(n + 1) -> Seq(T)]
      BY <1>10, LenProperties
    <3> QED
      BY <3>1
  <2>2. u = [i \in 1..(n + 1) |-> u[i]]
    BY <1>3, <1>6
  <2>3. \A i \in 1..(n + 1) : u[i] = v[i]
    <3> TAKE i \in 1..(n + 1)
    <3>1. CASE i = n + 1
      BY <1>7, <1>8, <1>10, <3>1
    <3>2. CASE i # n + 1
      <4>1. i \in 1..n
        BY <3>2
      <4> QED
        BY <1>7, <1>10, <4>1
    <3> QED
      BY <3>1, <3>2
  <2>4. \A f, g : f = [i \in 1..(n + 1) |-> f[i]] /\ g = [i \in 1..(n + 1) |-> g[i]]
                  /\ (\A i \in 1..(n + 1) : f[i] = g[i]) => f = g
    OBVIOUS
  <2> QED
    BY <2>1, <2>2, <2>3, <2>4, Zenon
<1>12. FlattenSeq(v) = FlattenSeq(s) \o x
  BY <1>5, <1>9, FlatAppend
<1> QED
  BY <1>2, <1>4, <1>6, <1>8, <1>11, <1>12, Zenon DEF AsText

LEMMA AsTextSame ==
  ASSUME NEW D, NEW list \in Seq(D), NEW w, NEW u,
         \A i \in 1..Len(list) : u[list[i]] = w[list[i]]
  PROVE  AsText(list, u) = AsText(list, w)
<1>1. DOMAIN list = 1..Len(list)
  BY LenProperties
<1>2. [i \in DOMAIN list |-> u[list[i]]] = [i \in DOMAIN list |-> w[list[i]]]
  BY <1>1
<1> QED
  BY <1>2 DEF AsText

(* What the last node of a list gains, its list gains.                     *)
LEMMA AsTextLast ==
  ASSUME NEW D, NEW list \in Seq(D), list # <<>>, NEW w, NEW u, NEW x \in Seq(Tok),
         \A i \in 1..Len(list) : w[list[i]] \in Seq(Tok),
         \A i \in 1..Len(list) : i # Len(list) => u[list[i]] = w[list[i]],
         u[list[Len(list)]] = w[list[Len(list)]] \o x
  PROVE  AsText(list, u) = AsText(list, w) \o x
<1>1. PICK l \in Seq(D), c \in D : list = Append(l, c)
  BY SequenceEmptyOrAppend
<1>2. PICK n \in Nat : n = Len(l)
  BY LenProperties
<1>3. Len(list) = n + 1 /\ list[n + 1] = c /\ \A i \in 1..n : list[i] = l[i]
  BY <1>1, <1>2, AppendProperties
<1>4. \A i \in 1..n : i \in 1..(n + 1) /\ i # n + 1
  OBVIOUS
<1>5. \A i \in 1..n : w[l[i]] \in Seq(Tok) /\ u[l[i]] = w[l[i]]
  BY <1>3, <1>4
<1>6. w[c] \in Seq(Tok) /\ u[c] = w[c] \o x
  <2>1. n + 1 \in 1..(n + 1)
    OBVIOUS
  <2> QED
    BY <1>3, <2>1
<1>7. u[c] \in Seq(Tok)
  <2>1. w[c] \o x \in Seq(Tok)
    BY <1>6, ConcatProperties
  <2> QED
    BY <1>6, <2>1
<1>8. AsText(l, u) = AsText(l, w)
  BY <1>2, <1>5, AsTextSame
<1>9. AsText(l, w) \in Seq(Tok)
  BY <1>2, <1>5, AsTextTyped
<1>10. ASSUME NEW v, \A i \in 1..Len(l) : v[l[i]] \in Seq(Tok), v[c] \in Seq(Tok)
       PROVE  AsText(list, v) = AsText(l, v) \o v[c]
  <2>1. AsText(Append(l, c), v) = AsText(l, v) \o v[c]
    BY <1>10, AsTextAppend
  <2> QED
    BY <1>1, <2>1
<1>11. AsText(list, u) = AsText(l, u) \o u[c] /\ AsText(list, w) = AsText(l, w) \o w[c]
  <2>1. \A i \in 1..Len(l) : w[l[i]] \in Seq(Tok) /\ u[l[i]] \in Seq(Tok)
    BY <1>2, <1>5
  <2> QED
    BY <1>6, <1>7, <1>10, <2>1
<1>12. \A a, b, d \in Seq(Tok) : (a \o b) \o d = a \o (b \o d)
  BY ConcatAssociative, SMTT(30)
<1>13. (AsText(l, w) \o w[c]) \o x = AsText(l, w) \o (w[c] \o x)
  BY <1>6, <1>9, <1>12
<1> QED
  BY <1>6, <1>8, <1>11, <1>13, Zenon

(* What is written for node n of a tree, as functions of the tree.         *)
TagOf(t, n) == IF n = 1 THEN <<>> ELSE <<t[n].token>>
ElseOf(t, n) == IF t[n].in_else THEN <<Token("else")>> ELSE <<>>
EndOf(t, open, n) ==
  IF t[n].token.kind \notin {"if", "for"} \/ n \in open THEN <<>>
  ELSE <<Token(IF t[n].token.kind = "if" THEN "endif" ELSE "endfor")>>

FirstPart(t, w, n) == TagOf(t, n) \o AsText(t[n].child_nodes, w)
SecondPart(t, open, w, n) == ElseOf(t, n) \o AsText(t[n].child_nodes_else, w) \o EndOf(t, open, n)
TextIn(t, open, w, n) == FirstPart(t, w, n) \o SecondPart(t, open, w, n)

IsText(w, t, open) == w = [n \in DOMAIN t |-> TextIn(t, open, w, n)]
TheText(w, t, open) == w = CHOOSE v : IsText(v, t, open)

LEMMA RewrittenIs ==
  /\ TheText(Rewritten, nodes, Open)
  /\ TheText(Rewritten', nodes', Open')
<1> QED
  BY DEF TheText, IsText, Rewritten, NodeText, TextIn, FirstPart, SecondPart, TagOf, ElseOf, EndOf,
         Tag, ElseTag, EndTag, kind_of

LEMMA NodeIs ==
  ASSUME NEW t, IsTree(t), NEW n \in 1..Len(t)
  PROVE  /\ Len(t) \in Nat /\ DOMAIN t = 1..Len(t) /\ n \in Nat
         /\ t[n] \in NodeRecord
         /\ t[n].token \in Tok /\ t[n].parent \in Nat /\ t[n].in_else \in BOOLEAN
         /\ t[n].child_nodes \in Seq(Nat) /\ t[n].child_nodes_else \in Seq(Nat)
         /\ \A i \in 1..Len(t[n].child_nodes) : t[n].child_nodes[i] \in (n + 1)..Len(t)
         /\ \A i \in 1..Len(t[n].child_nodes_else) : t[n].child_nodes_else[i] \in (n + 1)..Len(t)
<1>1. t \in Seq(NodeRecord) /\ Len(t) \in Nat /\ DOMAIN t = 1..Len(t)
  BY LenProperties DEF IsTree
<1>2. t[n] \in NodeRecord
  BY <1>1, ElementOfSeq
<1>3. ListBelow(t, n, t[n].child_nodes) /\ ListBelow(t, n, t[n].child_nodes_else)
  BY DEF IsTree
<1>4. t[n].token \in Tok /\ t[n].parent \in Nat /\ t[n].in_else \in BOOLEAN
      /\ t[n].child_nodes \in Seq(Nat) /\ t[n].child_nodes_else \in Seq(Nat)
  BY <1>2 DEF NodeRecord
<1> QED
  BY <1>1, <1>2, <1>3, <1>4 DEF ListBelow

LEMMA TagsTyped ==
  ASSUME NEW t, IsTree(t), NEW n \in 1..Len(t), NEW open
  PROVE  TagOf(t, n) \in Seq(Tok) /\ ElseOf(t, n) \in Seq(Tok) /\ EndOf(t, open, n) \in Seq(Tok)
<1>1. t[n].token \in Tok
  BY NodeIs
<1>2. Token("else") \in Tok /\ Token("endif") \in Tok /\ Token("endfor") \in Tok
  BY DEF Tok
<1>3. \A x \in Tok : <<x>> \in Seq(Tok)
  OBVIOUS
<1>4. <<>> \in Seq(Tok)
  OBVIOUS
<1> QED
  BY <1>1, <1>2, <1>3, <1>4 DEF TagOf, ElseOf, EndOf

(* The parts of the text of a node, with what is below it. *)
LEMMA PartsTyped ==
  ASSUME NEW t, IsTree(t), NEW n \in 1..Len(t), NEW open, NEW w,
         \A m \in (n + 1)..Len(t) : w[m] \in Seq(Tok)
  PROVE  /\ AsText(t[n].child_nodes, w) \in Seq(Tok)
         /\ AsText(t[n].child_nodes_else, w) \in Seq(Tok)
         /\ FirstPart(t, w, n) \in Seq(Tok)
         /\ ElseOf(t, n) \o AsText(t[n].child_nodes_else, w) \in Seq(Tok)
         /\ SecondPart(t, open, w, n) \in Seq(Tok)
         /\ TextIn(t, open, w, n) \in Seq(Tok)
<1>1. \A i \in 1..Len(t[n].child_nodes) : w[t[n].child_nodes[i]] \in Seq(Tok)
  BY NodeIs
<1>2. \A i \in 1..Len(t[n].child_nodes_else) : w[t[n].child_nodes_else[i]] \in Seq(Tok)
  BY NodeIs
<1>3. t[n].child_nodes \in Seq(Nat) /\ t[n].child_nodes_else \in Seq(Nat)
  BY NodeIs
<1>4. AsText(t[n].child_nodes, w) \in Seq(Tok)
  BY <1>1, <1>3, AsTextTyped
<1>5. AsText(t[n].child_nodes_else, w) \in Seq(Tok)
  BY <1>2, <1>3, AsTextTyped
<1>6. \A a, b \in Seq(Tok) : a \o b \in Seq(Tok)
  BY ConcatProperties
<1>7. TagOf(t, n) \in Seq(Tok) /\ ElseOf(t, n) \in Seq(Tok) /\ EndOf(t, open, n) \in Seq(Tok)
  BY TagsTyped
<1>8. FirstPart(t, w, n) \in Seq(Tok)
  BY <1>4, <1>6, <1>7 DEF FirstPart
<1>9. ElseOf(t, n) \o AsText(t[n].child_nodes_else, w) \in Seq(Tok)
  BY <1>5, <1>6, <1>7
<1>10. SecondPart(t, open, w, n) \in Seq(Tok)
  BY <1>6, <1>7, <1>9 DEF SecondPart
<1>11. TextIn(t, open, w, n) \in Seq(Tok)
  BY <1>6, <1>8, <1>10 DEF TextIn
<1> QED
  BY <1>4, <1>5, <1>8, <1>9, <1>10, <1>11

LEMMA TextSame ==
  ASSUME NEW t, IsTree(t), NEW n \in 1..Len(t), NEW open, NEW w, NEW u,
         \A m \in (n + 1)..Len(t) : u[m] = w[m]
  PROVE  TextIn(t, open, u, n) = TextIn(t, open, w, n)
<1>1. t[n].child_nodes \in Seq(Nat) /\ t[n].child_nodes_else \in Seq(Nat)
  BY NodeIs
<1>2. \A i \in 1..Len(t[n].child_nodes) : u[t[n].child_nodes[i]] = w[t[n].child_nodes[i]]
  BY NodeIs
<1>3. \A i \in 1..Len(t[n].child_nodes_else) :
        u[t[n].child_nodes_else[i]] = w[t[n].child_nodes_else[i]]
  BY NodeIs
<1>4. AsText(t[n].child_nodes, u) = AsText(t[n].child_nodes, w)
  BY <1>1, <1>2, AsTextSame
<1>5. AsText(t[n].child_nodes_else, u) = AsText(t[n].child_nodes_else, w)
  BY <1>1, <1>3, AsTextSame
<1> QED
  BY <1>4, <1>5 DEF TextIn, FirstPart, SecondPart

LEMMA TextExists ==
  ASSUME NEW t, IsTree(t), NEW open
  PROVE  \E w : IsText(w, t, open)
<1>1. PICK z \in Nat : z = Len(t) /\ DOMAIN t = 1..z
  BY LenProperties DEF IsTree
<1> DEFINE Good(k) == \E g : DOMAIN g = 1..z
                       /\ \A n \in 1..z : z - n < k => g[n] = TextIn(t, open, g, n)
           Bad == {k \in Nat : ~Good(k)}
<1>2. Bad = {}
  <2> SUFFICES ASSUME Bad # {}
               PROVE  FALSE
    OBVIOUS
  <2>1. PICK k \in Bad : \A l \in Bad : k <= l
    <3>1. Bad \in SUBSET Nat
      OBVIOUS
    <3> HIDE DEF Bad
    <3> QED
      BY <3>1, Smallest
  <2>2. k \in Nat /\ ~Good(k)
    OBVIOUS
  <2>3. k # 0
    <3>1. \A n \in 1..z : ~(z - n < 0)
      OBVIOUS
    <3>2. DOMAIN [n \in 1..z |-> n] = 1..z
      OBVIOUS
    <3>3. Good(0)
      BY <3>1, <3>2
    <3> HIDE DEF Good
    <3> QED
      BY <2>2, <3>3
  <2>4. Good(k - 1)
    <3> HIDE DEF Good
    <3>1. k - 1 \in Nat
      BY <2>2, <2>3
    <3> QED
      BY <2>1, <2>2, <3>1
  <2>5. PICK g : DOMAIN g = 1..z
                 /\ \A n \in 1..z : z - n < k - 1 => g[n] = TextIn(t, open, g, n)
    BY <2>4
  <2> DEFINE h == [n \in 1..z |-> IF z - n < k - 1 THEN g[n] ELSE TextIn(t, open, g, n)]
  <2>6. DOMAIN h = 1..z
        /\ \A n \in 1..z : h[n] = IF z - n < k - 1 THEN g[n] ELSE TextIn(t, open, g, n)
    OBVIOUS
  <2> HIDE DEF h
  <2>7. \A n \in 1..z : z - n < k => h[n] = TextIn(t, open, h, n)
    <3> SUFFICES ASSUME NEW n \in 1..z, z - n < k
                 PROVE  h[n] = TextIn(t, open, h, n)
      OBVIOUS
    <3>1. \A m \in (n + 1)..z : m \in 1..z /\ z - m < k - 1
      BY <2>2
    <3>2. \A m \in (n + 1)..Len(t) : h[m] = g[m]
      BY <1>1, <2>6, <3>1
    <3>3. TextIn(t, open, h, n) = TextIn(t, open, g, n)
      BY <1>1, <3>2, TextSame
    <3>4. h[n] = TextIn(t, open, g, n)
      BY <2>5, <2>6
    <3> QED
      BY <3>3, <3>4
  <2>8. Good(k)
    BY <2>6, <2>7
  <2> HIDE DEF Good
  <2> QED
    BY <2>2, <2>8
<1>3. Good(z)
  <2> HIDE DEF Good
  <2> QED
    BY <1>2
<1>4. PICK g : DOMAIN g = 1..z /\ \A n \in 1..z : z - n < z => g[n] = TextIn(t, open, g, n)
  BY <1>3
<1>5. \A n \in 1..z : z - n < z
  OBVIOUS
<1> DEFINE h == [n \in 1..z |-> TextIn(t, open, g, n)]
<1>6. DOMAIN h = 1..z /\ \A n \in 1..z : h[n] = TextIn(t, open, g, n) /\ h[n] = g[n]
  BY <1>4, <1>5
<1>7. \A n \in 1..z : TextIn(t, open, h, n) = TextIn(t, open, g, n)
  <2> TAKE n \in 1..z
  <2>1. \A m \in (n + 1)..z : m \in 1..z
    OBVIOUS
  <2>2. \A m \in (n + 1)..Len(t) : h[m] = g[m]
    BY <1>1, <1>6, <2>1
  <2> HIDE DEF h
  <2> QED
    BY <1>1, <2>2, TextSame
<1>8. h = [n \in 1..z |-> TextIn(t, open, h, n)]
  BY <1>7
<1> HIDE DEF h
<1> QED
  BY <1>1, <1>8 DEF IsText

LEMMA TextIs ==
  ASSUME NEW t, IsTree(t), NEW open, NEW w, TheText(w, t, open)
  PROVE  \A n \in 1..Len(t) : w[n] = TextIn(t, open, w, n) /\ w[n] \in Seq(Tok)
<1>1. PICK z \in Nat : z = Len(t) /\ DOMAIN t = 1..z
  BY LenProperties DEF IsTree
<1>2. IsText(w, t, open)
  BY TextExists DEF TheText
<1>3. \A n \in 1..z : w[n] = TextIn(t, open, w, n)
  BY <1>1, <1>2 DEF IsText
<1> DEFINE Bad == {k \in Nat : \E n \in 1..z : z - n = k /\ w[n] \notin Seq(Tok)}
<1>4. Bad = {}
  <2> SUFFICES ASSUME Bad # {}
               PROVE  FALSE
    OBVIOUS
  <2>1. PICK k \in Bad : \A l \in Bad : k <= l
    <3>1. Bad \in SUBSET Nat
      OBVIOUS
    <3> HIDE DEF Bad
    <3> QED
      BY <3>1, Smallest
  <2>2. PICK n \in 1..z : z - n = k /\ w[n] \notin Seq(Tok)
    OBVIOUS
  <2>3. \A m \in (n + 1)..z : w[m] \in Seq(Tok)
    <3> SUFFICES ASSUME NEW m \in (n + 1)..z, w[m] \notin Seq(Tok)
                 PROVE  FALSE
      OBVIOUS
    <3>1. m \in 1..z /\ z - m \in Nat /\ z - m < k
      BY <2>2
    <3>2. z - m \in Bad
      BY <3>1
    <3>3. k \in Nat
      OBVIOUS
    <3> HIDE DEF Bad
    <3> QED
      BY <2>1, <3>1, <3>2, <3>3
  <2> HIDE DEF Bad
  <2>4. TextIn(t, open, w, n) \in Seq(Tok)
    BY <1>1, <2>3, PartsTyped
  <2> QED
    BY <1>3, <2>2, <2>4
<1>5. \A n \in 1..z : w[n] \in Seq(Tok)
  <2> TAKE n \in 1..z
  <2>1. z - n \in Nat
    OBVIOUS
  <2> QED
    BY <1>4, <2>1
<1> QED
  BY <1>1, <1>3, <1>5

-----------------------------------------------------------------------------
Longer(a, b, x) == a = b \o x

(* The open blocks after n have got x at the end of their text.            *)
Gains(t, open, n, w, v, x) ==
  \A m \in (n + 1)..Len(t) :
    w[m] \in Seq(Tok) /\ v[m] = IF m \in open THEN w[m] \o x ELSE w[m]

LEMMA BlockStays ==
  ASSUME NEW t, IsTree(t), NEW open, NEW b, Spine(t, open, b), NEW n \in 1..Len(t), n \notin open,
         NEW w, NEW v, NEW x, Gains(t, open, n, w, v, x)
  PROVE  TextIn(t, open, v, n) = TextIn(t, open, w, n)
<1>1. t[n].child_nodes \in Seq(Nat) /\ t[n].child_nodes_else \in Seq(Nat)
  BY NodeIs
<1>1a. /\ \A i \in 1..Len(t[n].child_nodes) :
            t[n].child_nodes[i] \in (n + 1)..Len(t) /\ t[t[n].child_nodes[i]].parent = n
       /\ \A i \in 1..Len(t[n].child_nodes_else) :
            t[n].child_nodes_else[i] \in (n + 1)..Len(t) /\ t[t[n].child_nodes_else[i]].parent = n
  BY DEF IsTree, ListBelow
<1>1b. \A m \in (n + 1)..Len(t) : t[m].parent = n => m \notin open
  <2>1. \A m \in open : m # 1 => t[m].parent \in open
    BY DEF Spine
  <2>2. n \in Nat /\ n >= 1
    OBVIOUS
  <2>3. \A m \in (n + 1)..Len(t) : m # 1
    BY <2>2
  <2> QED
    BY <2>1, <2>3
<1>2. \A i \in 1..Len(t[n].child_nodes) : v[t[n].child_nodes[i]] = w[t[n].child_nodes[i]]
  <2> TAKE i \in 1..Len(t[n].child_nodes)
  <2>1. t[n].child_nodes[i] \in (n + 1)..Len(t) /\ t[t[n].child_nodes[i]].parent = n
    BY <1>1a
  <2>2. t[n].child_nodes[i] \notin open
    BY <1>1b, <2>1
  <2> QED
    BY <2>1, <2>2 DEF Gains
<1>3. \A i \in 1..Len(t[n].child_nodes_else) :
        v[t[n].child_nodes_else[i]] = w[t[n].child_nodes_else[i]]
  <2> TAKE i \in 1..Len(t[n].child_nodes_else)
  <2>1. t[n].child_nodes_else[i] \in (n + 1)..Len(t) /\ t[t[n].child_nodes_else[i]].parent = n
    BY <1>1a
  <2>2. t[n].child_nodes_else[i] \notin open
    BY <1>1b, <2>1
  <2> QED
    BY <2>1, <2>2 DEF Gains
<1>4. AsText(t[n].child_nodes, v) = AsText(t[n].child_nodes, w)
  BY <1>1, <1>2, AsTextSame
<1>5. AsText(t[n].child_nodes_else, v) = AsText(t[n].child_nodes_else, w)
  BY <1>1, <1>3, AsTextSame
<1> QED
  BY <1>4, <1>5 DEF TextIn, FirstPart, SecondPart

LEMMA BlockGrows ==
  ASSUME NEW t, IsTree(t), NEW open, NEW b, Spine(t, open, b), NEW n \in open, n # b,
         NEW w, NEW v, NEW x \in Seq(Tok), Gains(t, open, n, w, v, x)
  PROVE  Longer(TextIn(t, open, v, n), TextIn(t, open, w, n), x)
<1> SUFFICES TextIn(t, open, v, n) = TextIn(t, open, w, n) \o x
  BY DEF Longer
<1>1. n \in 1..Len(t) /\ Len(t) \in Nat
  <2>1. Len(t) \in Nat
    BY LenProperties DEF IsTree
  <2>2. n \in 1..b /\ b \in 1..b /\ b <= Len(t)
    BY DEF Spine
  <2> QED
    BY <2>1, <2>2
<1>2. PICK c \in open : c # 1 /\ t[c].parent = n
  BY DEF Spine
<1> DEFINE list == t[n].child_nodes
           list2 == t[n].child_nodes_else
<1>3. /\ list \in Seq(Nat) /\ list2 \in Seq(Nat) /\ t[n].in_else \in BOOLEAN
      /\ \A i \in 1..Len(list) : list[i] \in (n + 1)..Len(t)
      /\ \A i \in 1..Len(list2) : list2[i] \in (n + 1)..Len(t)
  BY <1>1, NodeIs
<1>4. /\ \A i \in 1..Len(list) : t[list[i]].parent = n
      /\ \A i \in 1..Len(list2) : t[list2[i]].parent = n
      /\ \A i, j \in 1..Len(list) : i < j => list[i] < list[j]
      /\ \A i, j \in 1..Len(list2) : i < j => list2[i] < list2[j]
      /\ \A i \in 1..Len(list) : \A j \in 1..Len(list2) : list[i] < list2[j]
  BY <1>1 DEF IsTree, ListBelow
<1>5. Len(list) \in Nat /\ Len(list2) \in Nat
  BY <1>3, LenProperties
<1>6. ActiveOf(t, n) # <<>> /\ c = ActiveOf(t, n)[Len(ActiveOf(t, n))]
  BY <1>2 DEF Spine
(* No other node of n is open. *)
<1>7. \A m \in open : m # 1 /\ t[m].parent = n => m = c
  BY <1>6 DEF Spine
<1>8. EndOf(t, open, n) = <<>>
  BY DEF EndOf
<1>9. \A i \in 1..Len(list) : list[i] # 1 /\ w[list[i]] \in Seq(Tok)
  <2>1. \A m \in (n + 1)..Len(t) : m # 1 /\ w[m] \in Seq(Tok)
    BY <1>1 DEF Gains
  <2> HIDE DEF list
  <2> QED
    BY <1>3, <2>1
<1>10. \A i \in 1..Len(list2) : list2[i] # 1 /\ w[list2[i]] \in Seq(Tok)
  <2>1. \A m \in (n + 1)..Len(t) : m # 1 /\ w[m] \in Seq(Tok)
    BY <1>1 DEF Gains
  <2> HIDE DEF list2
  <2> QED
    BY <1>3, <2>1
<1>11. \A m \in (n + 1)..Len(t) : m # c /\ t[m].parent = n => v[m] = w[m]
  <2>1. \A m \in (n + 1)..Len(t) : m # 1 /\ (m \notin open => v[m] = w[m])
    BY <1>1 DEF Gains
  <2> QED
    BY <1>7, <2>1
<1>12. c \in (n + 1)..Len(t) => v[c] = w[c] \o x
  BY DEF Gains
<1>13. /\ AsText(list, w) \in Seq(Tok) /\ AsText(list2, w) \in Seq(Tok)
       /\ TagOf(t, n) \in Seq(Tok) /\ ElseOf(t, n) \in Seq(Tok)
  <2>1. TagOf(t, n) \in Seq(Tok) /\ ElseOf(t, n) \in Seq(Tok)
    BY <1>1, TagsTyped
  <2> HIDE DEF list, list2
  <2>2. AsText(list, w) \in Seq(Tok)
    BY <1>3, <1>9, AsTextTyped
  <2>3. AsText(list2, w) \in Seq(Tok)
    BY <1>3, <1>10, AsTextTyped
  <2> QED
    BY <2>1, <2>2, <2>3
<1>14. \A a, d \in Seq(Tok) : a \o d \in Seq(Tok) /\ a \o <<>> = a
  BY ConcatProperties, ConcatEmptySeq
<1>14a. \A a, d, e \in Seq(Tok) : (a \o d) \o e = a \o (d \o e)
  BY ConcatAssociative
<1>15. CASE t[n].in_else
  <2>1. list2 # <<>> /\ c = list2[Len(list2)]
    BY <1>6, <1>15 DEF ActiveOf
  <2> HIDE DEF list, list2
  <2>2. Len(list2) \in 1..Len(list2)
    BY <1>3, <2>1, EmptySeq
  <2>3. c \in (n + 1)..Len(t)
    BY <1>3, <2>1, <2>2
  <2>4. \A i \in 1..Len(list) : v[list[i]] = w[list[i]]
    <3> TAKE i \in 1..Len(list)
    <3>1. list[i] \in (n + 1)..Len(t) /\ t[list[i]].parent = n /\ list[i] < list2[Len(list2)]
      BY <1>3, <1>4, <2>2
    <3>2. list[i] # c
      BY <1>1, <2>1, <2>3, <3>1
    <3> QED
      BY <1>11, <3>1, <3>2
  <2>5. \A i \in 1..Len(list2) : i # Len(list2) => v[list2[i]] = w[list2[i]]
    <3> SUFFICES ASSUME NEW i \in 1..Len(list2), i # Len(list2)
                 PROVE  v[list2[i]] = w[list2[i]]
      OBVIOUS
    <3>1. list2[i] \in (n + 1)..Len(t) /\ t[list2[i]].parent = n /\ list2[i] < list2[Len(list2)]
      BY <1>3, <1>4, <1>5, <2>2
    <3>2. list2[i] # c
      BY <1>1, <2>1, <2>3, <3>1
    <3> QED
      BY <1>11, <3>1, <3>2
  <2>6. v[list2[Len(list2)]] = w[list2[Len(list2)]] \o x
    BY <1>12, <2>1, <2>3
  <2>7. AsText(list, v) = AsText(list, w)
    BY <1>3, <2>4, AsTextSame
  <2>8. \A i \in 1..Len(list2) : w[list2[i]] \in Seq(Tok)
    BY <1>10
  <2>9. list2 \in Seq(Nat) /\ list2 # <<>>
    BY <1>3, <2>1
  <2>10. AsText(list2, v) = AsText(list2, w) \o x
    BY <2>5, <2>6, <2>8, <2>9, AsTextLast, ZenonT(60)
  <2> DEFINE p == TagOf(t, n) \o AsText(list, w)
             q == ElseOf(t, n) \o AsText(list2, w)
  <2>11. p \in Seq(Tok) /\ q \in Seq(Tok)
    BY <1>13, <1>14
  <2>12. TextIn(t, open, w, n) = p \o (q \o <<>>)
    BY <1>8 DEF TextIn, FirstPart, SecondPart, list, list2
  <2>13. TextIn(t, open, v, n) = p \o ((ElseOf(t, n) \o (AsText(list2, w) \o x)) \o <<>>)
    BY <1>8, <2>7, <2>10 DEF TextIn, FirstPart, SecondPart, list, list2
  <2>14. ElseOf(t, n) \o (AsText(list2, w) \o x) = q \o x
    BY <1>13, <1>14a
  <2> HIDE DEF p, q
  <2>15. q \o x \in Seq(Tok) /\ (q \o x) \o <<>> = q \o x /\ q \o <<>> = q
    BY <1>14, <2>11
  <2>16. (p \o q) \o x = p \o (q \o x)
    BY <1>14a, <2>11
  <2> QED
    BY <2>12, <2>13, <2>14, <2>15, <2>16, Zenon
<1>16. CASE ~t[n].in_else
  <2>1. list # <<>> /\ c = list[Len(list)]
    BY <1>6, <1>16 DEF ActiveOf
  <2>3. list2 = <<>>
    BY <1>16 DEF Spine
  <2> HIDE DEF list, list2
  <2>2. Len(list) \in 1..Len(list)
    BY <1>3, <2>1, EmptySeq
  <2>4. c \in (n + 1)..Len(t)
    BY <1>3, <2>1, <2>2
  <2>5. \A i \in 1..Len(list) : i # Len(list) => v[list[i]] = w[list[i]]
    <3> SUFFICES ASSUME NEW i \in 1..Len(list), i # Len(list)
                 PROVE  v[list[i]] = w[list[i]]
      OBVIOUS
    <3>1. list[i] \in (n + 1)..Len(t) /\ t[list[i]].parent = n /\ list[i] < list[Len(list)]
      BY <1>3, <1>4, <1>5, <2>2
    <3>2. list[i] # c
      BY <1>1, <2>1, <2>4, <3>1
    <3> QED
      BY <1>11, <3>1, <3>2
  <2>6. v[list[Len(list)]] = w[list[Len(list)]] \o x
    BY <1>12, <2>1, <2>4
  <2>7. \A i \in 1..Len(list) : w[list[i]] \in Seq(Tok)
    BY <1>9
  <2>8. list \in Seq(Nat) /\ list # <<>>
    BY <1>3, <2>1
  <2>9. AsText(list, v) = AsText(list, w) \o x
    BY <2>5, <2>6, <2>7, <2>8, AsTextLast, ZenonT(60)
  <2>10. AsText(list2, v) = <<>> /\ AsText(list2, w) = <<>>
    BY <2>3, AsTextNone
  <2>11. ElseOf(t, n) = <<>>
    BY <1>16 DEF ElseOf
  <2> DEFINE p == TagOf(t, n) \o AsText(list, w)
  <2>12. p \in Seq(Tok) /\ p \o x \in Seq(Tok)
    BY <1>13, <1>14
  <2>13. <<>> \o <<>> = <<>>
    OBVIOUS
  <2>14. TextIn(t, open, w, n) = p \o <<>>
    BY <1>8, <2>10, <2>11, <2>13 DEF TextIn, FirstPart, SecondPart, list, list2
  <2>15. TextIn(t, open, v, n) = (TagOf(t, n) \o (AsText(list, w) \o x)) \o <<>>
    BY <1>8, <2>9, <2>10, <2>11, <2>13 DEF TextIn, FirstPart, SecondPart, list, list2
  <2>16. TagOf(t, n) \o (AsText(list, w) \o x) = p \o x
    BY <1>13, <1>14a
  <2> HIDE DEF p
  <2>17. (p \o x) \o <<>> = p \o x /\ p \o <<>> = p
    BY <1>14, <2>12
  <2> QED
    BY <2>14, <2>15, <2>16, <2>17, Zenon
<1> QED
  BY <1>3, <1>15, <1>16

Elsewhere(t, open, u, open2, b) ==
  \A n \in 1..Len(t) : n # b => u[n] = t[n] /\ (n \in open2 <=> n \in open)
Here(t, w, v, b, x) == (\A c \in (b + 1)..Len(t) : v[c] = w[c]) => Longer(v[b], w[b], x)

(* And so does that of the tree, when that of the block that is parsed     *)
(* does.                                                                   *)
LEMMA SpineGrows ==
  ASSUME NEW t, NEW u, IsTree(t), IsTree(u), Len(t) <= Len(u),
         NEW open, NEW open2, NEW b, Spine(t, open, b),
         Elsewhere(t, open, u, open2, b),
         NEW w, TheText(w, t, open),
         NEW v, TheText(v, u, open2),
         NEW x \in Seq(Tok), Here(t, w, v, b, x)
  PROVE  Longer(v[1], w[1], x)
<1> SUFFICES ASSUME \A n \in 1..Len(t) : n # b => u[n] = t[n] /\ (n \in open2 <=> n \in open),
                    (\A c \in (b + 1)..Len(t) : v[c] = w[c]) => v[b] = w[b] \o x
             PROVE  v[1] = w[1] \o x
  BY DEF Elsewhere, Here, Longer
<1>1. PICK z \in Nat : z = Len(t) /\ DOMAIN t = 1..z
  BY LenProperties DEF IsTree
<1>1a. Len(u) \in Nat
  BY LenProperties DEF IsTree
<1>2. \A n \in 1..z : w[n] = TextIn(t, open, w, n) /\ w[n] \in Seq(Tok)
  <2>1. \A n \in 1..Len(t) : w[n] = TextIn(t, open, w, n) /\ w[n] \in Seq(Tok)
    BY TextIs
  <2> QED
    BY <1>1, <2>1
<1>3. \A n \in 1..z : n \in 1..Len(u)
  BY <1>1, <1>1a
<1>4. \A n \in 1..z : v[n] = TextIn(u, open2, v, n)
  <2>1. \A n \in 1..Len(u) : v[n] = TextIn(u, open2, v, n) /\ v[n] \in Seq(Tok)
    BY TextIs
  <2> QED
    BY <1>3, <2>1
<1>5. /\ b \in 1..z /\ 1 \in open /\ 1 \in 1..z /\ b \in open
      /\ \A m \in (b + 1)..z : m \notin open
  <2>1. open \subseteq 1..b /\ 1 \in open /\ b \in open /\ b <= z
    BY <1>1 DEF Spine
  <2>2. b \in 1..b
    BY <2>1
  <2>3. b \in Nat
    BY <2>2
  <2> QED
    BY <2>1, <2>2, <2>3
<1> DEFINE P(n) == v[n] = IF n \in open THEN w[n] \o x ELSE w[n]
           Bad == {k \in Nat : \E n \in 1..z : z - n = k /\ ~P(n)}
<1>6. Bad = {}
  <2> SUFFICES ASSUME Bad # {}
               PROVE  FALSE
    OBVIOUS
  <2>1. PICK k \in Bad : \A l \in Bad : k <= l
    <3>1. Bad \in SUBSET Nat
      OBVIOUS
    <3> HIDE DEF Bad
    <3> QED
      BY <3>1, Smallest
  <2>2. PICK n \in 1..z : z - n = k /\ ~P(n)
    OBVIOUS
  <2>3. \A m \in (n + 1)..z : P(m)
    <3> SUFFICES ASSUME NEW m \in (n + 1)..z, ~P(m)
                 PROVE  FALSE
      OBVIOUS
    <3>1. m \in 1..z /\ z - m \in Nat /\ z - m < k
      BY <2>2
    <3>2. z - m \in Bad
      BY <3>1
    <3>3. k \in Nat
      OBVIOUS
    <3> HIDE DEF Bad, P
    <3> QED
      BY <2>1, <3>1, <3>2, <3>3
  <2> HIDE DEF Bad
  <2>4. Gains(t, open, n, w, v, x)
    <3>1. \A m \in (n + 1)..z : m \in 1..z
      OBVIOUS
    <3> QED
      BY <1>1, <1>2, <2>3, <3>1 DEF Gains
  <2>5. n # b => TextIn(u, open2, v, n) = TextIn(t, open, v, n)
    <3> SUFFICES ASSUME n # b
                 PROVE  TextIn(u, open2, v, n) = TextIn(t, open, v, n)
      OBVIOUS
    <3>1. u[n] = t[n] /\ (n \in open2 <=> n \in open)
      BY <1>1
    <3> QED
      BY <3>1 DEF TextIn, FirstPart, SecondPart, TagOf, ElseOf, EndOf
  <2>6. CASE n \notin open
    <3>1. n # b
      BY <1>5, <2>6
    <3>2. TextIn(t, open, v, n) = TextIn(t, open, w, n)
      BY <1>1, <2>4, <2>6, BlockStays
    <3> QED
      BY <1>2, <1>4, <2>2, <2>5, <2>6, <3>1, <3>2
  <2>7. CASE n \in open /\ n # b
    <3>1. Longer(TextIn(t, open, v, n), TextIn(t, open, w, n), x)
      BY <2>4, <2>7, BlockGrows
    <3>2. v[n] = TextIn(t, open, v, n) /\ w[n] = TextIn(t, open, w, n)
      BY <1>2, <1>4, <2>5, <2>7
    <3>3. v[n] = w[n] \o x
      BY <3>1, <3>2 DEF Longer
    <3> QED
      BY <2>2, <2>7, <3>3
  <2>8. CASE n = b
    <3>1. \A c \in (b + 1)..z : v[c] = w[c]
      BY <1>5, <2>3, <2>8
    <3>2. v[b] = w[b] \o x
      BY <1>1, <3>1
    <3> QED
      BY <1>5, <2>2, <2>8, <3>2
  <2> QED
    BY <2>6, <2>7, <2>8
<1>7. 1 \in 1..z /\ 1 \in open /\ z - 1 \in Nat
  BY <1>5
<1>8. P(1)
  <2> HIDE DEF P
  <2> QED
    BY <1>6, <1>7
<1> QED
  BY <1>7, <1>8

-----------------------------------------------------------------------------
(* The open blocks, as a function of the tree. *)
Up(t, b, S) == b \in S /\ \A m \in S \ {1} : t[m].parent \in S
OpenOf(t, b) == {n \in DOMAIN t : \A S \in SUBSET DOMAIN t : Up(t, b, S) => n \in S}

LEMMA OpenIs == Open = OpenOf(nodes, parent) /\ Open' = OpenOf(nodes', parent')
<1> QED
  BY DEF Open, OpenOf, Upward, Up

LEMMA TreeIs ==
  ASSUME NEW t, IsTree(t)
  PROVE  /\ Len(t) \in Nat /\ Len(t) >= 1 /\ DOMAIN t = 1..Len(t)
         /\ \A n \in 1..Len(t) : n # 1 => t[n].parent \in 1..(n - 1)
<1> QED
  BY LenProperties DEF IsTree

LEMMA OpenUp ==
  ASSUME NEW t, IsTree(t), NEW b \in 1..Len(t)
  PROVE  /\ OpenOf(t, b) \subseteq 1..b /\ b \in OpenOf(t, b)
         /\ \A m \in OpenOf(t, b) \ {1} : t[m].parent \in OpenOf(t, b)
<1>1. b \in OpenOf(t, b)
  BY TreeIs DEF OpenOf, Up
<1>2. \A m \in OpenOf(t, b) \ {1} : t[m].parent \in OpenOf(t, b)
  <2> TAKE m \in OpenOf(t, b) \ {1}
  <2>1. m \in 1..Len(t) /\ m # 1
    BY TreeIs DEF OpenOf
  <2>2. t[m].parent \in 1..(m - 1)
    BY <2>1, TreeIs
  <2>3. t[m].parent \in 1..Len(t)
    BY <2>1, <2>2, TreeIs
  <2>4. \A S \in SUBSET DOMAIN t : Up(t, b, S) => t[m].parent \in S
    BY DEF OpenOf, Up
  <2> QED
    BY <2>3, <2>4, TreeIs DEF OpenOf
<1>3. 1..b \subseteq DOMAIN t
  BY TreeIs
<1>4. Up(t, b, 1..b)
  <2>1. b \in 1..b
    OBVIOUS
  <2>2. \A m \in (1..b) \ {1} : t[m].parent \in 1..b
    <3> TAKE m \in (1..b) \ {1}
    <3>1. m \in 1..Len(t) /\ m # 1 /\ m <= b
      BY TreeIs
    <3>2. t[m].parent \in 1..(m - 1)
      BY <3>1, TreeIs
    <3> QED
      BY <3>1, <3>2
  <2> QED
    BY <2>1, <2>2 DEF Up
<1>5. OpenOf(t, b) \subseteq 1..b
  BY <1>3, <1>4 DEF OpenOf
<1> QED
  BY <1>1, <1>2, <1>5

LEMMA OpenLeast ==
  ASSUME NEW t, NEW b, NEW S \in SUBSET DOMAIN t, b \in S,
         \A m \in S \ {1} : t[m].parent \in S
  PROVE  OpenOf(t, b) \subseteq S
<1> QED
  BY DEF OpenOf, Up

(* A node that is made is open if it becomes the block that is parsed.     *)
LEMMA OpenKeeps ==
  ASSUME NEW t, NEW u, IsTree(t), IsTree(u), Len(t) <= Len(u), NEW b \in 1..Len(t),
         \A m \in 1..Len(t) : u[m].parent = t[m].parent
  PROVE  OpenOf(u, b) = OpenOf(t, b)
<1>1. b \in 1..Len(u) /\ 1..Len(t) \subseteq 1..Len(u)
  BY TreeIs
<1>2. OpenOf(u, b) \subseteq OpenOf(t, b)
  <2>1. OpenOf(t, b) \subseteq 1..Len(t)
    BY TreeIs DEF OpenOf
  <2>2. OpenOf(t, b) \in SUBSET DOMAIN u
    BY <1>1, <2>1, TreeIs
  <2>3. \A m \in OpenOf(t, b) \ {1} : u[m].parent \in OpenOf(t, b)
    BY <2>1, OpenUp
  <2>4. b \in OpenOf(t, b)
    BY OpenUp
  <2> QED
    BY <2>2, <2>3, <2>4, OpenLeast
<1>3. OpenOf(t, b) \subseteq OpenOf(u, b)
  <2> DEFINE S == OpenOf(u, b)
  <2>1. S \subseteq 1..b /\ b \in S /\ \A m \in S \ {1} : u[m].parent \in S
    BY <1>1, OpenUp
  <2> HIDE DEF S
  <2>2. S \subseteq 1..Len(t)
    <3>1. 1..b \subseteq 1..Len(t)
      BY TreeIs
    <3> QED
      BY <2>1, <3>1
  <2>3. S \in SUBSET DOMAIN t /\ \A m \in S \ {1} : t[m].parent \in S
    BY <2>1, <2>2, TreeIs
  <2>4. OpenOf(t, b) \subseteq S
    BY <2>1, <2>3, OpenLeast
  <2> QED
    BY <2>4 DEF S
<1> QED
  BY <1>2, <1>3

LEMMA OpenGrows ==
  ASSUME NEW t, NEW u, IsTree(t), IsTree(u), Len(u) = Len(t) + 1, NEW b \in 1..Len(t),
         \A m \in 1..Len(t) : u[m].parent = t[m].parent, u[Len(t) + 1].parent = b
  PROVE  OpenOf(u, Len(t) + 1) = OpenOf(t, b) \cup {Len(t) + 1}
<1>1. PICK z \in Nat : z = Len(t) /\ DOMAIN t = 1..z /\ DOMAIN u = 1..(z + 1) /\ z >= 1
  BY TreeIs
<1>2. z + 1 \in 1..Len(u) /\ z + 1 # 1
  BY <1>1
<1>3. OpenOf(u, z + 1) \subseteq OpenOf(t, b) \cup {z + 1}
  <2> DEFINE S == OpenOf(t, b) \cup {z + 1}
  <2>1. OpenOf(t, b) \subseteq 1..z /\ b \in OpenOf(t, b)
        /\ \A m \in OpenOf(t, b) \ {1} : t[m].parent \in OpenOf(t, b)
    <3>1. OpenOf(t, b) \subseteq 1..z
      BY <1>1 DEF OpenOf
    <3>2. b \in OpenOf(t, b)
          /\ \A m \in OpenOf(t, b) \ {1} : t[m].parent \in OpenOf(t, b)
      BY OpenUp
    <3> QED
      BY <3>1, <3>2
  <2>2. S \in SUBSET DOMAIN u
    BY <1>1, <2>1
  <2>3. \A m \in S \ {1} : u[m].parent \in S
    <3> TAKE m \in S \ {1}
    <3>1. CASE m = z + 1
      BY <1>1, <2>1, <3>1
    <3>2. CASE m # z + 1
      <4>1. m \in OpenOf(t, b) \ {1}
        BY <3>2
      <4>2. m \in 1..Len(t)
        BY <1>1, <2>1, <4>1
      <4>3. t[m].parent \in OpenOf(t, b)
        BY <2>1, <4>1
      <4> QED
        BY <4>2, <4>3
    <3> QED
      BY <3>1, <3>2
  <2>4. z + 1 \in S
    OBVIOUS
  <2> HIDE DEF S
  <2>5. OpenOf(u, z + 1) \subseteq S
    BY <2>2, <2>3, <2>4, OpenLeast
  <2> QED
    BY <2>5 DEF S
<1>4. OpenOf(t, b) \cup {z + 1} \subseteq OpenOf(u, z + 1)
  <2> DEFINE T == OpenOf(u, z + 1)
             S == T \ {z + 1}
  <2>1. T \subseteq 1..(z + 1) /\ z + 1 \in T /\ \A m \in T \ {1} : u[m].parent \in T
    BY <1>2, OpenUp
  <2> HIDE DEF T
  <2>2. u[z + 1].parent = b /\ b \in 1..z
    BY <1>1
  <2>3. b \in S
    BY <1>1, <1>2, <2>1, <2>2
  <2>4. S \in SUBSET DOMAIN t
    <3> SUFFICES ASSUME NEW m \in S
                 PROVE  m \in 1..z
      BY <1>1
    <3>1. m \in 1..(z + 1) /\ m # z + 1
      BY <2>1
    <3> QED
      BY <1>1, <3>1
  <2>5. \A m \in S \ {1} : t[m].parent \in S
    <3> TAKE m \in S \ {1}
    <3>1. m \in 1..z /\ m # 1 /\ m \in T \ {1}
      BY <1>1, <2>4
    <3>2. u[m].parent = t[m].parent
      BY <1>1, <3>1
    <3>3. t[m].parent \in 1..(m - 1)
      BY <1>1, <3>1, TreeIs
    <3>4. t[m].parent # z + 1
      BY <1>1, <3>1, <3>3
    <3> QED
      BY <2>1, <3>1, <3>2, <3>4
  <2> HIDE DEF S
  <2>6. OpenOf(t, b) \subseteq S
    BY <2>3, <2>4, <2>5, OpenLeast
  <2> QED
    BY <2>1, <2>6 DEF S, T
<1> QED
  BY <1>1, <1>3, <1>4

LEMMA OpenShrinks ==
  ASSUME NEW t, IsTree(t), NEW b \in 1..Len(t), b # 1
  PROVE  OpenOf(t, t[b].parent) = OpenOf(t, b) \ {b}
<1>1. PICK p : p = t[b].parent
  OBVIOUS
<1>2. p \in 1..Len(t) /\ p < b /\ p # b /\ b \in Nat
  <2>1. p \in 1..(b - 1)
    BY <1>1, TreeIs
  <2> QED
    BY <2>1, TreeIs
<1>3. OpenOf(t, b) \subseteq 1..b /\ b \in OpenOf(t, b)
      /\ \A m \in OpenOf(t, b) \ {1} : t[m].parent \in OpenOf(t, b)
  BY OpenUp
<1>4. OpenOf(t, p) \subseteq 1..p /\ p \in OpenOf(t, p)
      /\ \A m \in OpenOf(t, p) \ {1} : t[m].parent \in OpenOf(t, p)
  BY <1>2, OpenUp
<1>5. OpenOf(t, p) \subseteq OpenOf(t, b) \ {b}
  <2> DEFINE S == OpenOf(t, b) \ {b}
  <2>1. S \in SUBSET DOMAIN t
    BY DEF OpenOf
  <2>2. p \in S
    BY <1>1, <1>2, <1>3
  <2>3. \A m \in S \ {1} : t[m].parent \in S
    <3> TAKE m \in S \ {1}
    <3>1. m \in 1..b /\ m # 1 /\ m \in OpenOf(t, b) \ {1}
      BY <1>3
    <3>2. t[m].parent \in 1..(m - 1)
      BY <1>2, <3>1, TreeIs
    <3>3. t[m].parent # b
      BY <1>2, <3>1, <3>2
    <3> QED
      BY <1>3, <3>1, <3>3
  <2> HIDE DEF S
  <2>4. OpenOf(t, p) \subseteq S
    BY <2>1, <2>2, <2>3, OpenLeast
  <2> QED
    BY <2>4 DEF S
<1>6. OpenOf(t, b) \subseteq OpenOf(t, p) \cup {b}
  <2> DEFINE S == OpenOf(t, p) \cup {b}
  <2>1. S \in SUBSET DOMAIN t
    <3>1. OpenOf(t, p) \subseteq DOMAIN t
      BY DEF OpenOf
    <3> QED
      BY <3>1, TreeIs
  <2>2. \A m \in S \ {1} : t[m].parent \in S
    BY <1>1, <1>4
  <2>3. b \in S
    OBVIOUS
  <2> HIDE DEF S
  <2>4. OpenOf(t, b) \subseteq S
    BY <2>1, <2>2, <2>3, OpenLeast
  <2> QED
    BY <2>4 DEF S
<1>7. b \notin OpenOf(t, p)
  BY <1>2, <1>4
<1> QED
  BY <1>1, <1>5, <1>6, <1>7

-----------------------------------------------------------------------------
(* A node is made at the end of a block. *)
Inserted(t, u, b, token) ==
  /\ u \in Seq(NodeRecord) /\ Len(u) = Len(t) + 1
  /\ u[Len(t) + 1] = Node(token, b)
  /\ \A n \in 1..Len(t) : n # b => u[n] = t[n]
  /\ u[b].token = t[b].token /\ u[b].parent = t[b].parent /\ u[b].in_else = t[b].in_else
  /\ u[b].child_nodes =
       IF t[b].in_else THEN t[b].child_nodes ELSE Append(t[b].child_nodes, Len(t) + 1)
  /\ u[b].child_nodes_else =
       IF t[b].in_else THEN Append(t[b].child_nodes_else, Len(t) + 1) ELSE t[b].child_nodes_else

InsertTail(t, u, b, token) ==
  u = LET new == Len(t) + 1
          list == IF t[b].in_else
                  THEN [t EXCEPT ![b].child_nodes_else = Append(@, new)]
                  ELSE [t EXCEPT ![b].child_nodes = Append(@, new)]
      IN  Append(list, Node(token, b))

LEMMA InsertIs ==
  ASSUME NEW t, IsTree(t), NEW b \in 1..Len(t), NEW token \in Template, NEW u,
         InsertTail(t, u, b, token)
  PROVE  Inserted(t, u, b, token)
<1>1. PICK z \in Nat : z = Len(t) /\ DOMAIN t = 1..z
  BY TreeIs
<1>2. /\ t[b] \in NodeRecord /\ t \in Seq(NodeRecord)
      /\ t[b].child_nodes \in Seq(Nat) /\ t[b].child_nodes_else \in Seq(Nat)
  BY NodeIs DEF IsTree
<1>3. PICK r : r = IF t[b].in_else
                   THEN [t[b] EXCEPT !.child_nodes_else = Append(@, z + 1)]
                   ELSE [t[b] EXCEPT !.child_nodes = Append(@, z + 1)]
  OBVIOUS
<1>4. Append(t[b].child_nodes, z + 1) \in Seq(Nat) /\ Append(t[b].child_nodes_else, z + 1) \in Seq(Nat)
  BY <1>1, <1>2, AppendProperties
<1>5. /\ r \in NodeRecord
      /\ r.token = t[b].token /\ r.parent = t[b].parent /\ r.in_else = t[b].in_else
      /\ r.child_nodes = IF t[b].in_else THEN t[b].child_nodes ELSE Append(t[b].child_nodes, z + 1)
      /\ r.child_nodes_else =
           IF t[b].in_else THEN Append(t[b].child_nodes_else, z + 1) ELSE t[b].child_nodes_else
  BY <1>2, <1>3, <1>4 DEF NodeRecord
<1>6. PICK l : l = [t EXCEPT ![b] = r]
  OBVIOUS
<1>7. u = Append(l, Node(token, b))
  BY <1>1, <1>3, <1>6 DEF InsertTail
<1>8. l \in Seq(NodeRecord) /\ Len(l) = z /\ l[b] = r /\ \A n \in 1..z : n # b => l[n] = t[n]
  BY <1>1, <1>2, <1>5, <1>6, ExceptSeq
<1>9. Node(token, b) \in NodeRecord
  BY <1>1 DEF Node, NodeRecord, Tok
<1>10. /\ u \in Seq(NodeRecord) /\ Len(u) = z + 1 /\ u[z + 1] = Node(token, b)
       /\ \A n \in 1..z : u[n] = l[n]
  BY <1>7, <1>8, <1>9, AppendProperties
<1>11. u[b] = r /\ \A n \in 1..z : n # b => u[n] = t[n]
  BY <1>1, <1>8, <1>10
<1> QED
  BY <1>1, <1>5, <1>10, <1>11 DEF Inserted

(* The lists of the other nodes stay lists below them. *)
LEMMA BelowKept ==
  ASSUME NEW t, IsTree(t), NEW u, Len(u) = Len(t) + 1,
         \A m \in 1..Len(t) : u[m].parent = t[m].parent,
         NEW n \in 1..Len(t), NEW list, ListBelow(t, n, list)
  PROVE  /\ ListBelow(u, n, list)
         /\ u[Len(t) + 1].parent = n => ListBelow(u, n, Append(list, Len(t) + 1))
<1>1. PICK z \in Nat : z = Len(t) /\ Len(u) = z + 1
  BY TreeIs
<1>2. /\ list \in Seq(Nat) /\ Len(list) \in Nat
      /\ \A i \in 1..Len(list) : list[i] \in (n + 1)..z /\ t[list[i]].parent = n
      /\ \A i, j \in 1..Len(list) : i < j => list[i] < list[j]
  BY <1>1, LenProperties DEF ListBelow
<1>3. \A i \in 1..Len(list) : list[i] \in (n + 1)..(z + 1) /\ u[list[i]].parent = n
  <2> TAKE i \in 1..Len(list)
  <2>1. list[i] \in (n + 1)..z /\ t[list[i]].parent = n
    BY <1>2
  <2>2. list[i] \in 1..z /\ list[i] \in (n + 1)..(z + 1)
    BY <1>1, <2>1
  <2> QED
    BY <1>1, <2>1, <2>2
<1>4. ListBelow(u, n, list)
  BY <1>1, <1>2, <1>3 DEF ListBelow
<1>5. ASSUME u[z + 1].parent = n
      PROVE  ListBelow(u, n, Append(list, z + 1))
  <2>1. PICK l : l = Append(list, z + 1)
    OBVIOUS
  <2>2. /\ l \in Seq(Nat) /\ Len(l) = Len(list) + 1 /\ l[Len(list) + 1] = z + 1
        /\ \A i \in 1..Len(list) : l[i] = list[i]
    BY <1>1, <1>2, <2>1, AppendProperties
  <2>3. \A i \in 1..Len(l) : i \in 1..Len(list) \/ i = Len(list) + 1
    BY <1>2, <2>2
  <2>4. z + 1 \in (n + 1)..(z + 1)
    BY <1>1
  <2>5. \A i \in 1..Len(l) : l[i] \in (n + 1)..(z + 1) /\ u[l[i]].parent = n
    BY <1>3, <1>5, <2>2, <2>3, <2>4
  <2>6. \A i, j \in 1..Len(l) : i < j => l[i] < l[j]
    <3> SUFFICES ASSUME NEW i \in 1..Len(l), NEW j \in 1..Len(l), i < j
                 PROVE  l[i] < l[j]
      OBVIOUS
    <3>1. i \in 1..Len(list)
      BY <1>2, <2>2
    <3>2. l[i] = list[i] /\ list[i] \in (n + 1)..z
      BY <1>2, <2>2, <3>1
    <3>3. CASE j \in 1..Len(list)
      BY <1>2, <2>2, <3>1, <3>3
    <3>4. CASE j = Len(list) + 1
      BY <1>1, <2>2, <3>2, <3>4
    <3> QED
      BY <2>3, <3>3, <3>4
  <2> QED
    BY <1>1, <2>1, <2>2, <2>5, <2>6 DEF ListBelow
<1> QED
  BY <1>1, <1>4, <1>5

LEMMA InsertTree ==
  ASSUME NEW t, IsTree(t), NEW b \in 1..Len(t), NEW token, NEW u, Inserted(t, u, b, token),
         ~t[b].in_else => t[b].child_nodes_else = <<>>
  PROVE  IsTree(u)
<1>1. PICK z \in Nat : z = Len(t) /\ Len(u) = z + 1 /\ z >= 1
  BY TreeIs DEF Inserted
<1>2. /\ u \in Seq(NodeRecord) /\ u[z + 1] = Node(token, b)
      /\ \A n \in 1..z : n # b => u[n] = t[n]
      /\ \A n \in 1..z : u[n].parent = t[n].parent
  BY <1>1 DEF Inserted
<1>3. \A n \in 1..z : n # 1 => u[n].parent \in 1..(n - 1)
  BY <1>1, <1>2, TreeIs
<1>4. /\ u[z + 1].parent = b /\ b \in 1..z
      /\ u[z + 1].child_nodes = <<>> /\ u[z + 1].child_nodes_else = <<>>
  BY <1>1, <1>2 DEF Node
<1>5. \A n \in 1..z : \A list : ListBelow(t, n, list) =>
        /\ ListBelow(u, n, list)
        /\ n = b => ListBelow(u, n, Append(list, z + 1))
  BY <1>1, <1>2, <1>4, BelowKept
<1>6. \A n \in 1..z : ListBelow(t, n, t[n].child_nodes) /\ ListBelow(t, n, t[n].child_nodes_else)
  BY <1>1 DEF IsTree
<1>7. \A n \in 1..z : ListBelow(u, n, u[n].child_nodes) /\ ListBelow(u, n, u[n].child_nodes_else)
  <2> TAKE n \in 1..z
  <2>1. CASE n # b
    BY <1>2, <1>5, <1>6, <2>1
  <2>2. CASE n = b
    <3>1. /\ u[b].child_nodes =
               IF t[b].in_else THEN t[b].child_nodes ELSE Append(t[b].child_nodes, z + 1)
          /\ u[b].child_nodes_else =
               IF t[b].in_else THEN Append(t[b].child_nodes_else, z + 1) ELSE t[b].child_nodes_else
      BY <1>1 DEF Inserted
    <3> QED
      BY <1>5, <1>6, <2>2, <3>1
  <2> QED
    BY <2>1, <2>2
<1>8. \A n \in 1..z : \A i \in 1..Len(u[n].child_nodes) : \A j \in 1..Len(u[n].child_nodes_else) :
        u[n].child_nodes[i] < u[n].child_nodes_else[j]
  <2> TAKE n \in 1..z
  <2>0. \A i \in 1..Len(t[n].child_nodes) : \A j \in 1..Len(t[n].child_nodes_else) :
          t[n].child_nodes[i] < t[n].child_nodes_else[j]
    BY <1>1 DEF IsTree
  <2>1. CASE n # b
    BY <1>2, <2>0, <2>1
  <2>2. CASE n = b /\ ~t[b].in_else
    <3>1. u[b].child_nodes_else = <<>>
      BY <2>2 DEF Inserted
    <3> QED
      BY <2>2, <3>1
  <2>3. CASE n = b /\ t[b].in_else
    <3>1. u[b].child_nodes = t[b].child_nodes
          /\ u[b].child_nodes_else = Append(t[b].child_nodes_else, z + 1)
      BY <1>1, <2>3 DEF Inserted
    <3>2. PICK l : l = t[b].child_nodes_else
      OBVIOUS
    <3>3. /\ l \in Seq(Nat) /\ Len(l) \in Nat
          /\ \A i \in 1..Len(t[b].child_nodes) : t[b].child_nodes[i] \in (b + 1)..z
      BY <1>1, <3>2, NodeIs, LenProperties
    <3>4. PICK k : k = Append(l, z + 1)
      OBVIOUS
    <3>5. Len(k) = Len(l) + 1 /\ k[Len(l) + 1] = z + 1 /\ \A j \in 1..Len(l) : k[j] = l[j]
      BY <1>1, <3>3, <3>4, AppendProperties
    <3>6. \A j \in 1..Len(k) : j \in 1..Len(l) \/ j = Len(l) + 1
      BY <3>3, <3>5
    <3>7. \A i \in 1..Len(t[b].child_nodes) : \A j \in 1..Len(k) : t[b].child_nodes[i] < k[j]
      <4> SUFFICES ASSUME NEW i \in 1..Len(t[b].child_nodes), NEW j \in 1..Len(k)
                   PROVE  t[b].child_nodes[i] < k[j]
        OBVIOUS
      <4>1. CASE j \in 1..Len(l)
        BY <2>0, <2>3, <3>2, <3>5, <4>1
      <4>2. CASE j = Len(l) + 1
        <5>1. t[b].child_nodes[i] \in (b + 1)..z
          BY <3>3
        <5> QED
          BY <1>1, <3>5, <4>2, <5>1
      <4> QED
        BY <3>6, <4>1, <4>2
    <3> QED
      BY <2>3, <3>1, <3>2, <3>4, <3>7
  <2> QED
    BY <2>1, <2>2, <2>3
<1>9. /\ ListBelow(u, z + 1, <<>>)
      /\ u[z + 1].parent \in 1..((z + 1) - 1)
  <2>1. <<>> \in Seq(Nat) /\ \A i : i \notin 1..Len(<<>>)
    OBVIOUS
  <2> QED
    BY <1>1, <1>4, <2>1 DEF ListBelow
<1>10. \A n \in 1..Len(u) : n \in 1..z \/ n = z + 1
  BY <1>1
<1>11. ASSUME NEW n \in 1..Len(u)
       PROVE  /\ ListBelow(u, n, u[n].child_nodes) /\ ListBelow(u, n, u[n].child_nodes_else)
              /\ \A i \in 1..Len(u[n].child_nodes) : \A j \in 1..Len(u[n].child_nodes_else) :
                   u[n].child_nodes[i] < u[n].child_nodes_else[j]
              /\ n # 1 => u[n].parent \in 1..(n - 1)
  <2>1. CASE n \in 1..z
    BY <1>3, <1>7, <1>8, <2>1
  <2>2. CASE n = z + 1
    <3>1. \A i : i \notin 1..Len(<<>>)
      OBVIOUS
    <3> QED
      BY <1>4, <1>9, <2>2, <3>1
  <2> QED
    BY <1>10, <2>1, <2>2
<1> QED
  BY <1>1, <1>2, <1>11 DEF IsTree

LEMMA SpineIs ==
  ASSUME NEW t, IsTree(t), NEW open, NEW b, Spine(t, open, b)
  PROVE  /\ b \in 1..Len(t) /\ Len(t) \in Nat /\ open \subseteq 1..b
         /\ 1 \in open /\ b \in open
         /\ \A n \in open : n \in 1..Len(t) /\ n <= b
         /\ \A n \in open : n # 1 => t[n].parent \in open /\ t[n].parent # b /\ t[n].parent < n
<1>1. Len(t) \in Nat /\ \A n \in 1..Len(t) : n # 1 => t[n].parent \in 1..(n - 1)
  BY TreeIs
<1>2. open \subseteq 1..b /\ 1 \in open /\ b \in open /\ b <= Len(t)
      /\ \A n \in open : n # 1 => t[n].parent \in open
  BY DEF Spine
<1>3. b \in 1..b
  BY <1>2
<1>4. b \in 1..Len(t) /\ b \in Nat
  BY <1>1, <1>2, <1>3
<1>5. \A n \in open : n \in 1..Len(t) /\ n <= b
  BY <1>1, <1>2, <1>4
<1>6. \A n \in open : n # 1 => t[n].parent \in open /\ t[n].parent # b /\ t[n].parent < n
  <2> SUFFICES ASSUME NEW n \in open, n # 1
               PROVE  t[n].parent \in open /\ t[n].parent # b /\ t[n].parent < n
    OBVIOUS
  <2>1. n \in 1..Len(t) /\ n <= b
    BY <1>5
  <2>2. t[n].parent \in 1..(n - 1)
    BY <1>1, <2>1
  <2> QED
    BY <1>2, <1>4, <2>1, <2>2
<1> QED
  BY <1>1, <1>2, <1>4, <1>5, <1>6

(* The right edge ends in the node that is made, if its block is open now. *)
LEMMA InsertSpine ==
  ASSUME NEW t, IsTree(t), NEW open, NEW b, Spine(t, open, b),
         NEW token \in Template, NEW u, Inserted(t, u, b, token)
  PROVE  Spine(u, open, b) /\ Spine(u, open \cup {Len(t) + 1}, Len(t) + 1)
<1>1. PICK z \in Nat : z = Len(t) /\ Len(u) = z + 1
  BY SpineIs DEF Inserted
<1>2. /\ b \in 1..z /\ open \subseteq 1..b /\ 1 \in open /\ b \in open
      /\ \A n \in open : n \in 1..z /\ n <= b
      /\ \A n \in open : n # 1 => t[n].parent \in open /\ t[n].parent # b
  BY <1>1, SpineIs
<1>3. /\ \A n \in 1..z : n # b => u[n] = t[n]
      /\ u[z + 1] = Node(token, b)
      /\ u[b].token = t[b].token /\ u[b].parent = t[b].parent /\ u[b].in_else = t[b].in_else
      /\ u[b].child_nodes =
           IF t[b].in_else THEN t[b].child_nodes ELSE Append(t[b].child_nodes, z + 1)
      /\ u[b].child_nodes_else =
           IF t[b].in_else THEN Append(t[b].child_nodes_else, z + 1) ELSE t[b].child_nodes_else
  BY <1>1 DEF Inserted
<1>4. \A n \in open : n # b => ActiveOf(u, n) = ActiveOf(t, n)
  BY <1>2, <1>3 DEF ActiveOf
<1>5. /\ ActiveOf(u, b) # <<>>
      /\ ActiveOf(u, b)[Len(ActiveOf(u, b))] = z + 1
  <2>1. t[b].child_nodes \in Seq(Nat) /\ t[b].child_nodes_else \in Seq(Nat)
    BY <1>1, <1>2, NodeIs
  <2>2. \A s \in Seq(Nat) : Append(s, z + 1) # <<>> /\ Append(s, z + 1)[Len(Append(s, z + 1))] = z + 1
    BY AppendProperties
  <2> QED
    BY <1>3, <2>1, <2>2 DEF ActiveOf
<1>6. ASSUME NEW n \in open
      PROVE  /\ u[n].in_else => u[n].token.kind = "if"
             /\ ~u[n].in_else => u[n].child_nodes_else = <<>>
             /\ n # 1 => /\ u[n].parent \in open /\ ActiveOf(u, u[n].parent) # <<>>
                         /\ n = ActiveOf(u, u[n].parent)[Len(ActiveOf(u, u[n].parent))]
             /\ n # b => \E c \in open : c # 1 /\ u[c].parent = n
  <2>1. /\ t[n].in_else => t[n].token.kind = "if"
        /\ ~t[n].in_else => t[n].child_nodes_else = <<>>
        /\ n # 1 => /\ t[n].parent \in open /\ ActiveOf(t, t[n].parent) # <<>>
                    /\ n = ActiveOf(t, t[n].parent)[Len(ActiveOf(t, t[n].parent))]
        /\ n # b => \E c \in open : c # 1 /\ t[c].parent = n
    BY DEF Spine
  <2>2. /\ u[n].in_else => u[n].token.kind = "if"
        /\ ~u[n].in_else => u[n].child_nodes_else = <<>>
    BY <1>2, <1>3, <2>1
  <2>3. \A c \in open : u[c].parent = t[c].parent
    BY <1>2, <1>3
  <2>4. n # 1 => ActiveOf(u, t[n].parent) = ActiveOf(t, t[n].parent)
    BY <1>2, <1>4
  <2> QED
    BY <2>1, <2>2, <2>3, <2>4
<1>7. Spine(u, open, b)
  BY <1>1, <1>2, <1>6 DEF Spine
<1>8. Spine(u, open \cup {z + 1}, z + 1)
  <2>1. z + 1 \notin open /\ z + 1 # 1 /\ z + 1 # b
    BY <1>2
  <2>2. open \cup {z + 1} \subseteq 1..(z + 1) /\ z + 1 <= Len(u)
    <3>1. \A n \in 1..z : n \in 1..(z + 1)
      OBVIOUS
    <3>2. z + 1 \in 1..(z + 1) /\ z + 1 <= z + 1
      OBVIOUS
    <3> QED
      BY <1>1, <1>2, <3>1, <3>2
  <2>3. /\ u[z + 1].parent = b /\ ~u[z + 1].in_else /\ u[z + 1].child_nodes_else = <<>>
    BY <1>3 DEF Node
  <2>4. ASSUME NEW n \in open
        PROVE  n # z + 1 /\ \E c \in open \cup {z + 1} : c # 1 /\ u[c].parent = n
    BY <1>6, <2>1, <2>3
  <2>5. ASSUME NEW n \in open \cup {z + 1}
        PROVE  /\ u[n].in_else => u[n].token.kind = "if"
               /\ ~u[n].in_else => u[n].child_nodes_else = <<>>
               /\ n # 1 => /\ u[n].parent \in open \cup {z + 1} /\ ActiveOf(u, u[n].parent) # <<>>
                           /\ n = ActiveOf(u, u[n].parent)[Len(ActiveOf(u, u[n].parent))]
               /\ n # z + 1 => \E c \in open \cup {z + 1} : c # 1 /\ u[c].parent = n
    <3>1. CASE n \in open
      BY <1>6, <2>4, <3>1
    <3>2. CASE n = z + 1
      BY <1>2, <1>5, <2>3, <3>2
    <3> QED
      BY <3>1, <3>2
  <2> QED
    BY <1>2, <2>2, <2>5 DEF Spine
<1> QED
  BY <1>1, <1>7, <1>8

LEMMA InsertText ==
  ASSUME NEW t, IsTree(t), NEW open, NEW b, Spine(t, open, b),
         NEW token \in Template, NEW u, Inserted(t, u, b, token), IsTree(u),
         NEW open2, b \in open2,
         token.kind \notin {"if", "for"} \/ Len(t) + 1 \in open2,
         NEW w, TheText(w, t, open), NEW v, TheText(v, u, open2),
         \A c \in (b + 1)..Len(t) : v[c] = w[c]
  PROVE  Longer(v[b], w[b], <<token>>)
<1>1. PICK z \in Nat : z = Len(t) /\ Len(u) = z + 1
  BY SpineIs DEF Inserted
<1>2. b \in 1..z /\ b \in 1..(z + 1) /\ z + 1 \in 1..(z + 1) /\ b \in open /\ z + 1 # 1
  BY <1>1, SpineIs
<1>3. w[b] = TextIn(t, open, w, b) /\ \A n \in 1..z : w[n] \in Seq(Tok)
  BY <1>1, <1>2, TextIs
<1>4. \A n \in 1..(z + 1) : v[n] = TextIn(u, open2, v, n) /\ v[n] \in Seq(Tok)
  BY <1>1, TextIs
<1>5. /\ u[z + 1] = Node(token, b)
      /\ u[b].token = t[b].token /\ u[b].parent = t[b].parent /\ u[b].in_else = t[b].in_else
      /\ u[b].child_nodes =
           IF t[b].in_else THEN t[b].child_nodes ELSE Append(t[b].child_nodes, z + 1)
      /\ u[b].child_nodes_else =
           IF t[b].in_else THEN Append(t[b].child_nodes_else, z + 1) ELSE t[b].child_nodes_else
  BY <1>1 DEF Inserted
<1>6. v[z + 1] = <<token>>
  <2>1. AsText(u[z + 1].child_nodes, v) = <<>> /\ AsText(u[z + 1].child_nodes_else, v) = <<>>
    BY <1>5, AsTextNone DEF Node
  <2>2. TagOf(u, z + 1) = <<token>>
    BY <1>2, <1>5 DEF TagOf, Node
  <2>3. ElseOf(u, z + 1) = <<>> /\ EndOf(u, open2, z + 1) = <<>>
    BY <1>1, <1>5 DEF ElseOf, EndOf, Node
  <2>4. TextIn(u, open2, v, z + 1) = (<<token>> \o <<>>) \o ((<<>> \o <<>>) \o <<>>)
    BY <2>1, <2>2, <2>3 DEF TextIn, FirstPart, SecondPart
  <2>5. (<<token>> \o <<>>) \o ((<<>> \o <<>>) \o <<>>) = <<token>>
    OBVIOUS
  <2> QED
    BY <1>2, <1>4, <2>4, <2>5
<1>7. PICK x \in Seq(Tok) : x = <<token>>
  <2>1. token \in Tok
    BY DEF Tok
  <2>2. \A y \in Tok : <<y>> \in Seq(Tok)
    OBVIOUS
  <2> QED
    BY <2>1, <2>2
<1>8. /\ t[b].child_nodes \in Seq(Nat) /\ t[b].child_nodes_else \in Seq(Nat)
      /\ t[b].in_else \in BOOLEAN
      /\ \A i \in 1..Len(t[b].child_nodes) : t[b].child_nodes[i] \in (b + 1)..z
      /\ \A i \in 1..Len(t[b].child_nodes_else) : t[b].child_nodes_else[i] \in (b + 1)..z
  BY <1>1, <1>2, NodeIs
<1>9. PICK l, k : l = t[b].child_nodes /\ k = t[b].child_nodes_else
  OBVIOUS
<1>10. /\ l \in Seq(Nat) /\ k \in Seq(Nat)
       /\ \A i \in 1..Len(l) : v[l[i]] = w[l[i]] /\ w[l[i]] \in Seq(Tok) /\ v[l[i]] \in Seq(Tok)
       /\ \A i \in 1..Len(k) : v[k[i]] = w[k[i]] /\ w[k[i]] \in Seq(Tok) /\ v[k[i]] \in Seq(Tok)
  <2>1. \A c \in (b + 1)..z : v[c] = w[c] /\ w[c] \in Seq(Tok) /\ v[c] \in Seq(Tok)
    <3>1. \A c \in (b + 1)..z : c \in 1..z
      BY <1>2
    <3> QED
      BY <1>1, <1>3, <3>1
  <2> QED
    BY <1>8, <1>9, <2>1
<1>11. AsText(l, v) = AsText(l, w) /\ AsText(k, v) = AsText(k, w)
  BY <1>10, AsTextSame
<1>12. AsText(l, w) \in Seq(Tok) /\ AsText(k, w) \in Seq(Tok)
  BY <1>10, AsTextTyped
<1>13. v[z + 1] = x /\ z + 1 \in Nat
  BY <1>6, <1>7
<1>14. AsText(Append(l, z + 1), v) = AsText(l, w) \o x
       /\ AsText(Append(k, z + 1), v) = AsText(k, w) \o x
  <2>1. v[z + 1] \in Seq(Tok)
    BY <1>7, <1>13
  <2>2. ASSUME NEW m \in Seq(Nat), \A i \in 1..Len(m) : v[m[i]] \in Seq(Tok)
        PROVE  AsText(Append(m, z + 1), v) = AsText(m, v) \o v[z + 1]
    <3>1. PICK c \in Nat : c = z + 1
      BY <1>13
    <3>2. v[c] \in Seq(Tok)
      BY <2>1, <3>1
    <3>3. AsText(Append(m, c), v) = AsText(m, v) \o v[c]
      BY <2>2, <3>2, AsTextAppend
    <3> QED
      BY <3>1, <3>3
  <2>3. AsText(Append(l, z + 1), v) = AsText(l, v) \o v[z + 1]
        /\ AsText(Append(k, z + 1), v) = AsText(k, v) \o v[z + 1]
    BY <1>10, <2>2
  <2> QED
    BY <1>11, <1>13, <2>3
<1>15. PICK g, p, q, e : /\ g = TagOf(t, b) /\ p = AsText(l, w)
                         /\ e = ElseOf(t, b) /\ q = AsText(k, w)
  OBVIOUS
<1>16. g \in Seq(Tok) /\ p \in Seq(Tok) /\ e \in Seq(Tok) /\ q \in Seq(Tok)
  BY <1>1, <1>2, <1>12, <1>15, TagsTyped
<1>17. TagOf(u, b) = g /\ ElseOf(u, b) = e /\ EndOf(u, open2, b) = <<>> /\ EndOf(t, open, b) = <<>>
  BY <1>2, <1>5, <1>15 DEF TagOf, ElseOf, EndOf
<1>18. w[b] = (g \o p) \o ((e \o q) \o <<>>)
  BY <1>3, <1>9, <1>15, <1>17 DEF TextIn, FirstPart, SecondPart
<1>19. v[b] = TextIn(u, open2, v, b)
  BY <1>2, <1>4
<1>20. \A a, c, d \in Seq(Tok) : (a \o c) \o d = a \o (c \o d)
  BY Assoc
<1>20a. (e \o q) \o x = e \o (q \o x) /\ (g \o p) \o x = g \o (p \o x)
  <2> HIDE <1>7
  <2>1. x \in Seq(Tok)
    OBVIOUS
  <2>2. \A a, c, d \in Seq(Tok) : (a \o c) \o d = a \o (c \o d)
    BY Assoc
  <2>3. (e \o q) \o x = e \o (q \o x)
    BY <1>16, <2>1, <2>2, SMTT(30)
  <2>4. (g \o p) \o x = g \o (p \o x)
    BY <1>16, <2>1, <2>2, SMTT(30)
  <2> QED
    BY <2>3, <2>4
<1>21. \A a, c \in Seq(Tok) : a \o c \in Seq(Tok) /\ a \o <<>> = a
  BY ConcatProperties, ConcatEmptySeq
<1>22. CASE t[b].in_else
  <2>1. v[b] = (g \o p) \o ((e \o (q \o x)) \o <<>>)
    BY <1>5, <1>9, <1>11, <1>14, <1>15, <1>17, <1>19, <1>22 DEF TextIn, FirstPart, SecondPart
  <2>2. PICK gp \in Seq(Tok), eq \in Seq(Tok) : gp = g \o p /\ eq = e \o q
    BY <1>16, <1>21
  <2>3. e \o (q \o x) = eq \o x
    BY <1>20a, <2>2, Zenon
  <2>4. (eq \o x) \o <<>> = eq \o x /\ eq \o <<>> = eq /\ eq \o x \in Seq(Tok)
    BY <1>21, <2>2
  <2>5. gp \o (eq \o x) = (gp \o eq) \o x
    BY <1>20
  <2> QED
    BY <1>7, <1>18, <2>1, <2>2, <2>3, <2>4, <2>5, Zenon DEF Longer
<1>23. CASE ~t[b].in_else
  <2>1. e = <<>> /\ k = <<>>
    BY <1>2, <1>9, <1>15, <1>23 DEF Spine, ElseOf
  <2>2. q = <<>>
    BY <1>15, <2>1, AsTextNone
  <2>3. v[b] = (g \o (p \o x)) \o ((e \o q) \o <<>>)
    BY <1>5, <1>9, <1>11, <1>14, <1>15, <1>17, <1>19, <1>23 DEF TextIn, FirstPart, SecondPart
  <2>4. (e \o q) \o <<>> = <<>>
    BY <2>1, <2>2
  <2>5. PICK gp \in Seq(Tok) : gp = g \o p
    BY <1>16, <1>21
  <2>6. g \o (p \o x) = gp \o x
    BY <1>20a, <2>5, Zenon
  <2>7. (gp \o x) \o <<>> = gp \o x /\ gp \o <<>> = gp /\ gp \o x \in Seq(Tok)
    BY <1>21
  <2> QED
    BY <1>7, <1>18, <2>3, <2>4, <2>5, <2>6, <2>7, Zenon DEF Longer
<1> QED
  BY <1>8, <1>22, <1>23

-----------------------------------------------------------------------------
(* The else part of a block begins. *)
Elsed(t, u, b) ==
  /\ u \in Seq(NodeRecord) /\ Len(u) = Len(t)
  /\ \A n \in 1..Len(t) : n # b => u[n] = t[n]
  /\ u[b].token = t[b].token /\ u[b].parent = t[b].parent /\ u[b].in_else = TRUE
  /\ u[b].child_nodes = t[b].child_nodes /\ u[b].child_nodes_else = t[b].child_nodes_else

LEMMA ElseIs ==
  ASSUME NEW t, IsTree(t), NEW b \in 1..Len(t), NEW u, u = [t EXCEPT ![b].in_else = TRUE]
  PROVE  Elsed(t, u, b)
<1>1. PICK z \in Nat : z = Len(t) /\ DOMAIN t = 1..z
  BY TreeIs
<1>2. t[b] \in NodeRecord /\ t \in Seq(NodeRecord)
  BY NodeIs DEF IsTree
<1>3. PICK r : r = [t[b] EXCEPT !.in_else = TRUE]
  OBVIOUS
<1>4. /\ r \in NodeRecord
      /\ r.token = t[b].token /\ r.parent = t[b].parent /\ r.in_else = TRUE
      /\ r.child_nodes = t[b].child_nodes /\ r.child_nodes_else = t[b].child_nodes_else
  BY <1>2, <1>3 DEF NodeRecord
<1>5. PICK l : l = [t EXCEPT ![b] = r]
  OBVIOUS
<1>6. u = l
  BY <1>3, <1>5
<1>7. l \in Seq(NodeRecord) /\ Len(l) = z /\ l[b] = r /\ \A n \in 1..z : n # b => l[n] = t[n]
  BY <1>1, <1>2, <1>4, <1>5, ExceptSeq
<1> QED
  BY <1>1, <1>4, <1>6, <1>7 DEF Elsed

LEMMA ElseTree ==
  ASSUME NEW t, IsTree(t), NEW b \in 1..Len(t), NEW u, Elsed(t, u, b)
  PROVE  IsTree(u)
<1>1. PICK z \in Nat : z = Len(t) /\ Len(u) = z /\ z >= 1
  BY TreeIs DEF Elsed
<1>2. u \in Seq(NodeRecord) /\ \A n \in 1..z :
        /\ u[n].parent = t[n].parent
        /\ u[n].child_nodes = t[n].child_nodes /\ u[n].child_nodes_else = t[n].child_nodes_else
  BY <1>1 DEF Elsed
<1>3. \A n \in 1..z :
        /\ ListBelow(t, n, t[n].child_nodes) /\ ListBelow(t, n, t[n].child_nodes_else)
        /\ \A i \in 1..Len(t[n].child_nodes) : \A j \in 1..Len(t[n].child_nodes_else) :
             t[n].child_nodes[i] < t[n].child_nodes_else[j]
        /\ n # 1 => t[n].parent \in 1..(n - 1)
  BY <1>1 DEF IsTree
<1>4. \A n \in 1..z : \A list : ListBelow(t, n, list) => ListBelow(u, n, list)
  <2> SUFFICES ASSUME NEW n \in 1..z, NEW list, ListBelow(t, n, list)
               PROVE  ListBelow(u, n, list)
    OBVIOUS
  <2>1. /\ list \in Seq(Nat)
        /\ \A i \in 1..Len(list) : list[i] \in (n + 1)..z /\ t[list[i]].parent = n
        /\ \A i, j \in 1..Len(list) : i < j => list[i] < list[j]
    BY <1>1 DEF ListBelow
  <2>2. \A m \in (n + 1)..z : m \in 1..z
    OBVIOUS
  <2> QED
    BY <1>1, <1>2, <2>1, <2>2 DEF ListBelow
<1> QED
  BY <1>1, <1>2, <1>3, <1>4 DEF IsTree

LEMMA ElseSpine ==
  ASSUME NEW t, IsTree(t), NEW open, NEW b, Spine(t, open, b), t[b].token.kind = "if",
         NEW u, Elsed(t, u, b)
  PROVE  Spine(u, open, b)
<1>1. /\ b \in 1..Len(t) /\ open \subseteq 1..b /\ 1 \in open /\ b \in open
      /\ \A n \in open : n \in 1..Len(t)
      /\ \A n \in open : n # 1 => t[n].parent \in open /\ t[n].parent # b
  BY SpineIs
<1>2. /\ Len(u) = Len(t)
      /\ \A n \in open : n # b => u[n] = t[n]
      /\ u[b].token = t[b].token /\ u[b].in_else = TRUE
      /\ \A n \in open : u[n].parent = t[n].parent
  BY <1>1 DEF Elsed
<1>3. ASSUME NEW n \in open
      PROVE  /\ u[n].in_else => u[n].token.kind = "if"
             /\ ~u[n].in_else => u[n].child_nodes_else = <<>>
             /\ n # 1 => /\ u[n].parent \in open /\ ActiveOf(u, u[n].parent) # <<>>
                         /\ n = ActiveOf(u, u[n].parent)[Len(ActiveOf(u, u[n].parent))]
             /\ n # b => \E c \in open : c # 1 /\ u[c].parent = n
  <2>1. /\ t[n].in_else => t[n].token.kind = "if"
        /\ ~t[n].in_else => t[n].child_nodes_else = <<>>
        /\ n # 1 => /\ t[n].parent \in open /\ ActiveOf(t, t[n].parent) # <<>>
                    /\ n = ActiveOf(t, t[n].parent)[Len(ActiveOf(t, t[n].parent))]
        /\ n # b => \E c \in open : c # 1 /\ t[c].parent = n
    BY DEF Spine
  <2>2. n # 1 => ActiveOf(u, t[n].parent) = ActiveOf(t, t[n].parent)
    BY <1>1, <1>2 DEF ActiveOf
  <2> QED
    BY <1>2, <2>1, <2>2
<1> QED
  BY <1>1, <1>2, <1>3, SpineIs DEF Spine

LEMMA ElseText ==
  ASSUME NEW t, IsTree(t), NEW open, NEW b, Spine(t, open, b), ~t[b].in_else,
         NEW u, Elsed(t, u, b), IsTree(u),
         NEW w, TheText(w, t, open), NEW v, TheText(v, u, open),
         \A c \in (b + 1)..Len(t) : v[c] = w[c]
  PROVE  Longer(v[b], w[b], <<Token("else")>>)
<1>1. b \in 1..Len(t) /\ b \in open /\ Len(u) = Len(t)
  BY SpineIs DEF Elsed
<1>2. w[b] = TextIn(t, open, w, b) /\ \A n \in 1..Len(t) : w[n] \in Seq(Tok)
  BY <1>1, TextIs
<1>3. v[b] = TextIn(u, open, v, b)
  BY <1>1, TextIs
<1>4. /\ u[b].token = t[b].token /\ u[b].in_else = TRUE
      /\ u[b].child_nodes = t[b].child_nodes /\ u[b].child_nodes_else = t[b].child_nodes_else
  BY DEF Elsed
<1>5. t[b].child_nodes_else = <<>>
  BY <1>1 DEF Spine
<1>6. PICK l : l = t[b].child_nodes
  OBVIOUS
<1>7. l \in Seq(Nat) /\ \A i \in 1..Len(l) : v[l[i]] = w[l[i]] /\ w[l[i]] \in Seq(Tok)
  <2>1. l \in Seq(Nat) /\ \A i \in 1..Len(l) : l[i] \in (b + 1)..Len(t)
    BY <1>1, <1>6, NodeIs
  <2>2. \A m \in (b + 1)..Len(t) : m \in 1..Len(t)
    BY <1>1, TreeIs
  <2> QED
    BY <1>2, <2>1, <2>2
<1>8. AsText(l, v) = AsText(l, w)
  BY <1>7, AsTextSame
<1>9. AsText(l, w) \in Seq(Tok)
  BY <1>7, AsTextTyped
<1>10. AsText(<<>>, v) = <<>> /\ AsText(<<>>, w) = <<>>
  BY AsTextNone
<1>11. TagOf(t, b) \in Seq(Tok)
  BY <1>1, TagsTyped
<1>12. PICK p \in Seq(Tok) : p = TagOf(t, b) \o AsText(l, w)
  BY <1>9, <1>11, ConcatProperties
<1>13. TagOf(u, b) = TagOf(t, b) /\ EndOf(u, open, b) = <<>> /\ EndOf(t, open, b) = <<>>
       /\ ElseOf(u, b) = <<Token("else")>> /\ ElseOf(t, b) = <<>>
  BY <1>1, <1>4 DEF TagOf, EndOf, ElseOf
<1>14. w[b] = p \o ((<<>> \o <<>>) \o <<>>)
  BY <1>2, <1>5, <1>6, <1>10, <1>12, <1>13 DEF TextIn, FirstPart, SecondPart
<1>15. v[b] = p \o ((<<Token("else")>> \o <<>>) \o <<>>)
  BY <1>3, <1>4, <1>5, <1>6, <1>8, <1>10, <1>12, <1>13 DEF TextIn, FirstPart, SecondPart
<1>16. (<<>> \o <<>>) \o <<>> = <<>> /\ (<<Token("else")>> \o <<>>) \o <<>> = <<Token("else")>>
  OBVIOUS
<1>17. p \o <<>> = p
  BY ConcatEmptySeq
<1> QED
  BY <1>14, <1>15, <1>16, <1>17, Zenon DEF Longer

-----------------------------------------------------------------------------
(* A block ends. *)
LEMMA EndSpine ==
  ASSUME NEW t, IsTree(t), NEW open, NEW b, Spine(t, open, b), b # 1,
         open \ {b} \subseteq 1..t[b].parent
  PROVE  Spine(t, open \ {b}, t[b].parent)
<1>1. /\ b \in 1..Len(t) /\ Len(t) \in Nat /\ 1 \in open /\ b \in open
      /\ \A n \in open : n # 1 => t[n].parent \in open /\ t[n].parent # b
  BY SpineIs
<1>2. PICK p : p = t[b].parent
  OBVIOUS
<1>3. p \in open \ {b} /\ p \in 1..(b - 1)
  BY <1>1, <1>2, TreeIs
<1>4. p <= Len(t)
  BY <1>1, <1>3
<1>5. ASSUME NEW n \in open \ {b}
      PROVE  /\ t[n].in_else => t[n].token.kind = "if"
             /\ ~t[n].in_else => t[n].child_nodes_else = <<>>
             /\ n # 1 => /\ t[n].parent \in open \ {b} /\ ActiveOf(t, t[n].parent) # <<>>
                         /\ n = ActiveOf(t, t[n].parent)[Len(ActiveOf(t, t[n].parent))]
             /\ n # p => \E c \in open \ {b} : c # 1 /\ t[c].parent = n
  <2>1. /\ t[n].in_else => t[n].token.kind = "if"
        /\ ~t[n].in_else => t[n].child_nodes_else = <<>>
        /\ n # 1 => /\ t[n].parent \in open /\ ActiveOf(t, t[n].parent) # <<>>
                    /\ n = ActiveOf(t, t[n].parent)[Len(ActiveOf(t, t[n].parent))]
        /\ n # b => \E c \in open : c # 1 /\ t[c].parent = n
    BY DEF Spine
  <2>2. n # p => \E c \in open \ {b} : c # 1 /\ t[c].parent = n
    BY <1>2, <2>1
  <2> QED
    BY <1>1, <2>1, <2>2
<1> QED
  BY <1>1, <1>2, <1>3, <1>4, <1>5 DEF Spine

LEMMA EndText ==
  ASSUME NEW t, IsTree(t), NEW open, NEW b, Spine(t, open, b), t[b].token.kind \in {"if", "for"},
         NEW w, TheText(w, t, open), NEW v, TheText(v, t, open \ {b}),
         \A c \in (b + 1)..Len(t) : v[c] = w[c]
  PROVE  Longer(v[b], w[b], <<Token(IF t[b].token.kind = "if" THEN "endif" ELSE "endfor")>>)
<1>1. b \in 1..Len(t) /\ b \in open
  BY SpineIs
<1>2. w[b] = TextIn(t, open, w, b) /\ \A n \in 1..Len(t) : w[n] \in Seq(Tok)
  BY <1>1, TextIs
<1>3. v[b] = TextIn(t, open \ {b}, v, b)
  BY <1>1, TextIs
<1>4. TextIn(t, open \ {b}, v, b) = TextIn(t, open \ {b}, w, b)
  BY <1>1, TextSame
<1>5. PICK x : x = <<Token(IF t[b].token.kind = "if" THEN "endif" ELSE "endfor")>>
  OBVIOUS
<1>6. EndOf(t, open, b) = <<>> /\ EndOf(t, open \ {b}, b) = x
  BY <1>1, <1>5 DEF EndOf
<1>7. EndOf(t, open \ {b}, b) \in Seq(Tok)
  BY <1>1, TagsTyped
<1>8. \A m \in (b + 1)..Len(t) : w[m] \in Seq(Tok)
  <2>1. \A m \in (b + 1)..Len(t) : m \in 1..Len(t)
    BY <1>1, TreeIs
  <2> QED
    BY <1>2, <2>1
<1>9. /\ FirstPart(t, w, b) \in Seq(Tok)
      /\ ElseOf(t, b) \o AsText(t[b].child_nodes_else, w) \in Seq(Tok)
  BY <1>1, <1>8, PartsTyped
<1>10. PICK p \in Seq(Tok), q \in Seq(Tok) :
         p = FirstPart(t, w, b) /\ q = ElseOf(t, b) \o AsText(t[b].child_nodes_else, w)
  BY <1>9
<1>11. w[b] = p \o (q \o <<>>) /\ v[b] = p \o (q \o x)
  BY <1>2, <1>3, <1>4, <1>6, <1>10 DEF TextIn, SecondPart
<1>12. q \o <<>> = q
  BY ConcatEmptySeq
<1>13. x \in Seq(Tok)
  BY <1>6, <1>7
<1>14. (p \o q) \o x = p \o (q \o x)
  BY <1>13, Assoc
<1> QED
  BY <1>5, <1>11, <1>12, <1>14, Zenon DEF Longer

-----------------------------------------------------------------------------
(* What a token does to the tree, and to its text. *)
TextGrows(t, open, u, open2, x) ==
  \A w, v : TheText(w, t, open) /\ TheText(v, u, open2) => Longer(v[1], w[1], x)

LEMMA InsertGrows ==
  ASSUME NEW t, IsTree(t), NEW open, NEW b, Spine(t, open, b),
         NEW token \in Template, NEW u, Inserted(t, u, b, token), IsTree(u),
         NEW open2, open2 = open \/ open2 = open \cup {Len(t) + 1},
         token.kind \notin {"if", "for"} \/ Len(t) + 1 \in open2
  PROVE  TextGrows(t, open, u, open2, <<token>>)
<1> SUFFICES ASSUME NEW w, NEW v, TheText(w, t, open), TheText(v, u, open2)
             PROVE  Longer(v[1], w[1], <<token>>)
  BY DEF TextGrows
<1>1. /\ b \in open /\ Len(t) \in Nat /\ Len(u) = Len(t) + 1
      /\ \A n \in 1..Len(t) : n # b => u[n] = t[n]
  BY SpineIs DEF Inserted
<1>2. b \in open2 /\ Len(t) <= Len(u)
      /\ Elsewhere(t, open, u, open2, b)
  <2>1. \A n \in 1..Len(t) : n # Len(t) + 1
    BY <1>1
  <2> QED
    BY <1>1, <2>1 DEF Elsewhere
<1>3. PICK x \in Seq(Tok) : x = <<token>>
  <2>1. token \in Tok
    BY DEF Tok
  <2>2. \A y \in Tok : <<y>> \in Seq(Tok)
    OBVIOUS
  <2> QED
    BY <2>1, <2>2
<1>4. (\A c \in (b + 1)..Len(t) : v[c] = w[c]) => Longer(v[b], w[b], <<token>>)
  BY <1>2, InsertText
<1>5. Here(t, w, v, b, x)
  BY <1>3, <1>4 DEF Here
<1>6. Longer(v[1], w[1], x)
  BY <1>1, <1>2, <1>5, SpineGrows
<1> QED
  BY <1>3, <1>6

LEMMA ElseGrows ==
  ASSUME NEW t, IsTree(t), NEW open, NEW b, Spine(t, open, b), ~t[b].in_else,
         NEW u, Elsed(t, u, b), IsTree(u)
  PROVE  TextGrows(t, open, u, open, <<Token("else")>>)
<1> SUFFICES ASSUME NEW w, NEW v, TheText(w, t, open), TheText(v, u, open)
             PROVE  Longer(v[1], w[1], <<Token("else")>>)
  BY DEF TextGrows
<1>1. /\ Len(t) \in Nat /\ Len(u) = Len(t)
      /\ \A n \in 1..Len(t) : n # b => u[n] = t[n]
  BY SpineIs DEF Elsed
<1>2. Len(t) <= Len(u) /\ Elsewhere(t, open, u, open, b)
  BY <1>1 DEF Elsewhere
<1>3. PICK x \in Seq(Tok) : x = <<Token("else")>>
  <2>1. Token("else") \in Tok
    BY DEF Tok
  <2>2. \A y \in Tok : <<y>> \in Seq(Tok)
    OBVIOUS
  <2> QED
    BY <2>1, <2>2
<1>4. (\A c \in (b + 1)..Len(t) : v[c] = w[c]) => Longer(v[b], w[b], <<Token("else")>>)
  BY ElseText
<1>5. Here(t, w, v, b, x)
  BY <1>3, <1>4 DEF Here
<1>6. Longer(v[1], w[1], x)
  BY <1>1, <1>2, <1>5, SpineGrows
<1> QED
  BY <1>3, <1>6

LEMMA EndGrows ==
  ASSUME NEW t, IsTree(t), NEW open, NEW b, Spine(t, open, b), t[b].token.kind \in {"if", "for"}
  PROVE  TextGrows(t, open, t, open \ {b},
                   <<Token(IF t[b].token.kind = "if" THEN "endif" ELSE "endfor")>>)
<1> DEFINE y == <<Token(IF t[b].token.kind = "if" THEN "endif" ELSE "endfor")>>
<1> SUFFICES ASSUME NEW w, NEW v, TheText(w, t, open), TheText(v, t, open \ {b})
             PROVE  Longer(v[1], w[1], y)
  BY DEF TextGrows
<1>1. Len(t) \in Nat /\ Len(t) <= Len(t)
  BY SpineIs
<1>2. PICK open2 : open2 = open \ {b}
  OBVIOUS
<1>3. Elsewhere(t, open, t, open2, b)
  BY <1>2 DEF Elsewhere
<1>4. PICK x \in Seq(Tok) : x = y
  <2>1. Token("endif") \in Tok /\ Token("endfor") \in Tok
    BY DEF Tok
  <2>2. \A z \in Tok : <<z>> \in Seq(Tok)
    OBVIOUS
  <2> QED
    BY <2>1, <2>2
<1>5. (\A c \in (b + 1)..Len(t) : v[c] = w[c]) => Longer(v[b], w[b], y)
  BY EndText
<1> HIDE DEF y
<1>6. Here(t, w, v, b, x)
  BY <1>4, <1>5 DEF Here
<1>7. TheText(v, t, open2)
  BY <1>2
<1>8. Longer(v[1], w[1], x)
  BY <1>1, <1>3, <1>6, <1>7, SpineGrows
<1> QED
  BY <1>4, <1>8

(* The tree and what is open of it, when block b is parsed. *)
Parsing(t, b) == IsTree(t) /\ b \in 1..Len(t) /\ Spine(t, OpenOf(t, b), b)

TokenIn(t, b, u, token) ==
  /\ Len(t) \in Nat /\ Len(t) >= 1
  /\ u[1].token = t[1].token /\ u[b].in_else = t[b].in_else
  /\ u[Len(t) + 1].in_else = FALSE
  /\ token.kind \notin {"if", "for"} =>
       /\ Parsing(u, b)
       /\ TextGrows(t, OpenOf(t, b), u, OpenOf(u, b), <<token>>)
  /\ token.kind \in {"if", "for"} =>
       /\ Parsing(u, Len(t) + 1)
       /\ TextGrows(t, OpenOf(t, b), u, OpenOf(u, Len(t) + 1), <<token>>)

LEMMA TokenInserted ==
  ASSUME NEW t, NEW b, Parsing(t, b), NEW token \in Template, NEW u, InsertTail(t, u, b, token)
  PROVE  TokenIn(t, b, u, token)
<1>1. IsTree(t) /\ b \in 1..Len(t) /\ Spine(t, OpenOf(t, b), b)
  BY DEF Parsing
<1>2. Inserted(t, u, b, token)
  BY <1>1, InsertIs
<1>3. /\ Len(t) \in Nat /\ Len(t) >= 1 /\ Len(u) = Len(t) + 1
      /\ \A n \in 1..Len(t) : u[n].parent = t[n].parent /\ u[n].token = t[n].token
      /\ u[b].in_else = t[b].in_else
      /\ u[Len(t) + 1] = Node(token, b)
  BY <1>1, <1>2, TreeIs DEF Inserted
<1>4. u[Len(t) + 1].parent = b /\ u[Len(t) + 1].in_else = FALSE
  BY <1>3 DEF Node
<1>5. ~t[b].in_else => t[b].child_nodes_else = <<>>
  <2> DEFINE o == OpenOf(t, b)
  <2>1. Spine(t, o, b)
    BY <1>1
  <2> HIDE DEF o
  <2>2. b \in o
    BY <2>1 DEF Spine
  <2> QED
    BY <2>1, <2>2 DEF Spine
<1>6. IsTree(u)
  BY <1>1, <1>2, <1>5, InsertTree
<1>7. Spine(u, OpenOf(t, b), b) /\ Spine(u, OpenOf(t, b) \cup {Len(t) + 1}, Len(t) + 1)
  BY <1>1, <1>2, InsertSpine
<1>8. OpenOf(u, b) = OpenOf(t, b) /\ OpenOf(u, Len(t) + 1) = OpenOf(t, b) \cup {Len(t) + 1}
  <2>1. Len(t) <= Len(u)
    BY <1>3
  <2>2. OpenOf(u, b) = OpenOf(t, b)
    BY <1>1, <1>3, <1>6, <2>1, OpenKeeps
  <2>3. OpenOf(u, Len(t) + 1) = OpenOf(t, b) \cup {Len(t) + 1}
    BY <1>1, <1>3, <1>4, <1>6, OpenGrows
  <2> QED
    BY <2>2, <2>3
<1>9. ASSUME token.kind \notin {"if", "for"}
      PROVE  /\ Parsing(u, b)
             /\ TextGrows(t, OpenOf(t, b), u, OpenOf(u, b), <<token>>)
  <2>1. TextGrows(t, OpenOf(t, b), u, OpenOf(t, b), <<token>>)
    BY <1>1, <1>2, <1>6, <1>9, InsertGrows
  <2>2. b \in 1..Len(u)
    BY <1>1, <1>3
  <2> QED
    BY <1>6, <1>7, <1>8, <2>1, <2>2 DEF Parsing
<1>10. ASSUME token.kind \in {"if", "for"}
       PROVE  /\ Parsing(u, Len(t) + 1)
              /\ TextGrows(t, OpenOf(t, b), u, OpenOf(u, Len(t) + 1), <<token>>)
  <2>1. PICK open2 : open2 = OpenOf(t, b) \cup {Len(t) + 1}
    OBVIOUS
  <2>2. Len(t) + 1 \in open2
    BY <2>1
  <2>3. TextGrows(t, OpenOf(t, b), u, open2, <<token>>)
    BY <1>1, <1>2, <1>6, <2>1, <2>2, InsertGrows
  <2>4. Len(t) + 1 \in 1..Len(u)
    BY <1>3
  <2> QED
    BY <1>6, <1>7, <1>8, <2>1, <2>3, <2>4 DEF Parsing
<1>11. u[1].token = t[1].token
  <2>1. 1 \in 1..Len(t)
    BY <1>3
  <2> QED
    BY <1>3, <2>1
<1> QED
  BY <1>3, <1>4, <1>9, <1>10, <1>11 DEF TokenIn

LEMMA ElseBegun ==
  ASSUME NEW t, NEW b, Parsing(t, b), t[b].token.kind = "if", ~t[b].in_else,
         NEW u, u = [t EXCEPT ![b].in_else = TRUE]
  PROVE  /\ Parsing(u, b) /\ u[1].token = t[1].token /\ u[b].in_else = TRUE
         /\ TextGrows(t, OpenOf(t, b), u, OpenOf(u, b), <<Token("else")>>)
<1>1. IsTree(t) /\ b \in 1..Len(t) /\ Spine(t, OpenOf(t, b), b)
  BY DEF Parsing
<1>2. Elsed(t, u, b)
  BY <1>1, ElseIs
<1>3. /\ Len(t) \in Nat /\ Len(t) >= 1 /\ Len(u) = Len(t) /\ Len(t) <= Len(u)
      /\ \A n \in 1..Len(t) : u[n].parent = t[n].parent /\ u[n].token = t[n].token
      /\ u[b].in_else = TRUE
  BY <1>1, <1>2, TreeIs DEF Elsed
<1>4. IsTree(u)
  BY <1>1, <1>2, ElseTree
<1>5. OpenOf(u, b) = OpenOf(t, b)
  BY <1>1, <1>3, <1>4, OpenKeeps
<1>6. Spine(u, OpenOf(t, b), b)
  BY <1>1, <1>2, ElseSpine
<1>7. TextGrows(t, OpenOf(t, b), u, OpenOf(t, b), <<Token("else")>>)
  BY <1>1, <1>2, <1>4, ElseGrows
<1>8. 1 \in 1..Len(t)
  BY <1>3
<1> QED
  BY <1>1, <1>3, <1>4, <1>5, <1>6, <1>7, <1>8 DEF Parsing

LEMMA BlockEnded ==
  ASSUME NEW t, NEW b, Parsing(t, b), b # 1, t[b].token.kind \in {"if", "for"}
  PROVE  /\ Parsing(t, t[b].parent)
         /\ TextGrows(t, OpenOf(t, b), t, OpenOf(t, t[b].parent),
                      <<Token(IF t[b].token.kind = "if" THEN "endif" ELSE "endfor")>>)
<1>1. IsTree(t) /\ b \in 1..Len(t) /\ Spine(t, OpenOf(t, b), b)
  BY DEF Parsing
<1>2. PICK p : p = t[b].parent
  OBVIOUS
<1>3. p \in 1..Len(t)
  BY <1>1, <1>2, TreeIs
<1>4. OpenOf(t, p) = OpenOf(t, b) \ {b}
  BY <1>1, <1>2, OpenShrinks
<1>5. OpenOf(t, b) \ {b} \subseteq 1..t[b].parent
  BY <1>1, <1>2, <1>3, <1>4, OpenUp
<1>6. Spine(t, OpenOf(t, b) \ {b}, t[b].parent)
  BY <1>1, <1>5, EndSpine
<1>7. TextGrows(t, OpenOf(t, b), t, OpenOf(t, b) \ {b},
                <<Token(IF t[b].token.kind = "if" THEN "endif" ELSE "endfor")>>)
  BY <1>1, EndGrows
<1> QED
  BY <1>1, <1>2, <1>3, <1>4, <1>6, <1>7 DEF Parsing

-----------------------------------------------------------------------------
(* TreeIsTemplate is not inductive: the next node has to come after all of *)
(* the tree, so what is open has to be its right edge.                     *)
ParseInv ==
  /\ Parsing(nodes, parent) /\ nodes[1].token = Token("root")
  /\ activep = <<parent, nodes[parent].in_else>>
  /\ parsed \in Seq(Tok)
  /\ TreeIsTemplate

LEMMA ParseInit == ASSUME TemplateInit PROVE ParseInv
<1>1. /\ nodes = <<Node(Token("root"), 0)>> /\ parent = 1 /\ activep = <<1, FALSE>> /\ parsed = <<>>
  BY DEF TemplateInit
<1>2. PICK r : r = Node(Token("root"), 0)
  OBVIOUS
<1>3. r \in NodeRecord
  BY <1>2 DEF Node, NodeRecord, Tok
<1>4. /\ r.token = Token("root") /\ r.in_else = FALSE /\ r.child_nodes = <<>>
      /\ r.child_nodes_else = <<>>
  BY <1>2 DEF Node
<1>5. nodes = <<r>>
  BY <1>1, <1>2
<1>6. nodes \in Seq(NodeRecord) /\ Len(nodes) = 1 /\ nodes[1] = r /\ DOMAIN nodes = 1..1
  <2>1. \A x \in NodeRecord : <<x>> \in Seq(NodeRecord) /\ Len(<<x>>) = 1 /\ <<x>>[1] = x
                              /\ DOMAIN <<x>> = 1..1
    OBVIOUS
  <2> QED
    BY <1>3, <1>5, <2>1
<1>7. \A n \in 1..1 : n = 1
  OBVIOUS
<1>8. IsTree(nodes)
  <2>1. \A i : i \notin 1..Len(<<>>)
    OBVIOUS
  <2>2. <<>> \in Seq(Nat)
    OBVIOUS
  <2>3. \A n : ListBelow(nodes, n, <<>>)
    BY <2>1, <2>2 DEF ListBelow
  <2> QED
    BY <1>4, <1>6, <1>7, <2>1, <2>3 DEF IsTree
<1>9. 1 \in 1..Len(nodes)
  BY <1>6
<1>10. OpenOf(nodes, 1) \subseteq 1..1 /\ 1 \in OpenOf(nodes, 1)
  BY <1>8, <1>9, OpenUp
<1>11. Spine(nodes, OpenOf(nodes, 1), 1)
  <2> DEFINE o == OpenOf(nodes, 1)
  <2>1. o \subseteq 1..1 /\ 1 \in o /\ \A n \in o : n = 1
    BY <1>7, <1>10
  <2> HIDE DEF o
  <2>2. Spine(nodes, o, 1)
    BY <1>4, <1>6, <2>1 DEF Spine
  <2> QED
    BY <2>2 DEF o
<1>12. Parsing(nodes, parent)
  BY <1>1, <1>8, <1>9, <1>11 DEF Parsing
<1>13. Rewritten[1] = <<>>
  <2>1. TheText(Rewritten, nodes, Open) /\ Open = OpenOf(nodes, 1)
    BY <1>1, RewrittenIs, OpenIs
  <2>2. PICK w : w = Rewritten
    OBVIOUS
  <2>3. TheText(w, nodes, Open)
    BY <2>1, <2>2
  <2>4. w[1] = TextIn(nodes, Open, w, 1)
    BY <1>8, <1>9, <2>3, TextIs
  <2>5. AsText(<<>>, w) = <<>>
    BY AsTextNone
  <2>6. /\ TagOf(nodes, 1) = <<>> /\ ElseOf(nodes, 1) = <<>>
        /\ EndOf(nodes, Open, 1) = <<>>
    BY <1>4, <1>6 DEF TagOf, ElseOf, EndOf, Token
  <2>7. TextIn(nodes, Open, w, 1) = (<<>> \o <<>>) \o ((<<>> \o <<>>) \o <<>>)
    BY <1>4, <1>6, <2>5, <2>6 DEF TextIn, FirstPart, SecondPart
  <2>8. (<<>> \o <<>>) \o ((<<>> \o <<>>) \o <<>>) = <<>>
    OBVIOUS
  <2> QED
    BY <2>2, <2>4, <2>7, <2>8
<1>14. <<>> \in Seq(Tok)
  OBVIOUS
<1> QED
  BY <1>1, <1>4, <1>6, <1>12, <1>13, <1>14 DEF ParseInv, TreeIsTemplate

LEMMA ParseKept == ASSUME ParseInv, UNCHANGED parse_vars PROVE ParseInv'
<1>1. nodes' = nodes /\ parent' = parent /\ activep' = activep /\ parsed' = parsed
  BY DEF parse_vars
<1>2. Open' = Open
  BY <1>1, OpenIs
<1>3. PICK w, v : w = Rewritten /\ v = Rewritten'
  OBVIOUS
<1>4. TheText(w, nodes, Open) /\ TheText(v, nodes, Open)
  BY <1>1, <1>2, <1>3, RewrittenIs
<1>5. v = w
  BY <1>4 DEF TheText
<1> QED
  BY <1>1, <1>3, <1>5 DEF ParseInv, TreeIsTemplate

(* A token more is a token more of the text. *)
LEMMA TokenParsed ==
  ASSUME ParseInv, NEW token \in Tok,
         Parsing(nodes', parent'), nodes'[1].token = nodes[1].token,
         activep' = <<parent', nodes'[parent'].in_else>>,
         TextGrows(nodes, OpenOf(nodes, parent), nodes', OpenOf(nodes', parent'), <<token>>),
         parsed' = Append(parsed, token)
  PROVE  ParseInv'
<1>1. parsed' \in Seq(Tok) /\ parsed' = parsed \o <<token>>
  BY AppendProperties, AppendIsConcat DEF ParseInv
<1>2. PICK w, v : w = Rewritten /\ v = Rewritten'
  OBVIOUS
<1>3. TheText(w, nodes, OpenOf(nodes, parent)) /\ TheText(v, nodes', OpenOf(nodes', parent'))
  BY <1>2, RewrittenIs, OpenIs
<1>4. Longer(v[1], w[1], <<token>>)
  BY <1>3 DEF TextGrows
<1>5. v[1] = parsed'
  BY <1>1, <1>2, <1>4 DEF Longer, ParseInv, TreeIsTemplate
<1> QED
  BY <1>1, <1>2, <1>5 DEF ParseInv, TreeIsTemplate

LEMMA TokenIs ==
  ASSUME NEW token \in Template
  PROVE  /\ token.kind \in NodeType
         /\ token.kind \in {"else", "endif", "endfor"} => token = Token(token.kind)
         /\ token.kind = "for" => token.var \in LoopVar
         /\ Len(token.ref) = 1 => token.ref[1] \notin LoopVar
BY TemplateAssumption

LEMMA TokenRead ==
  ASSUME ParseInv, NEW token \in Template, mtemplate_parse(token)
  PROVE  ParseInv'
<1>1. CASE Refused(token)
  BY <1>1, ParseKept DEF mtemplate_parse
<1>2. CASE ~Refused(token) /\ token.kind = "comment"
  <2>1. UNCHANGED <<nodes, activep, parent>>
    BY <1>2 DEF mtemplate_parse, parse_directive
  <2>2. parsed' = parsed
    BY <1>2 DEF mtemplate_parse
  <2> QED
    BY <2>1, <2>2, ParseKept DEF parse_vars
<1>3. CASE ~Refused(token) /\ token.kind # "comment"
  <2>1. parse_directive(token) /\ parsed' = Append(parsed, token)
    BY <1>3 DEF mtemplate_parse
  <2>2. /\ Parsing(nodes, parent) /\ nodes[1].token = Token("root")
        /\ activep = <<parent, nodes[parent].in_else>>
    BY DEF ParseInv
  <2>3. token \in Tok
    BY DEF Tok
  <2>4. token.kind \in {"else", "endif", "endfor"} => token = Token(token.kind)
    BY TokenIs
  <2>5. CASE token.kind = "else"
    <3>1. nodes' = [nodes EXCEPT ![parent].in_else = TRUE] /\ activep' = <<parent, TRUE>>
          /\ parent' = parent
      BY <2>1, <2>5 DEF parse_directive
    <3>2. nodes[parent].token.kind = "if" /\ ~nodes[parent].in_else
      BY <1>3, <2>5 DEF Refused, Expected, kind_of
    <3>3. /\ Parsing(nodes', parent) /\ nodes'[1].token = nodes[1].token
          /\ nodes'[parent].in_else = TRUE
          /\ TextGrows(nodes, OpenOf(nodes, parent), nodes', OpenOf(nodes', parent), <<Token("else")>>)
      BY <2>2, <3>1, <3>2, ElseBegun
    <3>4. token = Token("else")
      BY <2>4, <2>5
    <3> QED
      BY <2>1, <2>3, <3>1, <3>3, <3>4, TokenParsed
  <2>6. CASE token.kind \in {"endif", "endfor"}
    <3>1. /\ activep' = <<nodes[parent].parent,
                          kind_of(nodes[parent].parent) = "if" /\ nodes[nodes[parent].parent].in_else>>
          /\ parent' = nodes[parent].parent /\ nodes' = nodes
      BY <2>1, <2>6 DEF parse_directive, ascend
    <3>2. /\ nodes[parent].token.kind \in {"if", "for"}
          /\ token.kind = IF nodes[parent].token.kind = "if" THEN "endif" ELSE "endfor"
      BY <1>3, <2>6 DEF Refused, Expected, kind_of
    <3>3. parent # 1
      BY <2>2, <3>2 DEF Token
    <3>4. /\ Parsing(nodes, nodes[parent].parent)
          /\ TextGrows(nodes, OpenOf(nodes, parent), nodes, OpenOf(nodes, nodes[parent].parent),
               <<Token(IF nodes[parent].token.kind = "if" THEN "endif" ELSE "endfor")>>)
      BY <2>2, <3>2, <3>3, BlockEnded
    <3>5. token = Token(IF nodes[parent].token.kind = "if" THEN "endif" ELSE "endfor")
      BY <2>4, <2>6, <3>2
    <3>6. PICK p : p = nodes[parent].parent
      OBVIOUS
    <3>7. nodes[p].in_else = (nodes[p].token.kind = "if" /\ nodes[p].in_else)
      <4>1. IsTree(nodes) /\ p \in 1..Len(nodes) /\ Spine(nodes, OpenOf(nodes, p), p)
        BY <3>4, <3>6 DEF Parsing
      <4>2. nodes[p].in_else \in BOOLEAN
        BY <4>1, NodeIs
      <4>3. nodes[p].in_else => nodes[p].token.kind = "if"
        <5> DEFINE o == OpenOf(nodes, p)
        <5>1. Spine(nodes, o, p)
          BY <4>1
        <5> HIDE DEF o
        <5>2. p \in o
          BY <5>1 DEF Spine
        <5> QED
          BY <5>1, <5>2 DEF Spine
      <4> QED
        BY <4>2, <4>3
    <3>8. activep' = <<parent', nodes'[parent'].in_else>>
      BY <3>1, <3>6, <3>7 DEF kind_of
    <3> QED
      BY <2>1, <2>3, <3>1, <3>4, <3>5, <3>8, TokenParsed
  <2>7. CASE token.kind \notin {"else", "endif", "endfor"}
    <3>1. insert_tail(token)
      BY <1>3, <2>1, <2>7 DEF parse_directive
    <3>2. InsertTail(nodes, nodes', parent, token)
      BY <2>2, <3>1 DEF insert_tail, InsertTail
    <3>2a. TokenIn(nodes, parent, nodes', token)
      BY <2>2, <3>2, TokenInserted
    <3>3. /\ nodes'[1].token = nodes[1].token /\ nodes'[parent].in_else = nodes[parent].in_else
          /\ nodes'[Len(nodes) + 1].in_else = FALSE
          /\ token.kind \notin {"if", "for"} =>
               /\ Parsing(nodes', parent)
               /\ TextGrows(nodes, OpenOf(nodes, parent), nodes', OpenOf(nodes', parent), <<token>>)
          /\ token.kind \in {"if", "for"} =>
               /\ Parsing(nodes', Len(nodes) + 1)
               /\ TextGrows(nodes, OpenOf(nodes, parent), nodes', OpenOf(nodes', Len(nodes) + 1), <<token>>)
      BY <3>2a DEF TokenIn
    <3>4. CASE token.kind \in {"if", "for"}
      <4>1. activep' = <<Len(nodes) + 1, FALSE>> /\ parent' = Len(nodes) + 1
        BY <2>1, <3>4 DEF parse_directive
      <4> QED
        BY <2>1, <2>3, <3>3, <3>4, <4>1, TokenParsed
    <3>5. CASE token.kind \notin {"if", "for"}
      <4>1. activep' = activep /\ parent' = parent
        BY <1>3, <2>1, <2>7, <3>5 DEF parse_directive
      <4> QED
        BY <2>1, <2>2, <2>3, <3>3, <3>5, <4>1, TokenParsed
    <3> QED
      BY <3>4, <3>5
  <2> QED
    BY <2>5, <2>6, <2>7
<1> QED
  BY <1>1, <1>2, <1>3

-----------------------------------------------------------------------------
(* What is written: the texts, and the objects as text.                    *)
Output == {"text"} \cup {render_mobject(o) : o \in Bindable}

LEMMA HeadAndTail ==
  ASSUME NEW D, NEW list \in Seq(D), list # <<>>
  PROVE  \E k \in Nat : /\ Len(list) = k + 1 /\ DOMAIN list = 1..(k + 1)
                        /\ Head(list) = list[1] /\ list[1] \in D
                        /\ Tail(list) \in Seq(D) /\ Len(Tail(list)) = k /\ DOMAIN Tail(list) = 1..k
                        /\ \A i \in 1..k : Tail(list)[i] = list[i + 1]
<1>1. Len(list) \in Nat /\ Len(list) # 0
  BY LenProperties, EmptySeq
<1>2. PICK k \in Nat : Len(list) = k + 1
  <2>1. Len(list) - 1 \in Nat /\ Len(list) = (Len(list) - 1) + 1
    BY <1>1
  <2> QED
    BY <2>1
<1>3. DOMAIN list = 1..(k + 1)
  BY <1>2, LenProperties
<1>4. Head(list) = list[1] /\ list[1] \in D
  <2>1. 1 \in 1..Len(list)
    BY <1>2
  <2> QED
    BY <2>1, ElementOfSeq
<1>5. /\ Tail(list) \in Seq(D) /\ Len(Tail(list)) = Len(list) - 1
      /\ \A i \in 1..Len(Tail(list)) : Tail(list)[i] = list[i + 1]
  BY HeadTailProperties
<1>6. Len(Tail(list)) = k /\ DOMAIN Tail(list) = 1..k
  BY <1>2, <1>5, LenProperties
<1> QED
  BY <1>2, <1>3, <1>4, <1>5, <1>6

(* A sequence of sequences from its end: the first, and the rest.          *)
Shifted(s, r, k) == r = [i \in 1..k |-> s[i + 1]]

LEMMA FlatShift ==
  ASSUME NEW T, NEW k \in Nat, NEW s \in [1..(k + 1) -> Seq(T)], NEW r, Shifted(s, r, k)
  PROVE  FlattenSeq(s) = s[1] \o FlattenSeq(r)
<1>1. s \in Seq(Seq(T)) /\ Len(s) = k + 1
  <2>1. k + 1 \in Nat
    OBVIOUS
  <2>2. \A n \in Nat : \A f \in [1..n -> Seq(T)] : f \in Seq(Seq(T)) /\ Len(f) = n
    OBVIOUS
  <2> QED
    BY <2>1, <2>2
<1>2. s # <<>> /\ Head(s) = s[1]
  <2>1. Len(s) # 0
    BY <1>1
  <2> QED
    BY <1>1, <2>1, EmptySeq
<1>3. Tail(s) = r
  <2>1. PICK m \in Nat : /\ Len(s) = m + 1
                         /\ Tail(s) \in Seq(Seq(T)) /\ Len(Tail(s)) = m
                         /\ \A i \in 1..m : Tail(s)[i] = s[i + 1]
    BY <1>1, <1>2, HeadAndTail
  <2>2. m = k
    BY <1>1, <2>1
  <2>3. PICK q : q = Tail(s)
    OBVIOUS
  <2>4. q \in [1..k -> Seq(T)]
    BY <2>1, <2>2, <2>3, LenProperties
  <2>5. \A i \in 1..k : q[i] = s[i + 1]
    BY <2>1, <2>2, <2>3
  <2>6. q = r
    BY <2>4, <2>5 DEF Shifted
  <2> QED
    BY <2>3, <2>6
<1> QED
  BY <1>1, <1>2, <1>3, FlatHead

(* What a list writes. *)
LEMMA InTurnTyped ==
  ASSUME NEW T, NEW D, NEW list \in Seq(D), NEW w, NEW local,
         \A i \in 1..Len(list) : w[list[i]][local] \in Seq(T)
  PROVE  InTurn(list, w, local) \in Seq(T)
<1>1. PICK n \in Nat : n = Len(list) /\ DOMAIN list = 1..n
  BY LenProperties
<1> DEFINE s == [i \in 1..n |-> w[list[i]][local]]
<1>2. s \in [1..n -> Seq(T)]
  BY <1>1
<1>3. s \in Seq(Seq(T))
  <2> HIDE DEF s
  <2>1. DOMAIN s = 1..n
    BY <1>2
  <2> QED
    BY <1>2, <2>1
<1>4. InTurn(list, w, local) = FlattenSeq(s)
  BY <1>1 DEF InTurn
<1> HIDE DEF s
<1> QED
  BY <1>3, <1>4, FlatTyped

LEMMA InTurnNone == ASSUME NEW w, NEW local PROVE InTurn(<<>>, w, local) = <<>>
<1>1. [i \in DOMAIN <<>> |-> w[<<>>[i]][local]] = <<>>
  OBVIOUS
<1> QED
  BY <1>1, FlatNone DEF InTurn

LEMMA InTurnSame ==
  ASSUME NEW D, NEW list \in Seq(D), NEW w, NEW u, NEW local,
         \A i \in 1..Len(list) : u[list[i]] = w[list[i]]
  PROVE  InTurn(list, u, local) = InTurn(list, w, local)
<1>1. DOMAIN list = 1..Len(list)
  BY LenProperties
<1>2. [i \in DOMAIN list |-> u[list[i]][local]] = [i \in DOMAIN list |-> w[list[i]][local]]
  BY <1>1
<1> QED
  BY <1>2 DEF InTurn

LEMMA InTurnHead ==
  ASSUME NEW T, NEW D, NEW list \in Seq(D), list # <<>>, NEW w, NEW local,
         \A i \in 1..Len(list) : w[list[i]][local] \in Seq(T)
  PROVE  InTurn(list, w, local) = w[Head(list)][local] \o InTurn(Tail(list), w, local)
<1>1. PICK k \in Nat : /\ Len(list) = k + 1 /\ DOMAIN list = 1..(k + 1)
                       /\ Head(list) = list[1] /\ list[1] \in D
                       /\ Tail(list) \in Seq(D) /\ Len(Tail(list)) = k /\ DOMAIN Tail(list) = 1..k
                       /\ \A i \in 1..k : Tail(list)[i] = list[i + 1]
  BY HeadAndTail
<1>2. PICK s, r : /\ s = [i \in 1..(k + 1) |-> w[list[i]][local]]
                  /\ r = [i \in 1..k |-> w[Tail(list)[i]][local]]
  OBVIOUS
<1>3. s \in [1..(k + 1) -> Seq(T)]
  BY <1>1, <1>2
<1>4. Shifted(s, r, k)
  <2>1. \A i \in 1..k : i + 1 \in 1..(k + 1)
    OBVIOUS
  <2> QED
    BY <1>1, <1>2, <2>1 DEF Shifted
<1>5. FlattenSeq(s) = s[1] \o FlattenSeq(r)
  BY <1>3, <1>4, FlatShift
<1>6. s[1] = w[Head(list)][local]
  <2>1. 1 \in 1..(k + 1)
    OBVIOUS
  <2> QED
    BY <1>1, <1>2, <2>1
<1>7. InTurn(list, w, local) = FlattenSeq(s) /\ InTurn(Tail(list), w, local) = FlattenSeq(r)
  BY <1>1, <1>2 DEF InTurn
<1> QED
  BY <1>5, <1>6, <1>7, Zenon

-----------------------------------------------------------------------------
(* The local namespaces, and the objects that are found.                   *)
LEMMA BoundIs ==
  ASSUME NEW local \in Locals, NEW name \in LoopVar, NEW k \in Bindable, NEW v \in Bindable
  PROVE  /\ Bound(local, name, k, v) \in Locals
         /\ \A k2, v2 : Bound(Bound(local, name, k2, v2), name, k, v) = Bound(local, name, k, v)
<1> QED
  BY DEF Bound, Locals

LEMMA KeyIs == ASSUME NEW k \in Nat PROVE IntKey(k) \in Bindable
<1> QED
  BY DEF IntKey, Bindable

LEMMA NoLocalsIs == NoLocals \in Locals /\ NoObject \in Bindable
<1> QED
  BY DEF NoLocals, Locals, Bindable

LEMMA FetchIs ==
  ASSUME NEW local \in Locals, NEW ref
  PROVE  /\ fetch_var(local, ref) \in Bindable
         /\ fetch_var(local, ref).type = "MARRAY" => fetch_var(local, ref).items \in Seq(Object)
<1>1. \A v \in LoopVar : local[v].key \in Bindable /\ local[v].value \in Bindable
  BY DEF Locals
<1>2. LookupLocal(local, ref) \in Bindable
  BY <1>1, NoLocalsIs DEF LookupLocal
<1>3. \A name \in DOMAIN Namespace : Namespace[name] \in Bindable
  BY TemplateAssumption DEF Bindable
<1>4. fetch_var(local, ref) \in Bindable
  BY <1>2, <1>3, NoLocalsIs DEF fetch_var
<1>5. \A o \in Bindable : o.type = "MARRAY" => o.items \in Seq(Object)
  BY TemplateAssumption DEF Bindable, NoObject
<1> QED
  BY <1>4, <1>5

-----------------------------------------------------------------------------
(* The turns of a loop. *)
LEMMA TurnsNone ==
  ASSUME NEW n, NEW w, NEW local, NEW key
  PROVE  TurnsOf(n, w, local, <<>>, key) = <<>>
<1> DEFINE s == [i \in DOMAIN <<>> |->
                   InTurn(nodes[n].child_nodes, w,
                          Bound(local, nodes[n].token.var, IntKey(key + i - 1), <<>>[i]))]
<1>1. s = <<>>
  OBVIOUS
<1>2. TurnsOf(n, w, local, <<>>, key) = FlattenSeq(s)
  BY DEF TurnsOf
<1> HIDE DEF s
<1> QED
  BY <1>1, <1>2, FlatNone

(* A turn of a loop, if what is below writes words. *)
Turn(n, w, local, key, obj) ==
  InTurn(nodes[n].child_nodes, w, Bound(local, nodes[n].token.var, IntKey(key), obj))

TurnsTyped(n, w, local) ==
  \A key \in Nat : \A obj \in Object : Turn(n, w, local, key, obj) \in Seq(Output)

LEMMA TurnsWords ==
  ASSUME NEW n, NEW w, NEW local, TurnsTyped(n, w, local),
         NEW items \in Seq(Object), NEW key \in Nat
  PROVE  TurnsOf(n, w, local, items, key) \in Seq(Output)
<1>1. PICK k \in Nat : k = Len(items) /\ DOMAIN items = 1..k
  BY LenProperties
<1> DEFINE s == [i \in 1..k |-> Turn(n, w, local, key + i - 1, items[i])]
<1>2. s \in [1..k -> Seq(Output)]
  <2>1. \A i \in 1..k : key + i - 1 \in Nat /\ items[i] \in Object
    BY <1>1, ElementOfSeq
  <2> QED
    BY <2>1 DEF TurnsTyped
<1>3. TurnsOf(n, w, local, items, key) = FlattenSeq(s)
  BY <1>1 DEF TurnsOf, Turn
<1> HIDE DEF s
<1>4. s \in Seq(Seq(Output))
  <2>1. DOMAIN s = 1..k
    BY <1>2
  <2> QED
    BY <1>2, <2>1
<1> QED
  BY <1>3, <1>4, FlatTyped

LEMMA TurnsHead ==
  ASSUME NEW n, NEW w, NEW local, TurnsTyped(n, w, local),
         NEW items \in Seq(Object), items # <<>>, NEW key \in Nat
  PROVE  TurnsOf(n, w, local, items, key) =
           Turn(n, w, local, key, Head(items)) \o TurnsOf(n, w, local, Tail(items), key + 1)
<1>1. PICK k \in Nat : /\ Len(items) = k + 1 /\ DOMAIN items = 1..(k + 1)
                       /\ Head(items) = items[1] /\ items[1] \in Object
                       /\ Tail(items) \in Seq(Object) /\ Len(Tail(items)) = k
                       /\ DOMAIN Tail(items) = 1..k
                       /\ \A i \in 1..k : Tail(items)[i] = items[i + 1]
  BY HeadAndTail
<1>2. PICK s, r : /\ s = [i \in 1..(k + 1) |-> Turn(n, w, local, key + i - 1, items[i])]
                  /\ r = [i \in 1..k |-> Turn(n, w, local, (key + 1) + i - 1, Tail(items)[i])]
  OBVIOUS
<1>3. s \in [1..(k + 1) -> Seq(Output)]
  <2>1. \A i \in 1..(k + 1) : key + i - 1 \in Nat /\ items[i] \in Object
    BY <1>1, ElementOfSeq
  <2> QED
    BY <1>2, <2>1 DEF TurnsTyped
<1>4. Shifted(s, r, k)
  <2>1. \A i \in 1..k : i + 1 \in 1..(k + 1) /\ (key + 1) + i - 1 = key + (i + 1) - 1
    OBVIOUS
  <2>2. \A i \in 1..k : r[i] = s[i + 1]
    BY <1>1, <1>2, <2>1
  <2>3. r = [i \in 1..k |-> r[i]]
    BY <1>2
  <2> QED
    BY <2>2, <2>3 DEF Shifted
<1>5. FlattenSeq(s) = s[1] \o FlattenSeq(r)
  BY <1>3, <1>4, FlatShift
<1>6. s[1] = Turn(n, w, local, key, Head(items))
  <2>1. 1 \in 1..(k + 1) /\ key + 1 - 1 = key
    OBVIOUS
  <2> QED
    BY <1>1, <1>2, <2>1
<1>7. TurnsOf(n, w, local, items, key) = FlattenSeq(s)
  BY <1>1, <1>2 DEF TurnsOf, Turn
<1>8. TurnsOf(n, w, local, Tail(items), key + 1) = FlattenSeq(r)
  BY <1>1, <1>2 DEF TurnsOf, Turn
<1> QED
  BY <1>5, <1>6, <1>7, <1>8, Zenon

(* The loop writes the same whatever its variable was. *)
Rebound(b, local, n) == \E k2, v2 : b = Bound(local, nodes[n].token.var, k2, v2)

LEMMA TurnsBound ==
  ASSUME NEW n, NEW w, NEW local \in Locals, nodes[n].token.var \in LoopVar,
         NEW items \in Seq(Object), NEW key \in Nat, NEW b, Rebound(b, local, n)
  PROVE  TurnsOf(n, w, b, items, key) = TurnsOf(n, w, local, items, key)
<1>0. PICK k2, v2 : b = Bound(local, nodes[n].token.var, k2, v2)
  BY DEF Rebound
<1>1. PICK k \in Nat : k = Len(items) /\ DOMAIN items = 1..k
  BY LenProperties
<1>2. ASSUME NEW i \in 1..k
      PROVE  Bound(b, nodes[n].token.var, IntKey(key + i - 1), items[i])
               = Bound(local, nodes[n].token.var, IntKey(key + i - 1), items[i])
  <2>1. key + i - 1 \in Nat /\ items[i] \in Object
    BY <1>1, ElementOfSeq
  <2>2. IntKey(key + i - 1) \in Bindable /\ items[i] \in Bindable
    BY <2>1, KeyIs DEF Bindable
  <2> QED
    BY <1>0, <2>2, BoundIs
<1>3. [i \in DOMAIN items |-> InTurn(nodes[n].child_nodes, w,
         Bound(b, nodes[n].token.var, IntKey(key + i - 1), items[i]))]
      = [i \in DOMAIN items |-> InTurn(nodes[n].child_nodes, w,
         Bound(local, nodes[n].token.var, IntKey(key + i - 1), items[i]))]
  BY <1>1, <1>2
<1> QED
  BY <1>3 DEF TurnsOf

-----------------------------------------------------------------------------
(* What the nodes write is words, and depends on the nodes below only.     *)
Words(w, n) == \A m \in (n + 1)..Len(nodes) : \A l \in Locals : w[m][l] \in Seq(Output)

LEMMA InTurnOf ==
  ASSUME IsTree(nodes), NEW n \in 1..Len(nodes), NEW w, Words(w, n), NEW local \in Locals
  PROVE  /\ InTurn(nodes[n].child_nodes, w, local) \in Seq(Output)
         /\ InTurn(nodes[n].child_nodes_else, w, local) \in Seq(Output)
<1>1. /\ nodes[n].child_nodes \in Seq(Nat) /\ nodes[n].child_nodes_else \in Seq(Nat)
      /\ \A i \in 1..Len(nodes[n].child_nodes) : nodes[n].child_nodes[i] \in (n + 1)..Len(nodes)
      /\ \A i \in 1..Len(nodes[n].child_nodes_else) :
           nodes[n].child_nodes_else[i] \in (n + 1)..Len(nodes)
  BY NodeIs
<1>2. PICK l, k : l = nodes[n].child_nodes /\ k = nodes[n].child_nodes_else
  OBVIOUS
<1>3. /\ l \in Seq(Nat) /\ k \in Seq(Nat)
      /\ \A i \in 1..Len(l) : w[l[i]][local] \in Seq(Output)
      /\ \A i \in 1..Len(k) : w[k[i]][local] \in Seq(Output)
  BY <1>1, <1>2 DEF Words
<1>4. InTurn(l, w, local) \in Seq(Output) /\ InTurn(k, w, local) \in Seq(Output)
  BY <1>3, InTurnTyped
<1> QED
  BY <1>2, <1>4

LEMMA LoopIs ==
  ASSUME IsTree(nodes), NEW n \in 1..Len(nodes), kind_of(n) = "for"
  PROVE  nodes[n].token.var \in LoopVar
<1>1. nodes[n].token \in Tok /\ nodes[n].token.kind = "for"
  BY NodeIs DEF kind_of
<1>2. \A kind \in {"root", "else", "endif", "endfor"} : Token(kind).kind # "for"
  BY DEF Token
<1>3. nodes[n].token \in Template
  BY <1>1, <1>2 DEF Tok
<1> QED
  BY <1>1, <1>3, TokenIs

LEMMA LoopTurns ==
  ASSUME IsTree(nodes), NEW n \in 1..Len(nodes), nodes[n].token.var \in LoopVar,
         NEW w, Words(w, n), NEW local \in Locals
  PROVE  TurnsTyped(n, w, local)
<1> SUFFICES ASSUME NEW key \in Nat, NEW obj \in Object
             PROVE  Turn(n, w, local, key, obj) \in Seq(Output)
  BY DEF TurnsTyped
<1>1. IntKey(key) \in Bindable /\ obj \in Bindable
  BY KeyIs DEF Bindable
<1>2. PICK b \in Locals : b = Bound(local, nodes[n].token.var, IntKey(key), obj)
  BY <1>1, BoundIs
<1>3. InTurn(nodes[n].child_nodes, w, b) \in Seq(Output)
  BY InTurnOf
<1> QED
  BY <1>2, <1>3 DEF Turn

LEMMA WritesWords ==
  ASSUME IsTree(nodes), NEW n \in 1..Len(nodes), NEW w, Words(w, n), NEW local \in Locals
  PROVE  Writes(w, n, local) \in Seq(Output)
<1>1. PICK o : o = fetch_var(local, nodes[n].token.ref)
  OBVIOUS
<1>2. o \in Bindable /\ (o.type = "MARRAY" => o.items \in Seq(Object))
  BY <1>1, FetchIs
<1>3. /\ InTurn(nodes[n].child_nodes, w, local) \in Seq(Output)
      /\ InTurn(nodes[n].child_nodes_else, w, local) \in Seq(Output)
  BY InTurnOf
<1>4. \A x \in Output : <<x>> \in Seq(Output)
  OBVIOUS
<1>5. <<>> \in Seq(Output) /\ <<"text">> \in Seq(Output)
  BY <1>4 DEF Output
<1>6. <<render_mobject(o)>> \in Seq(Output)
  BY <1>2, <1>4 DEF Output
<1>7. ASSUME kind_of(n) = "for", o.type = "MARRAY"
      PROVE  TurnsOf(n, w, local, o.items, 0) \in Seq(Output)
  <2>1. nodes[n].token.var \in LoopVar
    BY <1>7, LoopIs
  <2>2. TurnsTyped(n, w, local)
    BY <2>1, LoopTurns
  <2>3. o.items \in Seq(Object) /\ 0 \in Nat
    BY <1>2, <1>7
  <2> QED
    BY <2>2, <2>3, TurnsWords
<1> QED
  BY <1>1, <1>3, <1>5, <1>6, <1>7 DEF Writes

LEMMA WritesSame ==
  ASSUME IsTree(nodes), NEW n \in 1..Len(nodes), NEW w, NEW u, NEW local,
         \A m \in (n + 1)..Len(nodes) : u[m] = w[m]
  PROVE  Writes(u, n, local) = Writes(w, n, local)
<1>1. /\ nodes[n].child_nodes \in Seq(Nat) /\ nodes[n].child_nodes_else \in Seq(Nat)
      /\ \A i \in 1..Len(nodes[n].child_nodes) :
           u[nodes[n].child_nodes[i]] = w[nodes[n].child_nodes[i]]
      /\ \A i \in 1..Len(nodes[n].child_nodes_else) :
           u[nodes[n].child_nodes_else[i]] = w[nodes[n].child_nodes_else[i]]
  BY NodeIs
<1>1a. PICK p, q : p = nodes[n].child_nodes /\ q = nodes[n].child_nodes_else
  OBVIOUS
<1>1b. /\ p \in Seq(Nat) /\ \A i \in 1..Len(p) : u[p[i]] = w[p[i]]
       /\ q \in Seq(Nat) /\ \A i \in 1..Len(q) : u[q[i]] = w[q[i]]
  BY <1>1, <1>1a
<1>1c. \A l : InTurn(p, u, l) = InTurn(p, w, l) /\ InTurn(q, u, l) = InTurn(q, w, l)
  BY <1>1b, InTurnSame
<1>2. \A l : InTurn(nodes[n].child_nodes, u, l) = InTurn(nodes[n].child_nodes, w, l)
  BY <1>1a, <1>1c
<1>3. \A l : InTurn(nodes[n].child_nodes_else, u, l) = InTurn(nodes[n].child_nodes_else, w, l)
  BY <1>1a, <1>1c
<1>4. \A items, key : TurnsOf(n, u, local, items, key) = TurnsOf(n, w, local, items, key)
  BY <1>2 DEF TurnsOf
<1> QED
  BY <1>2, <1>3, <1>4 DEF Writes

IsMeaning(w) == w = [n \in DOMAIN nodes |-> [local \in Locals |-> Writes(w, n, local)]]

LEMMA MeaningExists ==
  ASSUME IsTree(nodes)
  PROVE  \E w : IsMeaning(w)
<1>1. PICK z \in Nat : z = Len(nodes) /\ DOMAIN nodes = 1..z
  BY TreeIs
<1> DEFINE Below1(w, n) == [local \in Locals |-> Writes(w, n, local)]
           Good(k) == \E g : DOMAIN g = 1..z /\ \A n \in 1..z : z - n < k => g[n] = Below1(g, n)
           Bad == {k \in Nat : ~Good(k)}
<1>2. ASSUME NEW n \in 1..z, NEW u, NEW w, \A m \in (n + 1)..z : u[m] = w[m]
      PROVE  Below1(u, n) = Below1(w, n)
  <2>1. \A local \in Locals : Writes(u, n, local) = Writes(w, n, local)
    BY <1>1, <1>2, WritesSame
  <2> QED
    BY <2>1
<1> HIDE DEF Below1
<1>3. Bad = {}
  <2> SUFFICES ASSUME Bad # {}
               PROVE  FALSE
    OBVIOUS
  <2>1. PICK k \in Bad : \A l \in Bad : k <= l
    <3>1. Bad \in SUBSET Nat
      OBVIOUS
    <3> HIDE DEF Bad
    <3> QED
      BY <3>1, Smallest
  <2>2. k \in Nat /\ ~Good(k)
    OBVIOUS
  <2>3. k # 0
    <3>1. \A n \in 1..z : ~(z - n < 0)
      OBVIOUS
    <3>2. DOMAIN [n \in 1..z |-> n] = 1..z
      OBVIOUS
    <3>3. Good(0)
      BY <3>1, <3>2
    <3> HIDE DEF Good
    <3> QED
      BY <2>2, <3>3
  <2>4. Good(k - 1)
    <3> HIDE DEF Good
    <3>1. k - 1 \in Nat
      BY <2>2, <2>3
    <3> QED
      BY <2>1, <2>2, <3>1
  <2>5. PICK g : DOMAIN g = 1..z /\ \A n \in 1..z : z - n < k - 1 => g[n] = Below1(g, n)
    BY <2>4
  <2> DEFINE h == [n \in 1..z |-> IF z - n < k - 1 THEN g[n] ELSE Below1(g, n)]
  <2>6. DOMAIN h = 1..z
        /\ \A n \in 1..z : h[n] = IF z - n < k - 1 THEN g[n] ELSE Below1(g, n)
    OBVIOUS
  <2> HIDE DEF h
  <2>7. \A n \in 1..z : z - n < k => h[n] = Below1(h, n)
    <3> SUFFICES ASSUME NEW n \in 1..z, z - n < k
                 PROVE  h[n] = Below1(h, n)
      OBVIOUS
    <3>1. \A m \in (n + 1)..z : m \in 1..z /\ z - m < k - 1
      BY <2>2
    <3>2. \A m \in (n + 1)..z : h[m] = g[m]
      BY <2>6, <3>1
    <3>3. Below1(h, n) = Below1(g, n)
      BY <1>2, <3>2
    <3>4. h[n] = Below1(g, n)
      BY <2>5, <2>6
    <3> QED
      BY <3>3, <3>4
  <2>8. Good(k)
    BY <2>6, <2>7
  <2> HIDE DEF Good
  <2> QED
    BY <2>2, <2>8
<1>4. Good(z)
  <2> HIDE DEF Good
  <2> QED
    BY <1>3
<1>5. PICK g : DOMAIN g = 1..z /\ \A n \in 1..z : z - n < z => g[n] = Below1(g, n)
  BY <1>4
<1>6. \A n \in 1..z : z - n < z
  OBVIOUS
<1> DEFINE h == [n \in 1..z |-> Below1(g, n)]
<1>7. \A n \in 1..z : h[n] = Below1(g, n) /\ h[n] = g[n]
  BY <1>5, <1>6
<1>8. \A n \in 1..z : Below1(h, n) = Below1(g, n)
  <2> TAKE n \in 1..z
  <2>1. \A m \in (n + 1)..z : m \in 1..z
    OBVIOUS
  <2>2. \A m \in (n + 1)..z : h[m] = g[m]
    BY <1>7, <2>1
  <2> HIDE DEF h
  <2> QED
    BY <1>2, <2>2
<1>9. h = [n \in 1..z |-> Below1(h, n)]
  BY <1>8
<1> HIDE DEF h
<1> QED
  BY <1>1, <1>9 DEF IsMeaning, Below1

LEMMA MeaningIs ==
  ASSUME IsTree(nodes)
  PROVE  \A n \in 1..Len(nodes) : \A local \in Locals :
           Meaning[n][local] = Writes(Meaning, n, local) /\ Meaning[n][local] \in Seq(Output)
<1>1. PICK z \in Nat : z = Len(nodes) /\ DOMAIN nodes = 1..z
  BY TreeIs
<1>2. PICK w : w = Meaning
  OBVIOUS
<1>3. IsMeaning(w)
  <2>1. w = CHOOSE v : IsMeaning(v)
    BY <1>2 DEF Meaning, IsMeaning
  <2> QED
    BY <2>1, MeaningExists
<1>4. \A n \in 1..z : \A local \in Locals : w[n][local] = Writes(w, n, local)
  <2>1. w = [n \in 1..z |-> [local \in Locals |-> Writes(w, n, local)]]
    BY <1>1, <1>3 DEF IsMeaning
  <2>2. \A n \in 1..z : w[n] = [local \in Locals |-> Writes(w, n, local)]
    BY <2>1
  <2> QED
    BY <2>2
<1> DEFINE WritesTyped(n) == \A local \in Locals : w[n][local] \in Seq(Output)
           Bad == {k \in Nat : \E n \in 1..z : z - n = k /\ ~WritesTyped(n)}
<1>5. Bad = {}
  <2> SUFFICES ASSUME Bad # {}
               PROVE  FALSE
    OBVIOUS
  <2>1. PICK k \in Bad : \A l \in Bad : k <= l
    <3>1. Bad \in SUBSET Nat
      OBVIOUS
    <3> HIDE DEF Bad
    <3> QED
      BY <3>1, Smallest
  <2>2. PICK n \in 1..z : z - n = k /\ ~WritesTyped(n)
    OBVIOUS
  <2>3. \A m \in (n + 1)..z : WritesTyped(m)
    <3> SUFFICES ASSUME NEW m \in (n + 1)..z, ~WritesTyped(m)
                 PROVE  FALSE
      OBVIOUS
    <3>1. m \in 1..z /\ z - m \in Nat /\ z - m < k
      BY <2>2
    <3>2. z - m \in Bad
      BY <3>1
    <3>3. k \in Nat
      OBVIOUS
    <3> HIDE DEF Bad, WritesTyped
    <3> QED
      BY <2>1, <3>1, <3>2, <3>3
  <2>4. Words(w, n)
    BY <1>1, <2>3 DEF Words
  <2>5. \A local \in Locals : Writes(w, n, local) \in Seq(Output)
    BY <1>1, <2>4, WritesWords
  <2> QED
    BY <1>4, <2>2, <2>5
<1>6. \A n \in 1..z : WritesTyped(n)
  <2> TAKE n \in 1..z
  <2>1. z - n \in Nat
    OBVIOUS
  <2> HIDE DEF WritesTyped
  <2> QED
    BY <1>5, <2>1
<1> QED
  BY <1>1, <1>2, <1>4, <1>6

-----------------------------------------------------------------------------
(* What the activations have still to write. *)
Activations ==
  {a \in [todo : Seq(2..Len(nodes)), local : Locals, loop : 0..Len(nodes),
          items : Seq(Object), key : Nat] :
     a.items # <<>> => a.loop \in 1..Len(nodes) /\ nodes[a.loop].token.var \in LoopVar}

RestIn(w, a) == InTurn(a.todo, w, a.local) \o TurnsOf(a.loop, w, a.local, a.items, a.key)

Remaining(w, s) == FlattenSeq([i \in DOMAIN s |-> RestIn(w, s[i])])

AllWords(w) == \A n \in 1..Len(nodes) : \A l \in Locals : w[n][l] \in Seq(Output)

LEMMA ActivationIs ==
  ASSUME NEW a \in Activations
  PROVE  /\ a.todo \in Seq(2..Len(nodes)) /\ a.local \in Locals /\ a.loop \in 0..Len(nodes)
         /\ a.items \in Seq(Object) /\ a.key \in Nat
         /\ a.items # <<>> => a.loop \in 1..Len(nodes) /\ nodes[a.loop].token.var \in LoopVar
<1> QED
  BY DEF Activations

LEMMA TodoWords ==
  ASSUME IsTree(nodes), NEW w, AllWords(w), NEW list \in Seq(2..Len(nodes)), NEW local \in Locals
  PROVE  \A i \in 1..Len(list) : w[list[i]][local] \in Seq(Output)
<1>1. \A i \in 1..Len(list) : list[i] \in 2..Len(nodes)
  BY ElementOfSeq
<1>2. \A n \in 2..Len(nodes) : n \in 1..Len(nodes)
  BY TreeIs
<1> QED
  BY <1>1, <1>2 DEF AllWords

LEMMA LoopWords ==
  ASSUME IsTree(nodes), NEW w, AllWords(w), NEW a \in Activations, a.items # <<>>
  PROVE  TurnsTyped(a.loop, w, a.local)
<1>1. /\ a.local \in Locals /\ a.loop \in 1..Len(nodes) /\ nodes[a.loop].token.var \in LoopVar
  BY ActivationIs
<1>2. Words(w, a.loop)
  <2>1. \A m \in (a.loop + 1)..Len(nodes) : m \in 1..Len(nodes)
    BY <1>1, TreeIs
  <2> QED
    BY <2>1 DEF Words, AllWords
<1> QED
  BY <1>1, <1>2, LoopTurns

LEMMA RestTyped ==
  ASSUME IsTree(nodes), NEW w, AllWords(w), NEW a \in Activations
  PROVE  /\ InTurn(a.todo, w, a.local) \in Seq(Output)
         /\ TurnsOf(a.loop, w, a.local, a.items, a.key) \in Seq(Output)
         /\ RestIn(w, a) \in Seq(Output)
<1>1. a.todo \in Seq(2..Len(nodes)) /\ a.local \in Locals /\ a.items \in Seq(Object) /\ a.key \in Nat
  BY ActivationIs
<1>2. InTurn(a.todo, w, a.local) \in Seq(Output)
  <2>1. \A i \in 1..Len(a.todo) : w[a.todo[i]][a.local] \in Seq(Output)
    BY <1>1, TodoWords
  <2> QED
    BY <1>1, <2>1, InTurnTyped
<1>3. TurnsOf(a.loop, w, a.local, a.items, a.key) \in Seq(Output)
  <2>1. CASE a.items = <<>>
    <3>1. TurnsOf(a.loop, w, a.local, <<>>, a.key) = <<>>
      BY TurnsNone
    <3>2. <<>> \in Seq(Output)
      OBVIOUS
    <3> QED
      BY <2>1, <3>1, <3>2
  <2>2. CASE a.items # <<>>
    <3>1. TurnsTyped(a.loop, w, a.local)
      BY <2>2, LoopWords
    <3> QED
      BY <1>1, <3>1, TurnsWords
  <2> QED
    BY <2>1, <2>2
<1> QED
  BY <1>2, <1>3, ConcatProperties DEF RestIn

LEMMA RestHead ==
  ASSUME IsTree(nodes), NEW w, AllWords(w), NEW a \in Activations, a.todo # <<>>
  PROVE  /\ passed(a) \in Activations
         /\ Head(a.todo) \in 2..Len(nodes) /\ Head(a.todo) \in 1..Len(nodes)
         /\ w[Head(a.todo)][a.local] \in Seq(Output)
         /\ RestIn(w, a) = w[Head(a.todo)][a.local] \o RestIn(w, passed(a))
<1>1. a.todo \in Seq(2..Len(nodes)) /\ a.local \in Locals
  BY ActivationIs
<1>2. PICK list, local : list = a.todo /\ local = a.local
  OBVIOUS
<1>3. list \in Seq(2..Len(nodes)) /\ list # <<>> /\ local \in Locals
  BY <1>1, <1>2
<1>4. Tail(list) \in Seq(2..Len(nodes)) /\ Head(list) \in 2..Len(nodes)
  BY <1>3, HeadTailProperties
<1>5. Head(list) \in 1..Len(nodes)
  BY <1>4, TreeIs
<1>6. /\ passed(a).todo = Tail(list) /\ passed(a).local = local /\ passed(a).loop = a.loop
      /\ passed(a).items = a.items /\ passed(a).key = a.key
      /\ passed(a) \in Activations
  <2>1. passed(a) = [a EXCEPT !.todo = Tail(list)]
    BY <1>2 DEF passed
  <2> QED
    BY <1>2, <1>4, <2>1 DEF Activations
<1>7. \A i \in 1..Len(list) : w[list[i]][local] \in Seq(Output)
  BY <1>3, TodoWords
<1>8. InTurn(list, w, local) = w[Head(list)][local] \o InTurn(Tail(list), w, local)
  BY <1>3, <1>7, InTurnHead, SMTT(30)
<1>9. w[Head(list)][local] \in Seq(Output)
  BY <1>3, <1>5 DEF AllWords
<1>10. PICK x \in Seq(Output), y \in Seq(Output), z \in Seq(Output) :
         /\ x = w[Head(list)][local]
         /\ y = InTurn(Tail(list), w, local)
         /\ z = TurnsOf(a.loop, w, local, a.items, a.key)
  <2>1. TurnsOf(a.loop, w, local, a.items, a.key) \in Seq(Output)
    BY <1>2, RestTyped
  <2>2. \A i \in 1..Len(Tail(list)) : w[Tail(list)[i]][local] \in Seq(Output)
    BY <1>3, <1>4, TodoWords
  <2>3. InTurn(Tail(list), w, local) \in Seq(Output)
    BY <1>4, <2>2, InTurnTyped
  <2> QED
    BY <1>9, <2>1, <2>3
<1>11. RestIn(w, a) = (x \o y) \o z /\ RestIn(w, passed(a)) = y \o z
  BY <1>2, <1>6, <1>8, <1>10 DEF RestIn
<1>12. (x \o y) \o z = x \o (y \o z)
  BY Assoc
<1>13. RestIn(w, a) = x \o RestIn(w, passed(a))
  BY <1>11, <1>12, Zenon
<1> QED
  BY <1>2, <1>4, <1>5, <1>6, <1>9, <1>10, <1>13

LEMMA RemainingTyped ==
  ASSUME IsTree(nodes), NEW w, AllWords(w), NEW s \in Seq(Activations)
  PROVE  /\ [i \in DOMAIN s |-> RestIn(w, s[i])] \in Seq(Seq(Output))
         /\ Remaining(w, s) \in Seq(Output)
<1>1. PICK n \in Nat : n = Len(s) /\ DOMAIN s = 1..n
  BY LenProperties
<1> DEFINE r == [i \in 1..n |-> RestIn(w, s[i])]
<1>2. r \in [1..n -> Seq(Output)]
  <2>1. \A i \in 1..n : s[i] \in Activations
    BY <1>1, ElementOfSeq
  <2> QED
    BY <2>1, RestTyped
<1>3. r = [i \in DOMAIN s |-> RestIn(w, s[i])]
  BY <1>1
<1> HIDE DEF r
<1>4. r \in Seq(Seq(Output))
  <2>1. DOMAIN r = 1..n
    BY <1>2
  <2> QED
    BY <1>2, <2>1
<1>5. FlattenSeq(r) \in Seq(Output)
  BY <1>4, FlatTyped
<1> QED
  BY <1>3, <1>4, <1>5 DEF Remaining

LEMMA RemainingNone == ASSUME NEW w PROVE Remaining(w, <<>>) = <<>>
<1>1. [i \in DOMAIN <<>> |-> RestIn(w, <<>>[i])] = <<>>
  OBVIOUS
<1> QED
  BY <1>1, FlatNone DEF Remaining

LEMMA RemainingMore ==
  ASSUME IsTree(nodes), NEW w, AllWords(w), NEW a \in Activations, NEW r \in Seq(Activations)
  PROVE  /\ <<a>> \o r \in Seq(Activations)
         /\ Remaining(w, <<a>> \o r) = RestIn(w, a) \o Remaining(w, r)
<1>1. PICK k \in Nat : k = Len(r) /\ DOMAIN r = 1..k
  BY LenProperties
<1>2. PICK s : s = <<a>> \o r
  OBVIOUS
<1>3. <<a>> \in Seq(Activations) /\ Len(<<a>>) = 1 /\ <<a>>[1] = a
  OBVIOUS
<1>4. /\ s \in Seq(Activations) /\ Len(s) = k + 1 /\ s[1] = a
      /\ \A i \in 1..k : s[i + 1] = r[i]
  <2>1. /\ s \in Seq(Activations) /\ Len(s) = 1 + k
        /\ \A i \in 1..(1 + k) : s[i] = IF i <= 1 THEN <<a>>[i] ELSE r[i - 1]
    BY <1>1, <1>2, <1>3, ConcatProperties
  <2>2. 1 \in 1..(1 + k) /\ \A i \in 1..k : i + 1 \in 1..(1 + k) /\ ~(i + 1 <= 1) /\ (i + 1) - 1 = i
    OBVIOUS
  <2> QED
    BY <1>3, <2>1, <2>2
<1>5. DOMAIN s = 1..(k + 1)
  BY <1>4, LenProperties
<1>6. PICK f, g : /\ f = [i \in 1..(k + 1) |-> RestIn(w, s[i])]
                  /\ g = [i \in 1..k |-> RestIn(w, r[i])]
  OBVIOUS
<1>7. f \in [1..(k + 1) -> Seq(Output)]
  <2>1. \A i \in 1..(k + 1) : s[i] \in Activations
    BY <1>4, <1>5, ElementOfSeq
  <2>2. \A i \in 1..(k + 1) : RestIn(w, s[i]) \in Seq(Output)
    BY <2>1, RestTyped
  <2> QED
    BY <1>6, <2>2
<1>8. Shifted(f, g, k)
  <2>1. \A i \in 1..k : i + 1 \in 1..(k + 1)
    OBVIOUS
  <2> QED
    BY <1>4, <1>6, <2>1 DEF Shifted
<1>9. FlattenSeq(f) = f[1] \o FlattenSeq(g)
  BY <1>7, <1>8, FlatShift
<1>10. f[1] = RestIn(w, a)
  <2>1. 1 \in 1..(k + 1)
    OBVIOUS
  <2> QED
    BY <1>4, <1>6, <2>1
<1>11. Remaining(w, s) = FlattenSeq(f) /\ Remaining(w, r) = FlattenSeq(g)
  BY <1>1, <1>5, <1>6 DEF Remaining
<1> QED
  BY <1>2, <1>4, <1>9, <1>10, <1>11, Zenon

LEMMA Regroup ==
  ASSUME NEW S, NEW o \in Seq(S), NEW e \in Seq(S), NEW p \in Seq(S), NEW q \in Seq(S),
         NEW x, NEW y, x = p \o q, Longer(y, e \o p, q)
  PROVE  Longer(o \o y, o \o e, x)
<1>1. (e \o p) \o q = e \o (p \o q)
  BY Assoc, SMTT(30)
<1>2. PICK u \in Seq(S) : u = p \o q
  BY ConcatProperties
<1>3. (o \o e) \o u = o \o (e \o u)
  BY Assoc, SMTT(30)
<1> QED
  BY <1>1, <1>2, <1>3, Zenon DEF Longer

LEMMA PairOnTop ==
  ASSUME NEW S, NEW x \in S, NEW y \in S, NEW r \in Seq(S), NEW s, Longer(s, <<y>>, r)
  PROVE  Longer(<<x, y>> \o r, <<x>>, s)
<1>1. <<x>> \in Seq(S) /\ <<y>> \in Seq(S) /\ <<x, y>> \in Seq(S)
  OBVIOUS
<1>2. <<x>> \o <<y>> = <<x, y>>
  <2>1. /\ Len(<<x>>) = 1 /\ Len(<<y>>) = 1 /\ Len(<<x, y>>) = 2
        /\ <<x>>[1] = x /\ <<y>>[1] = y /\ <<x, y>>[1] = x /\ <<x, y>>[2] = y
    OBVIOUS
  <2>2. PICK u \in Seq(S) : u = <<x>> \o <<y>>
    BY <1>1, ConcatProperties
  <2>3. Len(u) = 1 + 1
        /\ \A i \in 1..(1 + 1) : u[i] = IF i <= 1 THEN <<x>>[i] ELSE <<y>>[i - 1]
    BY <1>1, <2>1, <2>2, ConcatProperties
  <2>4. Len(u) = 2 /\ u[1] = x /\ u[2] = y
    BY <2>1, <2>3
  <2>5. \A i \in 1..2 : i = 1 \/ i = 2
    OBVIOUS
  <2> QED
    BY <1>1, <2>1, <2>2, <2>4, <2>5, SeqEqual
<1>3. PICK a \in Seq(S), b \in Seq(S) : a = <<x>> /\ b = <<y>>
  BY <1>1
<1>4. (a \o b) \o r = a \o (b \o r)
  BY Assoc
<1> QED
  BY <1>2, <1>3, <1>4, Zenon DEF Longer

(* The top of the stack has written e, and x takes its place.              *)
LEMMA OneGoesOn ==
  ASSUME IsTree(nodes), NEW w, AllWords(w), NEW a \in Activations, NEW r \in Seq(Activations),
         NEW o \in Seq(Output), NEW e \in Seq(Output), NEW x \in Activations,
         Longer(RestIn(w, a), e, RestIn(w, x))
  PROVE  Longer(o \o Remaining(w, <<a>> \o r), o \o e, Remaining(w, <<x>> \o r))
<1>1. PICK p \in Seq(Output), q \in Seq(Output) : p = RestIn(w, x) /\ q = Remaining(w, r)
  BY RestTyped, RemainingTyped
<1>2. Remaining(w, <<x>> \o r) = p \o q
  BY <1>1, RemainingMore
<1>3. Remaining(w, <<a>> \o r) = (e \o p) \o q
  <2>1. Remaining(w, <<a>> \o r) = RestIn(w, a) \o Remaining(w, r)
    BY RemainingMore
  <2> QED
    BY <1>1, <2>1 DEF Longer
<1>4. PICK c, d : c = Remaining(w, <<x>> \o r) /\ d = Remaining(w, <<a>> \o r)
  OBVIOUS
<1>5. c = p \o q /\ Longer(d, e \o p, q)
  BY <1>2, <1>3, <1>4 DEF Longer
<1>6. Longer(o \o d, o \o e, c)
  BY <1>5, Regroup
<1> QED
  BY <1>4, <1>6

(* The top of the stack calls x. *)
LEMMA OneCalls ==
  ASSUME IsTree(nodes), NEW w, AllWords(w), NEW a \in Activations, NEW r \in Seq(Activations),
         NEW x \in Activations, NEW y \in Activations,
         Longer(RestIn(w, a), RestIn(w, x), RestIn(w, y))
  PROVE  /\ <<x, y>> \o r \in Seq(Activations)
         /\ Remaining(w, <<x, y>> \o r) = Remaining(w, <<a>> \o r)
<1>1. PICK p \in Seq(Output), q \in Seq(Output), u \in Seq(Output) :
        p = RestIn(w, x) /\ q = RestIn(w, y) /\ u = Remaining(w, r)
  BY RestTyped, RemainingTyped
<1>2. PICK s \in Seq(Activations) : s = <<y>> \o r /\ Remaining(w, s) = q \o u
  BY <1>1, RemainingMore
<1>3. <<x>> \o s \in Seq(Activations) /\ Remaining(w, <<x>> \o s) = p \o (q \o u)
  <2>1. <<x>> \o s \in Seq(Activations)
        /\ Remaining(w, <<x>> \o s) = RestIn(w, x) \o Remaining(w, s)
    BY RemainingMore
  <2> QED
    BY <1>1, <1>2, <2>1, Zenon
<1>4. <<x, y>> \o r = <<x>> \o s
  <2>1. Longer(s, <<y>>, r)
    BY <1>2 DEF Longer
  <2>2. Longer(<<x, y>> \o r, <<x>>, s)
    BY <2>1, PairOnTop
  <2> QED
    BY <2>2 DEF Longer
<1>5. Remaining(w, <<a>> \o r) = (p \o q) \o u
  <2>1. Remaining(w, <<a>> \o r) = RestIn(w, a) \o Remaining(w, r)
    BY RemainingMore
  <2> QED
    BY <1>1, <2>1 DEF Longer
<1>6. (p \o q) \o u = p \o (q \o u)
  BY Assoc
<1> QED
  BY <1>3, <1>4, <1>5, <1>6, Zenon

(* The top of the stack returns. *)
LEMMA OneReturns ==
  ASSUME IsTree(nodes), NEW w, AllWords(w), NEW a \in Activations, NEW r \in Seq(Activations),
         RestIn(w, a) = <<>>
  PROVE  Remaining(w, r) = Remaining(w, <<a>> \o r)
<1>1. PICK q \in Seq(Output) : q = Remaining(w, r)
  BY RemainingTyped
<1>2. <<>> \o q = q
  BY ConcatEmptySeq
<1>3. Remaining(w, <<a>> \o r) = RestIn(w, a) \o q
  BY <1>1, RemainingMore
<1> QED
  BY <1>1, <1>2, <1>3

-----------------------------------------------------------------------------
(* What was written is the beginning of what the template means, and what  *)
(* the activations have still to write is the rest of it.                  *)
RunInv ==
  /\ phase = "parsing" => out = <<>>
  /\ phase = "parsed" /\ ~starved =>
       /\ stack \in Seq(Activations) /\ out \in Seq(Output)
       /\ out \o Remaining(Meaning, stack) = Meaning[1][NoLocals]
  /\ phase = "done" /\ ~starved => out = Meaning[1][NoLocals]

LEMMA MeaningKept ==
  ASSUME nodes' = nodes
  PROVE  Meaning' = Meaning
<1> QED
  BY DEF Meaning, Writes, InTurn, TurnsOf, kind_of

LEMMA RunIs ==
  ASSUME nodes' = nodes,
         phase' = "parsing" => out' = <<>>,
         phase' = "parsed" /\ ~starved' =>
           /\ stack' \in Seq(Activations) /\ out' \in Seq(Output)
           /\ out' \o Remaining(Meaning, stack') = Meaning[1][NoLocals],
         phase' = "done" /\ ~starved' => out' = Meaning[1][NoLocals]
  PROVE  RunInv'
<1>1. PICK w : w = Meaning
  OBVIOUS
<1>2. Meaning' = w /\ Activations' = Activations
  BY <1>1, MeaningKept DEF Activations
<1>3. Remaining(w, stack)' = Remaining(w, stack')
  BY DEF Remaining, RestIn, InTurn, TurnsOf
<1>4. Remaining(Meaning, stack)' = Remaining(w, stack')
  BY <1>2, <1>3 DEF Remaining, RestIn, InTurn, TurnsOf
<1> QED
  BY <1>1, <1>2, <1>4 DEF RunInv

LEMMA MeaningWords ==
  ASSUME IsTree(nodes)
  PROVE  /\ AllWords(Meaning)
         /\ \A n \in 1..Len(nodes) : \A l \in Locals : Meaning[n][l] = Writes(Meaning, n, l)
         /\ 1 \in 1..Len(nodes)
<1> QED
  BY MeaningIs, TreeIs DEF AllWords

(* The stack, from its top. *)
LEMMA TopIs ==
  ASSUME IsTree(nodes), stack \in Seq(Activations), stack # <<>>
  PROVE  /\ top \in Activations /\ Tail(stack) \in Seq(Activations)
         /\ stack = <<top>> \o Tail(stack)
<1>1. Head(stack) \in Activations /\ Tail(stack) \in Seq(Activations)
  BY HeadTailProperties
<1>2. PICK a, r : a = Head(stack) /\ r = Tail(stack)
  OBVIOUS
<1>3. <<a>> \in Seq(Activations) /\ Len(<<a>>) = 1 /\ <<a>>[1] = a
  BY <1>1, <1>2
<1>4. PICK k \in Nat : /\ Len(stack) = k + 1
                       /\ Head(stack) = stack[1] /\ Len(Tail(stack)) = k
                       /\ \A i \in 1..k : Tail(stack)[i] = stack[i + 1]
  BY HeadAndTail
<1>5. PICK s \in Seq(Activations) : s = <<a>> \o r
  BY <1>1, <1>2, <1>3, ConcatProperties
<1>6. Len(s) = 1 + k
      /\ \A i \in 1..(1 + k) : s[i] = IF i <= 1 THEN <<a>>[i] ELSE r[i - 1]
  BY <1>1, <1>2, <1>3, <1>4, <1>5, ConcatProperties
<1>7. \A i \in 1..(1 + k) : stack[i] = s[i]
  <2> TAKE i \in 1..(1 + k)
  <2>1. CASE i = 1
    BY <1>2, <1>3, <1>4, <1>6, <2>1
  <2>2. CASE i # 1
    <3>1. i - 1 \in 1..k /\ (i - 1) + 1 = i /\ ~(i <= 1)
      BY <2>2
    <3> QED
      BY <1>2, <1>4, <1>6, <3>1
  <2> QED
    BY <2>1, <2>2
<1>8. stack = s
  BY <1>4, <1>6, <1>7, SeqEqual
<1> QED
  BY <1>1, <1>2, <1>5, <1>8 DEF top

(* What holds when an activation is at the top of the stack. *)
Running(w) ==
  /\ IsTree(nodes) /\ AllWords(w)
  /\ \A n \in 1..Len(nodes) : \A l \in Locals : w[n][l] = Writes(w, n, l)
  /\ stack \in Seq(Activations) /\ stack # <<>> /\ out \in Seq(Output)

(* The step of the top activation at a text or a value. *)
LEMMA WordWritten ==
  ASSUME NEW w, Running(w), top.todo # <<>>, NEW x \in Output,
         Writes(w, Head(top.todo), top.local) = <<x>>
  PROVE  /\ <<passed(top)>> \o Tail(stack) \in Seq(Activations)
         /\ Append(out, x) \in Seq(Output)
         /\ Append(out, x) \o Remaining(w, <<passed(top)>> \o Tail(stack)) = out \o Remaining(w, stack)
<1>1. PICK a, r : a = top /\ r = Tail(stack)
  OBVIOUS
<1>2. /\ IsTree(nodes) /\ AllWords(w) /\ a \in Activations /\ r \in Seq(Activations)
      /\ stack = <<a>> \o r /\ a.todo # <<>> /\ out \in Seq(Output)
  BY <1>1, TopIs DEF Running
<1>3. /\ passed(a) \in Activations
      /\ Head(a.todo) \in 1..Len(nodes)
      /\ w[Head(a.todo)][a.local] \in Seq(Output)
      /\ RestIn(w, a) = w[Head(a.todo)][a.local] \o RestIn(w, passed(a))
  BY <1>2, RestHead
<1>4. w[Head(a.todo)][a.local] = <<x>>
  BY <1>1, <1>2, <1>3, ActivationIs DEF Running
<1>5. PICK e \in Seq(Output) : e = <<x>>
  BY <1>3, <1>4
<1>6. Longer(RestIn(w, a), e, RestIn(w, passed(a)))
  BY <1>3, <1>4, <1>5 DEF Longer
<1>7. /\ out \o e \in Seq(Output)
      /\ (out \o e) \o Remaining(w, <<passed(a)>> \o r) = out \o Remaining(w, <<a>> \o r)
  <2>1. PICK c, o : c = passed(a) /\ o = out
    OBVIOUS
  <2>2. c \in Activations /\ o \in Seq(Output) /\ Longer(RestIn(w, a), e, RestIn(w, c))
    BY <1>2, <1>3, <1>6, <2>1
  <2>3. Longer(o \o Remaining(w, <<a>> \o r), o \o e, Remaining(w, <<c>> \o r))
    BY <1>2, <2>2, OneGoesOn
  <2>4. o \o e \in Seq(Output)
    BY <2>2, ConcatProperties
  <2> QED
    BY <2>1, <2>3, <2>4 DEF Longer
<1>8. Append(out, x) = out \o e
  BY <1>2, <1>5, AppendIsConcat
<1>9. <<passed(a)>> \o r \in Seq(Activations)
  BY <1>2, <1>3, RemainingMore
<1> QED
  BY <1>1, <1>2, <1>7, <1>8, <1>9

(* The step of the top activation that calls another, b. *)
LEMMA BlockCalled ==
  ASSUME NEW w, Running(w), top.todo # <<>>, NEW b \in Activations,
         Writes(w, Head(top.todo), top.local) = RestIn(w, b)
  PROVE  /\ <<b, passed(top)>> \o Tail(stack) \in Seq(Activations)
         /\ Remaining(w, <<b, passed(top)>> \o Tail(stack)) = Remaining(w, stack)
<1>1. PICK a, r : a = top /\ r = Tail(stack)
  OBVIOUS
<1>2. /\ IsTree(nodes) /\ AllWords(w) /\ a \in Activations /\ r \in Seq(Activations)
      /\ stack = <<a>> \o r /\ a.todo # <<>>
  BY <1>1, TopIs DEF Running
<1>3. /\ passed(a) \in Activations
      /\ Head(a.todo) \in 1..Len(nodes)
      /\ RestIn(w, a) = w[Head(a.todo)][a.local] \o RestIn(w, passed(a))
  BY <1>2, RestHead
<1>4. w[Head(a.todo)][a.local] = RestIn(w, b)
  BY <1>1, <1>2, <1>3, ActivationIs DEF Running
<1>5. Longer(RestIn(w, a), RestIn(w, b), RestIn(w, passed(a)))
  BY <1>3, <1>4 DEF Longer
<1>6. /\ <<b, passed(a)>> \o r \in Seq(Activations)
      /\ Remaining(w, <<b, passed(a)>> \o r) = Remaining(w, <<a>> \o r)
  <2>1. PICK c : c = passed(a)
    OBVIOUS
  <2>2. c \in Activations /\ Longer(RestIn(w, a), RestIn(w, b), RestIn(w, c))
    BY <1>3, <1>5, <2>1
  <2>3. /\ <<b, c>> \o r \in Seq(Activations)
        /\ Remaining(w, <<b, c>> \o r) = Remaining(w, <<a>> \o r)
    BY <1>2, <2>2, OneCalls
  <2> QED
    BY <2>1, <2>3
<1> QED
  BY <1>1, <1>2, <1>6

(* The activation of a list of nodes. *)
LEMMA ListActivation ==
  ASSUME IsTree(nodes), NEW w, AllWords(w), NEW list \in Seq(2..Len(nodes)), NEW local \in Locals
  PROVE  /\ Activation(list, local) \in Activations
         /\ RestIn(w, Activation(list, local)) = InTurn(list, w, local)
<1>1. PICK b : b = Activation(list, local)
  OBVIOUS
<1>2. b.todo = list /\ b.local = local /\ b.loop = 0 /\ b.items = <<>> /\ b.key = 0
  BY <1>1 DEF Activation
<1>3. b \in Activations
  <2>1. 0 \in 0..Len(nodes) /\ 0 \in Nat /\ <<>> \in Seq(Object)
    BY TreeIs
  <2> QED
    BY <1>1, <2>1 DEF Activation, Activations
<1>4. TurnsOf(0, w, local, <<>>, 0) = <<>>
  BY TurnsNone
<1>5. InTurn(b.todo, w, b.local) \in Seq(Output)
  BY <1>3, RestTyped
<1>6. PICK x \in Seq(Output) : x = InTurn(list, w, local)
  BY <1>2, <1>5
<1>7. x \o <<>> = x
  BY ConcatEmptySeq
<1>8. RestIn(w, b) = x \o <<>>
  BY <1>2, <1>4, <1>6 DEF RestIn
<1> QED
  BY <1>1, <1>3, <1>6, <1>7, <1>8

LEMMA ChildrenAre ==
  ASSUME IsTree(nodes), NEW n \in 1..Len(nodes)
  PROVE  /\ nodes[n].child_nodes \in Seq(2..Len(nodes))
         /\ nodes[n].child_nodes_else \in Seq(2..Len(nodes))
<1>1. \A list \in Seq(Nat) : (\A i \in 1..Len(list) : list[i] \in (n + 1)..Len(nodes))
                             => list \in Seq(2..Len(nodes))
  <2> SUFFICES ASSUME NEW list \in Seq(Nat), \A i \in 1..Len(list) : list[i] \in (n + 1)..Len(nodes)
               PROVE  list \in Seq(2..Len(nodes))
    OBVIOUS
  <2>1. PICK k \in Nat : k = Len(list) /\ DOMAIN list = 1..k /\ list \in [1..k -> Nat]
    BY LenProperties
  <2>2. \A m \in (n + 1)..Len(nodes) : m \in 2..Len(nodes)
    BY TreeIs
  <2>3. list \in [1..k -> 2..Len(nodes)]
    BY <2>1, <2>2
  <2>4. \A S : \A f \in [1..k -> S] : f \in Seq(S)
    OBVIOUS
  <2> QED
    BY <2>3, <2>4, Zenon
<1> QED
  BY <1>1, NodeIs

LEMMA ActivationMade ==
  ASSUME NEW list \in Seq(2..Len(nodes)), NEW local \in Locals, NEW loop \in 0..Len(nodes),
         NEW items \in Seq(Object), NEW key \in Nat,
         items # <<>> => loop \in 1..Len(nodes) /\ nodes[loop].token.var \in LoopVar,
         NEW b, b = [todo |-> list, local |-> local, loop |-> loop, items |-> items, key |-> key]
  PROVE  b \in Activations
<1>1. b \in [todo : Seq(2..Len(nodes)), local : Locals, loop : 0..Len(nodes),
             items : Seq(Object), key : Nat]
  OBVIOUS
<1>2. b.items = items /\ b.loop = loop
  OBVIOUS
<1> QED
  BY <1>1, <1>2 DEF Activations

LEMMA LoopActivation ==
  ASSUME IsTree(nodes), NEW w, AllWords(w), NEW local \in Locals,
         NEW n \in 1..Len(nodes), nodes[n].token.var \in LoopVar,
         NEW items \in Seq(Object), NEW b,
         b = [Activation(<<>>, Bound(local, nodes[n].token.var, NoObject, NoObject)) EXCEPT
                !.loop = n, !.items = items]
  PROVE  b \in Activations /\ RestIn(w, b) = TurnsOf(n, w, local, items, 0)
<1>1. PICK l : l = Bound(local, nodes[n].token.var, NoObject, NoObject)
  OBVIOUS
<1>2. l \in Locals
  BY <1>1, NoLocalsIs, BoundIs
<1>3. b.todo = <<>> /\ b.local = l /\ b.loop = n /\ b.items = items /\ b.key = 0
  BY <1>1 DEF Activation
<1>4. b \in Activations
  <2>1. n \in 0..Len(nodes) /\ 0 \in Nat /\ <<>> \in Seq(2..Len(nodes))
    OBVIOUS
  <2>2. b = [todo |-> <<>>, local |-> l, loop |-> n, items |-> items, key |-> 0]
    BY <1>1 DEF Activation
  <2> QED
    BY <1>2, <2>1, <2>2, ActivationMade
<1>5. InTurn(<<>>, w, l) = <<>>
  BY InTurnNone
<1>6. TurnsOf(n, w, l, items, 0) = TurnsOf(n, w, local, items, 0)
  <2>1. Rebound(l, local, n)
    BY <1>1 DEF Rebound
  <2> QED
    BY <2>1, TurnsBound
<1>7. TurnsOf(b.loop, w, b.local, b.items, b.key) \in Seq(Output)
  BY <1>4, RestTyped
<1>8. PICK x \in Seq(Output) : x = TurnsOf(n, w, local, items, 0)
  BY <1>3, <1>6, <1>7
<1>9. <<>> \o x = x
  BY ConcatEmptySeq
<1>10. RestIn(w, b) = <<>> \o x
  BY <1>3, <1>5, <1>6, <1>8 DEF RestIn
<1> QED
  BY <1>4, <1>8, <1>9, <1>10

(* The next turn of the loop at the top of the stack. *)
LEMMA TurnTaken ==
  ASSUME NEW w, Running(w), top.todo = <<>>, top.items # <<>>
  PROVE  /\ <<do_loop(top)>> \o Tail(stack) \in Seq(Activations)
         /\ out \o Remaining(w, <<do_loop(top)>> \o Tail(stack)) = out \o Remaining(w, stack)
<1>1. PICK a, r, n : a = top /\ r = Tail(stack) /\ n = a.loop
  OBVIOUS
<1>2. /\ IsTree(nodes) /\ AllWords(w) /\ a \in Activations /\ r \in Seq(Activations)
      /\ stack = <<a>> \o r /\ a.todo = <<>> /\ a.items # <<>> /\ out \in Seq(Output)
  BY <1>1, TopIs DEF Running
<1>3. /\ a.local \in Locals /\ a.items \in Seq(Object) /\ a.key \in Nat
      /\ n \in 1..Len(nodes) /\ nodes[n].token.var \in LoopVar
  BY <1>1, <1>2, ActivationIs
<1>4. PICK local, items, key : local = a.local /\ items = a.items /\ key = a.key
  OBVIOUS
<1>5. Head(items) \in Object /\ Tail(items) \in Seq(Object)
  BY <1>2, <1>3, <1>4, HeadTailProperties
<1>6. PICK k, v : k = IntKey(key) /\ v = Head(items)
  OBVIOUS
<1>7. k \in Bindable /\ v \in Bindable
  BY <1>3, <1>4, <1>5, <1>6, KeyIs DEF Bindable
<1>8. PICK l : l = Bound(local, nodes[n].token.var, k, v)
  OBVIOUS
<1>9. l \in Locals
  BY <1>3, <1>4, <1>7, <1>8, BoundIs
<1>10. PICK b : b = do_loop(a)
  OBVIOUS
<1>11. /\ b.todo = nodes[n].child_nodes /\ b.local = l /\ b.loop = n
       /\ b.items = Tail(items) /\ b.key = key + 1
       /\ b \in Activations
  <2>1. b = [a EXCEPT !.todo = nodes[n].child_nodes, !.local = l,
                      !.items = Tail(items), !.key = key + 1]
    BY <1>1, <1>4, <1>6, <1>8, <1>10 DEF do_loop
  <2>2. nodes[n].child_nodes \in Seq(2..Len(nodes))
    BY <1>2, <1>3, ChildrenAre
  <2>3. key + 1 \in Nat
    BY <1>3, <1>4
  <2> QED
    BY <1>1, <1>2, <1>3, <1>5, <1>9, <2>1, <2>2, <2>3 DEF Activations
<1>12. TurnsTyped(n, w, local)
  BY <1>1, <1>2, <1>4, LoopWords
<1>13. TurnsOf(n, w, local, items, key) =
         Turn(n, w, local, key, Head(items)) \o TurnsOf(n, w, local, Tail(items), key + 1)
  BY <1>2, <1>3, <1>4, <1>12, TurnsHead
<1>14. Turn(n, w, local, key, Head(items)) = InTurn(nodes[n].child_nodes, w, l)
  BY <1>6, <1>8 DEF Turn
<1>15. TurnsOf(n, w, l, Tail(items), key + 1) = TurnsOf(n, w, local, Tail(items), key + 1)
  <2>1. PICK it, ky : it = Tail(items) /\ ky = key + 1
    OBVIOUS
  <2>2. it \in Seq(Object) /\ ky \in Nat /\ local \in Locals
    BY <1>3, <1>4, <1>5, <2>1
  <2>3. TurnsOf(n, w, l, it, ky) = TurnsOf(n, w, local, it, ky)
    <3>1. Rebound(l, local, n)
      BY <1>8 DEF Rebound
    <3> QED
      BY <1>3, <2>2, <3>1, TurnsBound
  <2> QED
    BY <2>1, <2>3
<1>16. RestIn(w, b) = TurnsOf(n, w, local, items, key)
  BY <1>11, <1>13, <1>14, <1>15 DEF RestIn
<1>17. RestIn(w, a) = RestIn(w, b)
  <2>1. InTurn(<<>>, w, local) = <<>>
    BY InTurnNone
  <2>2. RestIn(w, a) = <<>> \o TurnsOf(n, w, local, items, key)
    BY <1>1, <1>2, <1>4, <2>1 DEF RestIn
  <2>3. RestIn(w, b) \in Seq(Output)
    BY <1>2, <1>11, RestTyped
  <2>4. PICK x \in Seq(Output) : x = RestIn(w, b)
    BY <2>3
  <2>5. <<>> \o x = x
    BY ConcatEmptySeq
  <2> QED
    BY <1>16, <2>2, <2>4, <2>5
<1>18. Remaining(w, <<b>> \o r) = Remaining(w, <<a>> \o r) /\ <<b>> \o r \in Seq(Activations)
  <2>1. /\ <<b>> \o r \in Seq(Activations)
        /\ Remaining(w, <<b>> \o r) = RestIn(w, b) \o Remaining(w, r)
    BY <1>2, <1>11, RemainingMore
  <2>2. Remaining(w, <<a>> \o r) = RestIn(w, a) \o Remaining(w, r)
    BY <1>2, RemainingMore
  <2> QED
    BY <1>17, <2>1, <2>2
<1> QED
  BY <1>1, <1>2, <1>10, <1>18

LEMMA TopReturns ==
  ASSUME NEW w, Running(w), top.todo = <<>>, top.items = <<>>
  PROVE  /\ Tail(stack) \in Seq(Activations)
         /\ Remaining(w, Tail(stack)) = Remaining(w, stack)
<1>1. PICK a, r : a = top /\ r = Tail(stack)
  OBVIOUS
<1>2. /\ IsTree(nodes) /\ AllWords(w) /\ a \in Activations /\ r \in Seq(Activations)
      /\ stack = <<a>> \o r /\ a.todo = <<>> /\ a.items = <<>>
  BY <1>1, TopIs DEF Running
<1>3. RestIn(w, a) = <<>>
  <2>1. InTurn(<<>>, w, a.local) = <<>> /\ TurnsOf(a.loop, w, a.local, <<>>, a.key) = <<>>
    BY InTurnNone, TurnsNone
  <2>2. <<>> \o <<>> = <<>>
    OBVIOUS
  <2> QED
    BY <1>2, <2>1, <2>2 DEF RestIn
<1>4. Remaining(w, r) = Remaining(w, <<a>> \o r)
  BY <1>2, <1>3, OneReturns
<1> QED
  BY <1>1, <1>2, <1>4

-----------------------------------------------------------------------------
(* The steps. *)
LEMMA WritesIs ==
  ASSUME NEW w, NEW n, n # 1, NEW local, NEW o, o = fetch_var(local, nodes[n].token.ref)
  PROVE  /\ kind_of(n) = "text" => Writes(w, n, local) = <<"text">>
         /\ kind_of(n) = "subst" => Writes(w, n, local) = <<render_mobject(o)>>
         /\ kind_of(n) = "if" =>
              Writes(w, n, local) = InTurn(IF mobject_as_boolean(o) THEN nodes[n].child_nodes
                                           ELSE nodes[n].child_nodes_else, w, local)
         /\ kind_of(n) = "for" /\ o.type = "MARRAY" =>
              Writes(w, n, local) = TurnsOf(n, w, local, o.items, 0)
<1> QED
  BY DEF Writes

(* What the run has to write, under a name of its own. *)
WritesAll(w, x) == w = Meaning /\ x = Meaning[1][NoLocals]

LEMMA RunningIs ==
  ASSUME IsTree(nodes), RunInv, phase = "parsed", ~starved, stack # <<>>,
         NEW w, NEW x, WritesAll(w, x)
  PROVE  Running(w) /\ out \o Remaining(w, stack) = x
<1> QED
  BY MeaningWords DEF RunInv, Running, WritesAll

LEMMA StillRunning ==
  ASSUME nodes' = nodes, phase' = "parsed", NEW w, NEW x, WritesAll(w, x),
         stack' \in Seq(Activations), out' \in Seq(Output),
         out' \o Remaining(w, stack') = x
  PROVE  RunInv'
<1> QED
  BY RunIs DEF WritesAll

(* The node that the top activation does. *)
LEMMA DoneNext ==
  ASSUME NEW w, Running(w), top.todo # <<>>
  PROVE  /\ top.local \in Locals /\ Head(top.todo) # 1 /\ Head(top.todo) \in 1..Len(nodes)
         /\ passed(top) \in Activations
<1>1. PICK a : a = top
  OBVIOUS
<1>2. a \in Activations /\ a.todo # <<>> /\ IsTree(nodes) /\ AllWords(w)
  BY <1>1, TopIs DEF Running
<1> QED
  BY <1>1, <1>2, ActivationIs, RestHead

LEMMA WordStep ==
  ASSUME NEW w, NEW y, WritesAll(w, y), Running(w), out \o Remaining(w, stack) = y,
         top.todo # <<>>, NEW x \in Output,
         Writes(w, Head(top.todo), top.local) = <<x>>,
         nodes' = nodes, phase' = "parsed",
         out' = Append(out, x), stack' = <<passed(top)>> \o Tail(stack)
  PROVE  RunInv'
<1>1. /\ <<passed(top)>> \o Tail(stack) \in Seq(Activations)
      /\ Append(out, x) \in Seq(Output)
      /\ Append(out, x) \o Remaining(w, <<passed(top)>> \o Tail(stack)) = out \o Remaining(w, stack)
  BY WordWritten
<1> QED
  BY <1>1, StillRunning

LEMMA CallStep ==
  ASSUME NEW w, NEW y, WritesAll(w, y), Running(w), out \o Remaining(w, stack) = y,
         top.todo # <<>>, NEW b \in Activations,
         Writes(w, Head(top.todo), top.local) = RestIn(w, b),
         nodes' = nodes, phase' = "parsed",
         out' = out, stack' = <<b, passed(top)>> \o Tail(stack)
  PROVE  RunInv'
<1>1. /\ <<b, passed(top)>> \o Tail(stack) \in Seq(Activations)
      /\ Remaining(w, <<b, passed(top)>> \o Tail(stack)) = Remaining(w, stack)
  BY BlockCalled
<1>2. out' \in Seq(Output)
  BY DEF Running
<1>3. out' \o Remaining(w, stack') = y
  BY <1>1
<1> QED
  BY <1>1, <1>2, <1>3, StillRunning

LEMMA FailsStep == ASSUME fails PROVE RunInv'
<1>1. nodes' = nodes /\ phase' = "failed"
  BY DEF fails, parse_vars
<1> QED
  BY <1>1, RunIs

LEMMA TextStep ==
  ASSUME NEW w, NEW y, WritesAll(w, y), Running(w), out \o Remaining(w, stack) = y,
         phase = "parsed", top.todo # <<>>, text
  PROVE  RunInv'
<1>1. PICK n, local : n = Head(top.todo) /\ local = top.local
  OBVIOUS
<1>2. n # 1
  BY <1>1, DoneNext
<1>3. Writes(w, n, local) = <<"text">>
  BY <1>1, <1>2, WritesIs DEF text, Node1, kind_of
<1>4. "text" \in Output
  BY DEF Output
<1>5. /\ nodes' = nodes /\ phase' = "parsed"
      /\ out' = Append(out, "text") /\ stack' = <<passed(top)>> \o Tail(stack)
  BY DEF text, parse_vars
<1> QED
  BY <1>1, <1>3, <1>4, <1>5, WordStep

LEMMA SubstStep ==
  ASSUME NEW w, NEW y, WritesAll(w, y), Running(w), out \o Remaining(w, stack) = y,
         phase = "parsed", top.todo # <<>>, directive_subst
  PROVE  RunInv'
<1>1. PICK n, local : n = Head(top.todo) /\ local = top.local
  OBVIOUS
<1>2. n # 1 /\ local \in Locals
  BY <1>1, DoneNext
<1>3. PICK o : o = fetch_var(local, nodes[n].token.ref)
  OBVIOUS
<1>4. CASE o = NoObject
  <2>1. fails
    BY <1>1, <1>3, <1>4 DEF directive_subst, Node1
  <2> QED
    BY <2>1, FailsStep
<1>5. CASE o # NoObject
  <2>1. /\ kind_of(n) = "subst" /\ nodes' = nodes /\ phase' = "parsed"
        /\ out' = Append(out, render_mobject(o)) /\ stack' = <<passed(top)>> \o Tail(stack)
    BY <1>1, <1>3, <1>5 DEF directive_subst, Node1, kind_of, parse_vars
  <2>2. PICK x : x = render_mobject(o)
    OBVIOUS
  <2>3. x \in Output
    <3>1. o \in Bindable
      BY <1>2, <1>3, FetchIs
    <3> QED
      BY <2>2, <3>1 DEF Output
  <2>4. Writes(w, n, local) = <<x>>
    BY <1>2, <1>3, <2>1, <2>2, WritesIs
  <2> QED
    BY <1>1, <2>1, <2>2, <2>3, <2>4, WordStep
<1> QED
  BY <1>4, <1>5

LEMMA IfStep ==
  ASSUME NEW w, NEW y, WritesAll(w, y), Running(w), out \o Remaining(w, stack) = y,
         phase = "parsed", top.todo # <<>>, directive_if
  PROVE  RunInv'
<1>1. PICK n, local : n = Head(top.todo) /\ local = top.local
  OBVIOUS
<1>2. n # 1 /\ n \in 1..Len(nodes) /\ local \in Locals
  BY <1>1, DoneNext
<1>3. PICK o : o = fetch_var(local, nodes[n].token.ref)
  OBVIOUS
<1>4. CASE o = NoObject
  <2>1. fails
    BY <1>1, <1>3, <1>4 DEF directive_if, Node1
  <2> QED
    BY <2>1, FailsStep
<1>5. CASE o # NoObject
  <2>1. PICK list : list = IF mobject_as_boolean(o) THEN nodes[n].child_nodes
                           ELSE nodes[n].child_nodes_else
    OBVIOUS
  <2>2. PICK b : b = Activation(list, local)
    OBVIOUS
  <2>3. /\ kind_of(n) = "if" /\ nodes' = nodes /\ phase' = "parsed"
        /\ out' = out /\ stack' = <<b, passed(top)>> \o Tail(stack)
    BY <1>1, <1>3, <1>5, <2>1, <2>2 DEF directive_if, Node1, kind_of, parse_vars
  <2>4. IsTree(nodes) /\ AllWords(w)
    BY DEF Running
  <2>5. list \in Seq(2..Len(nodes))
    BY <1>2, <2>1, <2>4, ChildrenAre
  <2>6. b \in Activations /\ RestIn(w, b) = InTurn(list, w, local)
    BY <1>2, <2>2, <2>4, <2>5, ListActivation
  <2>7. Writes(w, n, local) = InTurn(list, w, local)
    BY <1>2, <1>3, <2>1, <2>3, WritesIs
  <2> QED
    BY <1>1, <2>3, <2>6, <2>7, CallStep
<1> QED
  BY <1>4, <1>5

LEMMA ForStep ==
  ASSUME NEW w, NEW y, WritesAll(w, y), Running(w), out \o Remaining(w, stack) = y,
         phase = "parsed", top.todo # <<>>, directive_for
  PROVE  RunInv'
<1>1. PICK n, local : n = Head(top.todo) /\ local = top.local
  OBVIOUS
<1>2. n # 1 /\ n \in 1..Len(nodes) /\ local \in Locals
  BY <1>1, DoneNext
<1>3. PICK o : o = fetch_var(local, nodes[n].token.ref)
  OBVIOUS
<1>4. CASE o.type # "MARRAY"
  <2>1. fails
    BY <1>1, <1>3, <1>4 DEF directive_for, Node1
  <2> QED
    BY <2>1, FailsStep
<1>5. CASE o.type = "MARRAY"
  <2>1. PICK items : items = o.items
    OBVIOUS
  <2>2. PICK b : b = [Activation(<<>>, Bound(local, nodes[n].token.var, NoObject, NoObject)) EXCEPT
                        !.loop = n, !.items = items]
    OBVIOUS
  <2>3. /\ kind_of(n) = "for" /\ nodes' = nodes /\ phase' = "parsed"
        /\ out' = out /\ stack' = <<b, passed(top)>> \o Tail(stack)
    BY <1>1, <1>3, <1>5, <2>1, <2>2 DEF directive_for, Node1, kind_of, parse_vars
  <2>4. IsTree(nodes) /\ AllWords(w)
    BY DEF Running
  <2>5. items \in Seq(Object)
    BY <1>2, <1>3, <1>5, <2>1, FetchIs
  <2>6. nodes[n].token.var \in LoopVar
    BY <1>2, <2>3, <2>4, LoopIs
  <2>7. b \in Activations /\ RestIn(w, b) = TurnsOf(n, w, local, items, 0)
    BY <1>2, <2>2, <2>4, <2>5, <2>6, LoopActivation
  <2>8. Writes(w, n, local) = TurnsOf(n, w, local, items, 0)
    BY <1>2, <1>3, <1>5, <2>1, <2>3, WritesIs
  <2> QED
    BY <1>1, <2>3, <2>7, <2>8, CallStep
<1> QED
  BY <1>4, <1>5

LEMMA BodyEnds ==
  ASSUME NEW w, NEW y, WritesAll(w, y), Running(w), out \o Remaining(w, stack) = y,
         phase = "parsed", top.todo = <<>>, UNCHANGED <<phase, parse_vars, out>>,
         stack' = IF top.items # <<>> THEN <<do_loop(top)>> \o Tail(stack) ELSE Tail(stack)
  PROVE  RunInv'
<1>1. nodes' = nodes /\ phase' = "parsed" /\ out' = out /\ out' \in Seq(Output)
  BY DEF parse_vars, Running
<1>2. CASE top.items # <<>>
  <2>1. /\ stack' \in Seq(Activations)
        /\ out \o Remaining(w, stack') = out \o Remaining(w, stack)
    BY <1>2, TurnTaken
  <2> QED
    BY <1>1, <2>1, StillRunning
<1>3. CASE top.items = <<>>
  <2>1. stack' \in Seq(Activations) /\ Remaining(w, stack') = Remaining(w, stack)
    BY <1>3, TopReturns
  <2>2. out' \o Remaining(w, stack') = y
    BY <1>1, <2>1
  <2> QED
    BY <1>1, <2>1, <2>2, StillRunning
<1> QED
  BY <1>2, <1>3

LEMMA NodeStep ==
  ASSUME IsTree(nodes), RunInv, ~starved, run_next
  PROVE  RunInv'
<1>1. PICK w, y : WritesAll(w, y)
  BY DEF WritesAll
<1>2. phase = "parsed" /\ stack # <<>>
  BY DEF run_next
<1>3. Running(w) /\ out \o Remaining(w, stack) = y
  BY <1>1, <1>2, RunningIs
<1>4. CASE top.todo # <<>>
  <2>1. text \/ directive_if \/ directive_for \/ directive_subst
    BY <1>4 DEF run_next
  <2> QED
    BY <1>1, <1>2, <1>3, <1>4, <2>1, TextStep, IfStep, ForStep, SubstStep
<1>5. CASE top.todo = <<>>
  <2>1. /\ stack' = IF top.items # <<>> THEN <<do_loop(top)>> \o Tail(stack) ELSE Tail(stack)
        /\ UNCHANGED <<phase, parse_vars, out>>
    BY <1>5 DEF run_next
  <2> QED
    BY <1>1, <1>2, <1>3, <1>5, <2>1, BodyEnds
<1> QED
  BY <1>4, <1>5

(* The root is called with nothing bound. *)
LEMMA RootWrites ==
  ASSUME nodes[1].token = Token("root"), NEW w, NEW local
  PROVE  Writes(w, 1, local) = InTurn(nodes[1].child_nodes, w, local)
<1>1. kind_of(1) = "root"
  BY DEF kind_of, Token
<1> QED
  BY <1>1 DEF Writes

LEMMA EndStep ==
  ASSUME IsTree(nodes), nodes[1].token = Token("root"), RunInv, parse_end
  PROVE  RunInv'
<1>1. nodes' = nodes /\ out' = <<>>
  BY DEF parse_end, parse_vars, RunInv
<1>2. CASE parent # 1
  <2>1. phase' = "failed"
    BY <1>2 DEF parse_end
  <2> QED
    BY <1>1, <2>1, RunIs
<1>3. CASE parent = 1
  <2>1. PICK w, y : WritesAll(w, y)
    BY DEF WritesAll
  <2>2. /\ AllWords(w) /\ y = Writes(w, 1, NoLocals) /\ 1 \in 1..Len(nodes) /\ NoLocals \in Locals
    BY <2>1, MeaningWords, NoLocalsIs DEF WritesAll
  <2>3. PICK list, b : list = nodes[1].child_nodes /\ b = Activation(list, NoLocals)
    OBVIOUS
  <2>4. phase' = "parsed" /\ stack' = <<b>>
    BY <1>3, <2>3 DEF parse_end
  <2>5. list \in Seq(2..Len(nodes))
    BY <2>2, <2>3, ChildrenAre
  <2>6. b \in Activations /\ RestIn(w, b) = InTurn(list, w, NoLocals)
    BY <2>2, <2>3, <2>5, ListActivation
  <2>7. y = RestIn(w, b)
    BY <2>2, <2>3, <2>6, RootWrites
  <2>8. PICK v \in Seq(Output) : v = RestIn(w, b)
    BY <2>2, <2>6, RestTyped
  <2>9. /\ <<b>> \o <<>> \in Seq(Activations)
        /\ Remaining(w, <<b>> \o <<>>) = RestIn(w, b) \o Remaining(w, <<>>)
    <3>1. <<>> \in Seq(Activations)
      OBVIOUS
    <3> QED
      BY <2>2, <2>6, <3>1, RemainingMore
  <2>10. <<b>> \o <<>> = <<b>>
    <3>1. <<b>> \in Seq(Activations)
      BY <2>6
    <3> QED
      BY <3>1, ConcatEmptySeq
  <2>11. v \o <<>> = v /\ <<>> \o v = v
    BY ConcatEmptySeq
  <2>12. Remaining(w, stack') = v
    BY <2>4, <2>8, <2>9, <2>10, <2>11, RemainingNone
  <2>13. out' \o Remaining(w, stack') = y /\ out' \in Seq(Output) /\ stack' \in Seq(Activations)
    BY <1>1, <2>4, <2>7, <2>8, <2>9, <2>10, <2>11, <2>12
  <2> QED
    BY <1>1, <2>1, <2>4, <2>13, StillRunning
<1> QED
  BY <1>2, <1>3

LEMMA DoneStep == ASSUME RunInv, ~starved, run_end PROVE RunInv'
<1>1. /\ phase = "parsed" /\ stack = <<>> /\ phase' = "done" /\ nodes' = nodes /\ out' = out
  BY DEF run_end, parse_vars
<1>2. out \in Seq(Output) /\ out \o Remaining(Meaning, stack) = Meaning[1][NoLocals]
  BY <1>1 DEF RunInv
<1>3. PICK w : w = Meaning
  OBVIOUS
<1>4. Remaining(w, stack) = <<>>
  BY <1>1, RemainingNone
<1>5. out \o <<>> = out
  BY <1>2, ConcatEmptySeq
<1>6. out' = Meaning[1][NoLocals]
  BY <1>1, <1>2, <1>3, <1>4, <1>5
<1> QED
  BY <1>1, <1>6, RunIs

(* Of a run in which a loop has ended early nothing is said.               *)
LEMMA StarvedStep ==
  ASSUME run_next \/ loop_starves \/ run_end, starved', nodes' = nodes
  PROVE  RunInv'
<1>1. phase' \in {"parsed", "done", "failed"}
  BY DEF run_next, text, directive_if, directive_for, directive_subst, fails, loop_starves, run_end
<1> QED
  BY <1>1, RunIs

LEMMA ParseOnlyStep ==
  ASSUME IsTree(nodes), RunInv, NEW token, mtemplate_parse(token)
  PROVE  RunInv'
<1>1. phase' \in {"parsing", "failed"} /\ out' = <<>>
  BY DEF mtemplate_parse, RunInv
<1> QED
  BY <1>1 DEF RunInv

LEMMA TemplateStep ==
  ASSUME ParseInv, RunInv, [TemplateNext]_template_vars
  PROVE  ParseInv' /\ RunInv'
<1>1. IsTree(nodes) /\ nodes[1].token = Token("root")
  BY DEF ParseInv, Parsing
<1>2. CASE \E token \in Template : mtemplate_parse(token)
  BY <1>1, <1>2, TokenRead, ParseOnlyStep
<1>3. CASE parse_end
  <2>1. UNCHANGED parse_vars
    BY <1>3 DEF parse_end
  <2> QED
    BY <1>1, <1>3, <2>1, ParseKept, EndStep
<1>4. CASE run_next
  <2>1. UNCHANGED <<parse_vars, starved>>
    BY <1>4 DEF run_next, text, directive_if, directive_for, directive_subst, fails
  <2>2. nodes' = nodes
    BY <2>1 DEF parse_vars
  <2>3. RunInv'
    BY <1>1, <1>4, <2>1, <2>2, NodeStep, StarvedStep
  <2> QED
    BY <2>1, <2>3, ParseKept
<1>5. CASE loop_starves
  <2>1. UNCHANGED parse_vars /\ starved'
    BY <1>5 DEF loop_starves
  <2>2. nodes' = nodes
    BY <2>1 DEF parse_vars
  <2>3. RunInv'
    BY <1>5, <2>1, <2>2, StarvedStep
  <2> QED
    BY <2>1, <2>3, ParseKept
<1>6. CASE run_fails
  <2>1. fails /\ UNCHANGED parse_vars
    BY <1>6 DEF run_fails, fails
  <2> QED
    BY <2>1, ParseKept, FailsStep
<1>7. CASE run_end
  <2>1. UNCHANGED <<parse_vars, starved>>
    BY <1>7 DEF run_end
  <2>2. nodes' = nodes
    BY <2>1 DEF parse_vars
  <2>3. RunInv'
    BY <1>7, <2>1, <2>2, DoneStep, StarvedStep
  <2> QED
    BY <2>1, <2>3, ParseKept
<1>8. CASE UNCHANGED template_vars
  <2>1. /\ UNCHANGED parse_vars /\ phase' = phase /\ stack' = stack /\ out' = out
        /\ starved' = starved
    BY <1>8 DEF template_vars
  <2>2. nodes' = nodes
    BY <2>1 DEF parse_vars
  <2>3. RunInv'
    <3>1. PICK w : w = Meaning
      OBVIOUS
    <3>2. /\ phase' = "parsing" => out' = <<>>
          /\ phase' = "parsed" /\ ~starved' =>
               /\ stack' \in Seq(Activations) /\ out' \in Seq(Output)
               /\ out' \o Remaining(Meaning, stack') = Meaning[1][NoLocals]
          /\ phase' = "done" /\ ~starved' => out' = Meaning[1][NoLocals]
      <4>1. Remaining(w, stack') = Remaining(w, stack)
        BY <2>1
      <4> QED
        BY <2>1, <3>1, <4>1 DEF RunInv
    <3> QED
      BY <2>2, <3>2, RunIs
  <2> QED
    BY <2>1, <2>3, ParseKept
<1> QED
  BY <1>2, <1>3, <1>4, <1>5, <1>6, <1>7, <1>8 DEF TemplateNext

(* The tree that mtemplate_parse() makes of a template is that template,   *)
(* but for its comments, and what a run that succeeds has written is what  *)
(* the tree means, if none of its loops ended for want of memory: for all  *)
(* templates, objects and depths of nested loops and conditions.           *)
THEOREM TemplatesAreRendered == TemplateSpec => []Rendered
<1>1. TemplateInit => ParseInv /\ RunInv
  <2>1. TemplateInit => ParseInv
    BY ParseInit
  <2>2. TemplateInit => RunInv
    BY DEF TemplateInit, RunInv
  <2> QED
    BY <2>1, <2>2
<1>2. ParseInv /\ RunInv /\ [TemplateNext]_template_vars => (ParseInv /\ RunInv)'
  BY TemplateStep
<1>3. ParseInv /\ RunInv => Rendered
  BY DEF ParseInv, RunInv, Rendered
<1> QED
  BY <1>1, <1>2, <1>3, PTL DEF TemplateSpec
=============================================================================
