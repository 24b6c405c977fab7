--------------------------- MODULE SimpleDbProofs ---------------------------
(***************************************************************************)
(* Proofs about the red-black tree of tree.h and db_simple, which keeps its *)
(* keys in one: for any finite number of keys of any set of integers, and  *)
(* any sequence of calls.                                                  *)
(*                                                                         *)
(* A tree is described by the set N of its nodes, by what hangs on each    *)
(* (D) and by a height for each, which counts black nodes (h).  That a     *)
(* macro keeps them is shown by those of the tree before: nothing is       *)
(* proved by induction over trees.  The functions that the loops compute   *)
(* are shown to exist by counting what hangs on a node.                    *)
(***************************************************************************)
EXTENDS SimpleDb, SequenceTheorems, FiniteSetTheorems, TLAPS

Trees ==
  [left : [Node -> Node \cup {NULL}], right : [Node -> Node \cup {NULL}],
   parent : [Node -> Node \cup {NULL}], red : SUBSET Node, root : Node \cup {NULL}]

(* x lies on the side s of n.                                              *)
Toward(s, n, x) == IF s = "left" THEN x < n ELSE n < x

Below(t, D, s, n) == IF t[s][n] = NULL THEN {} ELSE D[t[s][n]]

(* D[n] is what hangs on n, n included: the tree hangs together, and is in *)
(* order.                                                                  *)
Hangs(t, N, D, n) ==
  /\ \A s \in Side : t[s][n] # NULL =>
       /\ t[s][n] \in N /\ t.parent[t[s][n]] = n
       /\ \A x \in D[t[s][n]] : Toward(s, n, x)
  /\ n # t.root => t.parent[n] \in N /\ \E s \in Side : t[s][t.parent[n]] = n
  /\ D[n] = {n} \cup Below(t, D, "left", n) \cup Below(t, D, "right", n)

Linked(t, N, D) ==
  /\ t \in Trees /\ N \in SUBSET Node /\ IsFiniteSet(N) /\ D \in [N -> SUBSET N]
  /\ IF N = {} THEN t.root = NULL
     ELSE t.root \in N /\ t.parent[t.root] = NULL /\ D[t.root] = N
  /\ \A n \in N : Hangs(t, N, D, n)

(* The two sides.                                                          *)
LEMMA SideIs ==
  ASSUME NEW s \in Side
  PROVE  Other(s) \in Side /\ Other(s) # s /\ Side = {s, Other(s)} /\ Other(Other(s)) = s
BY DEF Side, Other

LEMMA TreesIs ==
  ASSUME NEW t \in Trees, NEW s \in Side
  PROVE  t[s] \in [Node -> Node \cup {NULL}] /\ t.parent \in [Node -> Node \cup {NULL}]
         /\ t.red \in SUBSET Node /\ t.root \in Node \cup {NULL}
         /\ (s = "left" => t[s] = t.left) /\ (s = "right" => t[s] = t.right)
BY DEF Trees, Side

(* What a step of a macro assigns. *)
PutRoot(t, x) == [t EXCEPT !.root = x]
PutRed(t, x) == [t EXCEPT !.red = x]

IsPut(u, t, s, n, x) ==
  /\ u \in Trees /\ u.parent = t.parent /\ u.red = t.red /\ u.root = t.root
  /\ \A a \in Side : \A m \in Node : u[a][m] = IF a = s /\ m = n THEN x ELSE t[a][m]
IsPutRoot(u, t, x) ==
  /\ u \in Trees /\ u.parent = t.parent /\ u.red = t.red /\ u.root = x
  /\ \A a \in Side : \A m \in Node : u[a][m] = t[a][m]
IsPutRed(u, t, x) ==
  /\ u \in Trees /\ u.parent = t.parent /\ u.red = x /\ u.root = t.root
  /\ \A a \in Side : \A m \in Node : u[a][m] = t[a][m]
IsPutUp(u, t, n, x) ==
  /\ u \in Trees /\ u.red = t.red /\ u.root = t.root
  /\ \A a \in Side : \A m \in Node : u[a][m] = t[a][m]
  /\ \A m \in Node : u.parent[m] = IF m = n THEN x ELSE t.parent[m]

LEMMA PutIs ==
  ASSUME NEW t \in Trees, NEW s \in Side, NEW n \in Node, NEW x \in Node \cup {NULL}
  PROVE  IsPut(SetChild(t, s, n, x), t, s, n, x)
<1>1. PICK u : u = [t EXCEPT ![s][n] = x]
  OBVIOUS
<1>2. /\ u \in Trees /\ u[s] = [t[s] EXCEPT ![n] = x] /\ u[Other(s)] = t[Other(s)]
      /\ u.parent = t.parent /\ u.red = t.red /\ u.root = t.root
  BY <1>1 DEF Trees, Side, Other
<1>3. t[s] \in [Node -> Node \cup {NULL}]
  BY TreesIs
<1>4. \A a \in Side : \A m \in Node : u[a][m] = IF a = s /\ m = n THEN x ELSE t[a][m]
  BY <1>2, <1>3, SideIs
<1> QED
  BY <1>1, <1>2, <1>4 DEF SetChild, IsPut

LEMMA PutRootIs ==
  ASSUME NEW t \in Trees, NEW x \in Node \cup {NULL}
  PROVE  IsPutRoot(PutRoot(t, x), t, x)
BY DEF Trees, Side, PutRoot, IsPutRoot

LEMMA SetParentIs ==
  ASSUME NEW t \in Trees, NEW n \in Node \cup {NULL}, NEW x \in Node \cup {NULL}
  PROVE  IsPutUp(SetParent(t, n, x), t, n, x)
<1>1. t.parent \in [Node -> Node \cup {NULL}] /\ NULL \notin Node
  BY NodeAssumption DEF Trees
<1>2. CASE n = NULL
  BY <1>1, <1>2 DEF SetParent, IsPutUp
<1>3. CASE n # NULL
  <2>1. PICK u : u = [t EXCEPT !.parent[n] = x]
    OBVIOUS
  <2>2. u = SetParent(t, n, x)
    BY <1>3, <2>1 DEF SetParent
  <2>3. /\ u \in Trees /\ u.left = t.left /\ u.right = t.right
        /\ u.parent = [t.parent EXCEPT ![n] = x] /\ u.red = t.red /\ u.root = t.root
    BY <1>3, <2>1 DEF Trees
  <2>4. \A a \in Side : u[a] = t[a]
    BY <2>3, TreesIs DEF Side
  <2>5. \A m \in Node : u.parent[m] = IF m = n THEN x ELSE t.parent[m]
    BY <1>1, <2>3
  <2> QED
    BY <2>2, <2>3, <2>4, <2>5 DEF IsPutUp
<1> QED
  BY <1>2, <1>3

-----------------------------------------------------------------------------
(* What hangs together. *)
LEMMA HangsIs ==
  ASSUME NEW t, NEW N, NEW D, Linked(t, N, D), NEW n \in N
  PROVE  /\ n \in Node /\ n \in Int /\ n # NULL /\ n \in D[n] /\ D[n] \in SUBSET N
         /\ \A s \in Side : t[s][n] \in N \cup {NULL}
         /\ \A s \in Side : t[s][n] # NULL =>
              /\ t[s][n] \in N /\ t.parent[t[s][n]] = n /\ t[s][n] # n /\ t[s][n] # t.root
              /\ t[s][n] # t[Other(s)][n]
              /\ D[t[s][n]] \subseteq D[n] /\ n \notin D[t[s][n]]
              /\ \A x \in D[t[s][n]] : Toward(s, n, x)
         /\ IF n = t.root THEN t.parent[n] = NULL
            ELSE t.parent[n] \in N /\ t.parent[n] # n /\ \E s \in Side : t[s][t.parent[n]] = n
         /\ \A s \in Side : D[n] = {n} \cup Below(t, D, s, n) \cup Below(t, D, Other(s), n)
<1>1. /\ t \in Trees /\ N \in SUBSET Node /\ D \in [N -> SUBSET N]
      /\ t.root \in N /\ t.parent[t.root] = NULL /\ D[t.root] = N
      /\ \A m \in N : Hangs(t, N, D, m)
  BY DEF Linked
<1>2. n \in Node /\ n \in Int /\ n # NULL /\ N \subseteq Int
  BY <1>1, NodeAssumption
<1>3. \A m \in N : D[m] \in SUBSET N
  BY <1>1
<1>4. Hangs(t, N, D, n)
  BY <1>1
<1>5. n \in D[n]
  BY <1>4 DEF Hangs
<1>6. \A s \in Side : D[n] = {n} \cup Below(t, D, s, n) \cup Below(t, D, Other(s), n)
  BY <1>4 DEF Hangs, Side, Other
<1>7. ASSUME NEW s \in Side, NEW c, c = t[s][n], c # NULL
      PROVE  /\ c \in N /\ t.parent[c] = n /\ c # n /\ c # t.root
             /\ c # t[Other(s)][n]
             /\ D[c] \subseteq D[n] /\ n \notin D[c]
             /\ \A x \in D[c] : Toward(s, n, x)
  <2>1. c \in N /\ t.parent[c] = n /\ \A x \in D[c] : Toward(s, n, x)
    BY <1>4, <1>7 DEF Hangs
  <2>2. c # t.root
    BY <1>1, <1>2, <2>1
  <2>3. D[c] \subseteq D[n]
    BY <1>6, <1>7 DEF Below
  <2>4. ~Toward(s, n, n)
    BY <1>2 DEF Toward
  <2>5. c \in D[c]
    BY <1>1, <2>1 DEF Hangs
  <2>6. c # t[Other(s)][n]
    <3>1. Toward(s, n, c) /\ c \in Int
      BY <1>2, <2>1, <2>5
    <3>2. ~Toward(Other(s), n, c)
      BY <1>2, <3>1 DEF Toward, Side, Other
    <3>3. ASSUME c = t[Other(s)][n]
          PROVE  FALSE
      <4>1. Other(s) \in Side
        BY SideIs
      <4>2. \A x \in D[c] : Toward(Other(s), n, x)
        BY <1>4, <1>7, <3>3, <4>1 DEF Hangs
      <4> QED
        BY <2>5, <3>2, <4>2
    <3> QED
      BY <3>3
  <2> QED
    BY <2>1, <2>2, <2>3, <2>4, <2>5, <2>6
<1>8. IF n = t.root THEN t.parent[n] = NULL
      ELSE t.parent[n] \in N /\ t.parent[n] # n /\ \E s \in Side : t[s][t.parent[n]] = n
  <2>1. CASE n = t.root
    BY <1>1, <2>1
  <2>2. CASE n # t.root
    <3>1. t.parent[n] \in N
      BY <1>4, <2>2 DEF Hangs
    <3>2. PICK s \in Side : t[s][t.parent[n]] = n
      BY <1>4, <2>2 DEF Hangs
    <3>3. t.parent[n] # n
      BY <1>2, <1>7, <3>2
    <3> QED
      BY <2>2, <3>1, <3>2, <3>3
  <2> QED
    BY <2>1, <2>2
<1>9. \A s \in Side : t[s][n] \in N \cup {NULL}
  BY <1>7
<1>10. \A s \in Side : t[s][n] # NULL =>
              /\ t[s][n] \in N /\ t.parent[t[s][n]] = n /\ t[s][n] # n /\ t[s][n] # t.root
              /\ t[s][n] # t[Other(s)][n]
              /\ D[t[s][n]] \subseteq D[n] /\ n \notin D[t[s][n]]
              /\ \A x \in D[t[s][n]] : Toward(s, n, x)
  BY <1>7
<1> QED
  BY <1>2, <1>3, <1>5, <1>6, <1>8, <1>9, <1>10

-----------------------------------------------------------------------------
(* Relink(): where n hung, m hangs.                                        *)
LEMMA SideOfIs ==
  ASSUME NEW t \in Trees, NEW n, NEW s \in Side, t[s][t.parent[n]] = n, t[Other(s)][t.parent[n]] # n
  PROVE  SideOf(t, n) = s
BY DEF SideOf, Side, Other

IsRelinked(u, t, n, m) ==
  /\ u \in Trees /\ u.parent = t.parent /\ u.red = t.red
  /\ u.root = IF t.parent[n] = NULL THEN m ELSE t.root
  /\ \A a \in Side : \A k \in Node :
       u[a][k] = IF t.parent[n] = k /\ t[a][k] = n THEN m ELSE t[a][k]

LEMMA RelinkIs ==
  ASSUME NEW t \in Trees, NEW n \in Node, NEW m \in Node \cup {NULL},
         t.parent[n] # NULL => \E s \in Side : t[s][t.parent[n]] = n /\ t[Other(s)][t.parent[n]] # n
  PROVE  IsRelinked(Relink(t, n, m), t, n, m)
<1>1. t.parent[n] \in Node \cup {NULL} /\ NULL \notin Node
  BY NodeAssumption DEF Trees
<1>2. CASE t.parent[n] = NULL
  <2>1. Relink(t, n, m) = PutRoot(t, m)
    BY <1>2 DEF Relink, PutRoot
  <2>2. IsPutRoot(PutRoot(t, m), t, m)
    BY PutRootIs
  <2> QED
    BY <1>1, <1>2, <2>1, <2>2 DEF IsPutRoot, IsRelinked
<1>3. CASE t.parent[n] # NULL
  <2>1. PICK p \in Node : p = t.parent[n]
    BY <1>1, <1>3
  <2>2. PICK s \in Side : t[s][p] = n /\ t[Other(s)][p] # n
    BY <1>3, <2>1
  <2>3. SideOf(t, n) = s
    BY <2>1, <2>2, SideOfIs
  <2>4. PICK u : u = SetChild(t, s, p, m)
    OBVIOUS
  <2>5. u = Relink(t, n, m)
    BY <1>3, <2>1, <2>3, <2>4 DEF Relink, SetChild
  <2>6. IsPut(u, t, s, p, m)
    BY <2>4, PutIs
  <2>7. ASSUME NEW a \in Side, NEW k \in Node
        PROVE  u[a][k] = IF p = k /\ t[a][k] = n THEN m ELSE t[a][k]
    BY <2>2, <2>6, SideIs DEF IsPut
  <2> QED
    BY <1>3, <2>1, <2>5, <2>6, <2>7 DEF IsPut, IsRelinked
<1> QED
  BY <1>2, <1>3

-----------------------------------------------------------------------------
(* Rotate() *)
Rotated(r, t, n, u, s) ==
  /\ r \in Trees /\ r.red = t.red
  /\ r.root = IF n = t.root THEN u ELSE t.root
  /\ \A a \in Side : \A m \in Node :
       r[a][m] = IF a = Other(s) /\ m = n THEN t[s][u]
                 ELSE IF a = s /\ m = u THEN n
                 ELSE IF m = t.parent[n] /\ t[a][m] = n THEN u
                 ELSE t[a][m]
  /\ \A m \in Node :
       r.parent[m] = IF m = n THEN u ELSE IF m = u THEN t.parent[n]
                     ELSE IF m = t[s][u] THEN n ELSE t.parent[m]

LEMMA RotateSteps ==
  ASSUME NEW t, NEW n, NEW s, NEW o, o = Other(s), NEW u, u = t[o][n], NEW i, i = t[s][u]
  PROVE  Rotate(t, n, s) = TurnRound(t, n, u, i, s)
BY DEF Rotate

LEMMA TurnSteps ==
  ASSUME NEW t, NEW n, NEW s, NEW o, o = Other(s), NEW u, NEW i
  PROVE  TurnRound(t, n, u, i, s) =
           SetChild(SetParent(SetParent(Relink(SetParent(SetChild(t, o, n, i), i, n), n, u), u, t.parent[n]),
                              n, u), s, u, n)
BY DEF TurnRound

LEMMA RotateIs ==
  ASSUME NEW t, NEW N, NEW D, Linked(t, N, D), NEW n \in N, NEW s \in Side,
         NEW u, u = t[Other(s)][n], u # NULL
  PROVE  Rotated(Rotate(t, n, s), t, n, u, s)
<1>1. t \in Trees /\ N \in SUBSET Node /\ NULL \notin Node
  BY NodeAssumption DEF Linked
<1>2. PICK o \in Side : o = Other(s) /\ s = Other(o) /\ s # o /\ \A a \in Side : a \in {s, o}
  BY SideIs
<1>3. u \in N /\ t.parent[u] = n /\ u # n /\ u # t.root /\ u # t[s][n]
  BY <1>2, HangsIs
<1>4. PICK i : i = t[s][u]
  OBVIOUS
<1>5. i \in N \cup {NULL} /\ (i # NULL => t.parent[i] = u /\ i # u /\ i # t[o][u])
  <2>1. t[s][u] \in N \cup {NULL}
    BY <1>3, HangsIs
  <2>2. t[s][u] # NULL => t.parent[t[s][u]] = u /\ t[s][u] # u /\ t[s][u] # t[o][u]
    BY <1>2, <1>3, HangsIs
  <2> QED
    BY <1>4, <2>1, <2>2
<1>6. i # n
  <2>1. i # NULL => D[i] \subseteq D[u] /\ i \in D[i] /\ n \notin D[u]
    BY <1>2, <1>3, <1>4, <1>5, HangsIs
  <2> QED
    BY <1>1, <2>1
<1>7. PICK p : p = t.parent[n]
  OBVIOUS
<1>8. IF n = t.root THEN p = NULL
      ELSE p \in N /\ p # n /\ \E a \in Side : t[a][p] = n /\ t[Other(a)][p] # n
  <2>1. IF n = t.root THEN p = NULL
        ELSE p \in N /\ p # n /\ \E a \in Side : t[a][p] = n
    BY <1>7, HangsIs
  <2>2. p \in N => \A a \in Side : t[a][p] = n => t[Other(a)][p] # n
    BY <1>1, HangsIs
  <2> QED
    BY <2>1, <2>2
<1>9. p # u
  <2>1. \A a \in Side : t[a][u] # NULL => t[a][u] \in D[u]
    <3>1. ASSUME NEW a \in Side, NEW c, c = t[a][u], c # NULL
          PROVE  c \in D[u]
      <4>1. c \in N /\ D[c] \subseteq D[u]
        BY <1>3, <3>1, HangsIs
      <4> QED
        BY <4>1, HangsIs
    <3> QED
      BY <3>1
  <2>2. n \notin D[u]
    BY <1>2, HangsIs
  <2> QED
    BY <1>1, <1>3, <1>8, <2>1, <2>2
<1>10. PICK t0 : t0 = SetChild(t, o, n, i)
  OBVIOUS
<1>11. IsPut(t0, t, o, n, i)
  BY <1>1, <1>5, <1>10, PutIs
<1>12. PICK t1 : t1 = SetParent(t0, i, n)
  OBVIOUS
<1>13. IsPutUp(t1, t0, i, n)
  <2>1. t0 \in Trees
    BY <1>11 DEF IsPut
  <2> QED
    BY <1>1, <1>5, <1>12, <2>1, SetParentIs
<1>14. /\ t1 \in Trees /\ t1.red = t.red /\ t1.root = t.root
       /\ \A a \in Side : \A m \in Node : t1[a][m] = IF a = o /\ m = n THEN i ELSE t[a][m]
       /\ \A m \in Node : t1.parent[m] = IF m = i THEN n ELSE t.parent[m]
  BY <1>11, <1>13 DEF IsPut, IsPutUp
<1>15. t1.parent[n] = p
  BY <1>1, <1>6, <1>7, <1>14
<1>16. PICK t2 : t2 = Relink(t1, n, u)
  OBVIOUS
<1>17. IsRelinked(t2, t1, n, u)
  <2>1. t1.parent[n] # NULL => \E a \in Side : t1[a][t1.parent[n]] = n /\ t1[Other(a)][t1.parent[n]] # n
    <3>1. CASE n = t.root
      BY <1>8, <1>15, <3>1
    <3>2. CASE n # t.root
      <4>1. PICK a \in Side : t[a][p] = n /\ t[Other(a)][p] # n /\ Other(a) \in Side
        BY <1>8, <3>2, SideIs
      <4>2. p \in Node /\ p # n
        BY <1>1, <1>8, <3>2
      <4>3. \A b \in Side : t1[b][p] = t[b][p]
        BY <1>14, <4>2
      <4> QED
        BY <1>15, <4>1, <4>3
    <3> QED
      BY <3>1, <3>2
  <2>2. t1 \in Trees /\ n \in Node /\ u \in Node \cup {NULL}
    BY <1>1, <1>3, <1>14
  <2> QED
    BY <1>16, <2>1, <2>2, RelinkIs
<1>18. PICK t3 : t3 = SetParent(t2, u, p)
  OBVIOUS
<1>19. IsPutUp(t3, t2, u, p)
  <2>1. t2 \in Trees /\ u \in Node \cup {NULL} /\ p \in Node \cup {NULL}
    BY <1>1, <1>3, <1>8, <1>17 DEF IsRelinked
  <2> QED
    BY <1>18, <2>1, SetParentIs
<1>20. PICK t4 : t4 = SetParent(t3, n, u)
  OBVIOUS
<1>21. IsPutUp(t4, t3, n, u)
  <2>1. t3 \in Trees /\ n \in Node \cup {NULL} /\ u \in Node \cup {NULL}
    BY <1>1, <1>3, <1>19 DEF IsPutUp
  <2> QED
    BY <1>20, <2>1, SetParentIs
<1>22. PICK r : r = SetChild(t4, s, u, n)
  OBVIOUS
<1>23. IsPut(r, t4, s, u, n)
  <2>1. t4 \in Trees /\ u \in Node /\ n \in Node \cup {NULL}
    BY <1>1, <1>3, <1>21 DEF IsPutUp
  <2> QED
    BY <1>22, <2>1, PutIs
<1>24. r = Rotate(t, n, s)
  <2>1. o = Other(s) /\ u = t[o][n] /\ i = t[s][u]
    BY <1>2, <1>4
  <2>2. Rotate(t, n, s) =
          SetChild(SetParent(SetParent(Relink(SetParent(SetChild(t, o, n, i), i, n), n, u), u, t.parent[n]),
                             n, u), s, u, n)
    BY <2>1, RotateSteps, TurnSteps
  <2>3. r = SetChild(SetParent(SetParent(Relink(SetParent(SetChild(t, o, n, i), i, n), n, u), u, p),
                               n, u), s, u, n)
    BY <1>10, <1>12, <1>16, <1>18, <1>20, <1>22
  <2> QED
    BY <1>7, <2>2, <2>3
<1>25. r.red = t.red /\ r \in Trees /\ r.root = IF n = t.root THEN u ELSE t.root
  <2>1. t2.root = IF p = NULL THEN u ELSE t.root
    BY <1>14, <1>15, <1>17 DEF IsRelinked
  <2>2. p = NULL <=> n = t.root
    BY <1>1, <1>8
  <2> QED
    BY <1>14, <1>17, <1>19, <1>21, <1>23, <2>1, <2>2 DEF IsRelinked, IsPutUp, IsPut
<1>26. ASSUME NEW m \in Node
       PROVE  r.parent[m] = IF m = n THEN u ELSE IF m = u THEN p ELSE IF m = i THEN n ELSE t.parent[m]
  <2>1. t2.parent[m] = IF m = i THEN n ELSE t.parent[m]
    BY <1>14, <1>17 DEF IsRelinked
  <2>2. t3.parent[m] = IF m = u THEN p ELSE t2.parent[m]
    BY <1>19 DEF IsPutUp
  <2>3. t4.parent[m] = IF m = n THEN u ELSE t3.parent[m]
    BY <1>21 DEF IsPutUp
  <2>4. r.parent[m] = t4.parent[m]
    BY <1>23 DEF IsPut
  <2> QED
    BY <2>1, <2>2, <2>3, <2>4
<1>27. ASSUME NEW a \in Side, NEW m \in Node
       PROVE  r[a][m] = IF a = o /\ m = n THEN i ELSE IF a = s /\ m = u THEN n
                        ELSE IF m = p /\ t[a][m] = n THEN u ELSE t[a][m]
  <2>1. t2[a][m] = IF a = o /\ m = n THEN i ELSE IF m = p /\ t[a][m] = n THEN u ELSE t[a][m]
    <3>1. t1[a][m] = IF a = o /\ m = n THEN i ELSE t[a][m]
      BY <1>14
    <3>2. t2[a][m] = IF p = m /\ t1[a][m] = n THEN u ELSE t1[a][m]
      BY <1>15, <1>17 DEF IsRelinked
    <3> QED
      BY <1>6, <3>1, <3>2
  <2>2. t4[a][m] = t2[a][m]
    BY <1>19, <1>21 DEF IsPutUp
  <2>3. r[a][m] = IF a = s /\ m = u THEN n ELSE t4[a][m]
    BY <1>23 DEF IsPut
  <2> QED
    BY <1>2, <2>1, <2>2, <2>3
<1>28. Rotated(r, t, n, u, s)
  <2>1. \A a \in Side : \A m \in Node :
         r[a][m] = IF a = Other(s) /\ m = n THEN t[s][u]
                   ELSE IF a = s /\ m = u THEN n
                   ELSE IF m = t.parent[n] /\ t[a][m] = n THEN u
                   ELSE t[a][m]
    BY <1>2, <1>4, <1>7, <1>27, ZenonT(60)
  <2>2. \A m \in Node :
         r.parent[m] = IF m = n THEN u ELSE IF m = u THEN t.parent[n]
                       ELSE IF m = t[s][u] THEN n ELSE t.parent[m]
    BY <1>4, <1>7, <1>26
  <2> QED
    BY <1>25, <2>1, <2>2 DEF Rotated
<1> QED
  BY <1>24, <1>28

-----------------------------------------------------------------------------
IsKid(t, N, D, n, s, c) ==
  /\ c \in N /\ t.parent[c] = n /\ c # n /\ c # t.root /\ c # t[Other(s)][n]
  /\ c \in D[c] /\ D[c] \subseteq D[n] /\ n \notin D[c]
  /\ \A x \in D[c] : Toward(s, n, x)

(* A child, and the parent, of a node of the tree.                         *)
LEMMA KidIs ==
  ASSUME NEW t, NEW N, NEW D, Linked(t, N, D), NEW n \in N, NEW s \in Side,
         NEW c, c = t[s][n], c # NULL
  PROVE  IsKid(t, N, D, n, s, c)
<1>1. /\ t[s][n] \in N /\ t.parent[t[s][n]] = n /\ t[s][n] # n /\ t[s][n] # t.root
      /\ t[s][n] # t[Other(s)][n]
      /\ D[t[s][n]] \subseteq D[n] /\ n \notin D[t[s][n]]
      /\ \A x \in D[t[s][n]] : Toward(s, n, x)
  BY HangsIs
<1>2. c \in N
  BY <1>1
<1>3. c \in D[c]
  BY <1>2, HangsIs
<1> QED
  BY <1>1, <1>3 DEF IsKid

LEMMA UpIs ==
  ASSUME NEW t, NEW N, NEW D, Linked(t, N, D), NEW n \in N, n # t.root, NEW p, p = t.parent[n]
  PROVE  p \in N /\ p # n /\ \E s \in Side : t[s][p] = n /\ t[Other(s)][p] # n /\ Other(s) \in Side
<1>1. p \in N /\ p # n /\ \E s \in Side : t[s][p] = n
  BY HangsIs
<1>2. PICK s \in Side : t[s][p] = n
  BY <1>1
<1>3. n # NULL
  BY HangsIs
<1>4. n # t[Other(s)][p]
  BY <1>1, <1>2, <1>3, KidIs DEF IsKid
<1> QED
  BY <1>1, <1>2, <1>4, SideIs

LEMMA BelowIs ==
  ASSUME NEW t, NEW N, NEW D, Linked(t, N, D), NEW n \in N, NEW s \in Side
  PROVE  D[n] = {n} \cup Below(t, D, s, n) \cup Below(t, D, Other(s), n)
BY HangsIs

LEMMA TowardIs ==
  ASSUME NEW s \in Side, NEW x \in Int, NEW y \in Int, NEW z \in Int
  PROVE  /\ Toward(s, x, y) <=> Toward(Other(s), y, x)
         /\ Toward(s, x, y) /\ Toward(s, y, z) => Toward(s, x, z)
         /\ ~Toward(s, x, x) /\ (x # y => Toward(s, x, y) \/ Toward(Other(s), x, y))
         /\ ~(Toward(s, x, y) /\ Toward(Other(s), x, y))
BY DEF Toward, Side, Other

(* What hangs on whom when n and u have changed places. *)
Swapped(t, N, D, n, u, s) ==
  [m \in N |-> IF m = u THEN D[n]
               ELSE IF m = n THEN {n} \cup Below(t, D, s, n) \cup Below(t, D, s, u)
               ELSE D[m]]

LEMMA RotatedHangs ==
  ASSUME NEW t, NEW N, NEW D, Linked(t, N, D), NEW n \in N, NEW s \in Side,
         NEW u, u = t[Other(s)][n], u # NULL, NEW r, Rotated(r, t, n, u, s)
  PROVE  Linked(r, N, Swapped(t, N, D, n, u, s))
<1>1. /\ t \in Trees /\ N \in SUBSET Node /\ NULL \notin Node /\ IsFiniteSet(N) /\ N \subseteq Int
      /\ D \in [N -> SUBSET N]
      /\ t.root \in N /\ t.parent[t.root] = NULL /\ D[t.root] = N
  BY NodeAssumption DEF Linked
<1>2. PICK o \in Side : o = Other(s) /\ s = Other(o) /\ s # o /\ \A a \in Side : a \in {s, o}
  BY SideIs
<1>3. /\ u \in N /\ t.parent[u] = n /\ u # n /\ u # t.root /\ u # t[s][n]
      /\ u \in D[u] /\ D[u] \subseteq D[n] /\ n \notin D[u] /\ \A x \in D[u] : Toward(o, n, x)
  BY <1>2, KidIs DEF IsKid
<1>4. PICK a, i, b, p : a = t[s][n] /\ i = t[s][u] /\ b = t[o][u] /\ p = t.parent[n]
  OBVIOUS
<1>5. a # NULL => /\ a \in N /\ t.parent[a] = n /\ a # n /\ a # u /\ D[a] \subseteq D[n]
                  /\ \A x \in D[a] : Toward(s, n, x)
  <2>1. a # NULL => IsKid(t, N, D, n, s, a)
    BY <1>4, KidIs
  <2> QED
    BY <1>2, <1>3, <2>1 DEF IsKid
<1>6. i # NULL => /\ i \in N /\ t.parent[i] = u /\ i # u /\ i # b /\ i \in D[i] /\ D[i] \subseteq D[u]
                  /\ \A x \in D[i] : Toward(s, u, x)
  <2>1. i # NULL => IsKid(t, N, D, u, s, i)
    BY <1>3, <1>4, KidIs
  <2> QED
    BY <1>2, <1>4, <2>1 DEF IsKid
<1>7. b # NULL => /\ b \in N /\ t.parent[b] = u /\ b # u /\ b # i /\ b \in D[b] /\ D[b] \subseteq D[u]
                  /\ \A x \in D[b] : Toward(o, u, x)
  <2>1. b # NULL => IsKid(t, N, D, u, o, b)
    BY <1>3, <1>4, KidIs
  <2> QED
    BY <1>2, <1>4, <2>1 DEF IsKid
<1>8. i # n /\ b # n
  BY <1>1, <1>3, <1>6, <1>7
<1>9. IF n = t.root THEN p = NULL
      ELSE p \in N /\ p # n /\ \E x \in Side : t[x][p] = n
  <2>1. n # t.root => p \in N /\ p # n /\ \E x \in Side : t[x][p] = n
    BY <1>4, UpIs
  <2> QED
    BY <1>1, <1>4, <2>1
<1>10. p # u
  <2>1. \A x \in Side : t[x][u] # n
    BY <1>2, <1>4, <1>8
  <2> QED
    BY <1>1, <1>3, <1>9, <2>1
<1>11. /\ r \in Trees /\ r.root = IF n = t.root THEN u ELSE t.root
       /\ \A x \in Side : \A m \in N :
            r[x][m] = IF x = o /\ m = n THEN i ELSE IF x = s /\ m = u THEN n
                      ELSE IF m = p /\ t[x][m] = n THEN u ELSE t[x][m]
       /\ \A m \in N :
            r.parent[m] = IF m = n THEN u ELSE IF m = u THEN p ELSE IF m = i THEN n ELSE t.parent[m]
  <2>1. \A m \in N : m \in Node
    BY <1>1
  <2>2. /\ r \in Trees /\ r.root = IF n = t.root THEN u ELSE t.root
        /\ \A x \in Side : \A m \in Node :
            r[x][m] = IF x = Other(s) /\ m = n THEN t[s][u] ELSE IF x = s /\ m = u THEN n
                      ELSE IF m = t.parent[n] /\ t[x][m] = n THEN u ELSE t[x][m]
        /\ \A m \in Node :
            r.parent[m] = IF m = n THEN u ELSE IF m = u THEN t.parent[n]
                          ELSE IF m = t[s][u] THEN n ELSE t.parent[m]
    BY DEF Rotated
  <2> QED
    BY <1>2, <1>4, <2>1, <2>2, ZenonT(60)
<1>12. PICK E : E = Swapped(t, N, D, n, u, s)
  OBVIOUS
<1>13. PICK A, I, B : /\ A = Below(t, D, s, n) /\ I = Below(t, D, s, u) /\ B = Below(t, D, o, u)
  OBVIOUS
<1>14. /\ A = IF a = NULL THEN {} ELSE D[a]
       /\ I = IF i = NULL THEN {} ELSE D[i]
       /\ B = IF b = NULL THEN {} ELSE D[b]
  BY <1>4, <1>13 DEF Below
<1>15. D[n] = {n} \cup A \cup D[u] /\ D[u] = {u} \cup I \cup B
  <2>1. D[n] = {n} \cup Below(t, D, s, n) \cup Below(t, D, o, n)
    BY <1>2, BelowIs
  <2>2. D[u] = {u} \cup Below(t, D, s, u) \cup Below(t, D, o, u)
    BY <1>2, <1>3, BelowIs
  <2>3. Below(t, D, o, n) = D[u]
    BY <1>2 DEF Below
  <2> QED
    BY <1>13, <2>1, <2>2, <2>3
<1>16. /\ E[u] = D[n] /\ E[n] = {n} \cup A \cup I
       /\ \A m \in N : m # u /\ m # n => E[m] = D[m]
  BY <1>3, <1>12, <1>13 DEF Swapped
<1>17. D[n] \in SUBSET N
  BY <1>1
<1>18. E \in [N -> SUBSET N]
  <2>1. {n} \cup A \cup I \in SUBSET N
    BY <1>15, <1>17
  <2> QED
    BY <1>1, <1>12, <1>13, <1>17, <2>1 DEF Swapped
<1>19. r.root \in N /\ r.parent[r.root] = NULL /\ E[r.root] = N
  BY <1>1, <1>3, <1>6, <1>9, <1>11, <1>16, ZenonT(60)
<1>20. Hangs(r, N, E, n)
  <2>1. r[s][n] = a /\ r[o][n] = i /\ r.parent[n] = u /\ r[s][u] = n /\ n # r.root
    BY <1>1, <1>2, <1>3, <1>4, <1>9, <1>11, ZenonT(60)
  <2>2. a # NULL => r.parent[a] = n /\ E[a] = D[a]
    BY <1>3, <1>5, <1>6, <1>11, <1>16
  <2>3. i # NULL => r.parent[i] = n /\ E[i] = D[i] /\ \A x \in D[i] : Toward(o, n, x)
    BY <1>3, <1>6, <1>8, <1>11, <1>16
  <2>4. \A x \in Side : r[x][n] # NULL =>
          r[x][n] \in N /\ r.parent[r[x][n]] = n /\ \A y \in E[r[x][n]] : Toward(x, n, y)
    BY <1>2, <1>5, <1>6, <2>1, <2>2, <2>3
  <2>5. E[n] = {n} \cup Below(r, E, s, n) \cup Below(r, E, o, n)
    BY <1>14, <1>16, <2>1, <2>2, <2>3 DEF Below
  <2> QED
    BY <1>2, <1>3, <2>1, <2>4, <2>5 DEF Hangs, Side, Other
<1>21. Hangs(r, N, E, u)
  <2>1. r[s][u] = n /\ r[o][u] = b /\ r.parent[n] = u /\ r.parent[u] = p
    BY <1>2, <1>3, <1>4, <1>10, <1>11
  <2>2. b # NULL => r.parent[b] = u /\ E[b] = D[b]
    BY <1>7, <1>8, <1>11, <1>16
  <2>3. ASSUME NEW x \in E[n]
        PROVE  Toward(s, u, x)
    <3>1. Toward(s, u, n)
      <4>1. Toward(o, n, u) /\ n \in Int /\ u \in Int
        BY <1>1, <1>3
      <4> QED
        BY <1>2, <4>1, TowardIs
    <3>2. CASE x = n
      BY <3>1, <3>2
    <3>3. CASE x \in A
      <4>1. Toward(s, n, x) /\ x \in Int /\ n \in Int /\ u \in Int
        BY <1>1, <1>3, <1>5, <1>14, <1>17, <3>3
      <4> QED
        BY <3>1, <4>1, TowardIs
    <3>4. CASE x \in I
      BY <1>6, <1>14, <3>4
    <3> QED
      BY <1>16, <3>2, <3>3, <3>4
  <2>4. \A x \in Side : r[x][u] # NULL =>
          r[x][u] \in N /\ r.parent[r[x][u]] = u /\ \A y \in E[r[x][u]] : Toward(x, u, y)
    BY <1>2, <1>7, <2>1, <2>2, <2>3
  <2>5. E[u] = {u} \cup Below(r, E, s, u) \cup Below(r, E, o, u)
    <3>1. Below(r, E, s, u) = {n} \cup A \cup I
      BY <1>1, <1>16, <2>1 DEF Below
    <3>2. Below(r, E, o, u) = B
      BY <1>14, <2>1, <2>2 DEF Below
    <3> QED
      BY <1>15, <1>16, <3>1, <3>2
  <2>6. u # r.root => r.parent[u] \in N /\ \E x \in Side : r[x][r.parent[u]] = u
    <3> SUFFICES ASSUME u # r.root
                 PROVE  p \in N /\ \E x \in Side : r[x][p] = u
      BY <2>1
    <3>1. p \in N /\ p # n /\ p # u
      BY <1>9, <1>10, <1>11
    <3>2. PICK x \in Side : t[x][p] = n
      BY <1>9, <1>11
    <3>3. r[x][p] = u
      BY <1>11, <3>1, <3>2
    <3> QED
      BY <3>1, <3>3
  <2> QED
    BY <1>2, <2>4, <2>5, <2>6 DEF Hangs, Side, Other
<1>22. ASSUME NEW m \in N, m # n, m # u
       PROVE  Hangs(r, N, E, m)
  <2>1. ASSUME NEW x \in Side, NEW k, k = t[x][m], NEW l, l = r[x][m]
        PROVE  IF k = n THEN m = p /\ l = u ELSE l = k
    <3>1. k = n => t.parent[n] = m
      <4>1. k # NULL => IsKid(t, N, D, m, x, k)
        BY <2>1, KidIs
      <4> QED
        BY <1>1, <4>1 DEF IsKid
    <3> QED
      BY <1>4, <1>11, <1>22, <2>1, <3>1
  <2>2. ASSUME NEW x \in Side, NEW k, k = t[x][m], NEW l, l = r[x][m], l # NULL
        PROVE  /\ l \in N /\ r.parent[l] = m /\ k # NULL /\ E[l] = D[k]
               /\ \A y \in E[l] : Toward(x, m, y)
    <3>1. CASE k = n
      <4>1. l = u /\ p = m
        BY <2>1, <2>2, <3>1
      <4>2. r.parent[u] = p
        BY <1>3, <1>11
      <4>3. \A y \in D[n] : Toward(x, m, y)
        <5>1. IsKid(t, N, D, m, x, k)
          BY <1>1, <2>2, <3>1, KidIs
        <5> QED
          BY <3>1, <5>1 DEF IsKid
      <4> QED
        BY <1>1, <1>3, <1>16, <3>1, <4>1, <4>2, <4>3
    <3>2. CASE k # n
      <4>1. l = k
        BY <2>1, <2>2, <3>2
      <4>2. k \in N /\ t.parent[k] = m /\ \A y \in D[k] : Toward(x, m, y)
        BY <2>2, <4>1, KidIs DEF IsKid
      <4>3. k # u /\ k # i
        BY <1>3, <1>6, <1>22, <2>2, <4>1, <4>2
      <4>4. r.parent[k] = m
        BY <1>11, <3>2, <4>2, <4>3
      <4>5. E[k] = D[k]
        BY <1>16, <3>2, <4>2, <4>3
      <4> QED
        BY <2>2, <4>1, <4>2, <4>4, <4>5
    <3> QED
      BY <3>1, <3>2
  <2>3. \A x \in Side : Below(r, E, x, m) = Below(t, D, x, m)
    <3>1. ASSUME NEW x \in Side, NEW k, k = t[x][m], NEW l, l = r[x][m]
          PROVE  Below(r, E, x, m) = Below(t, D, x, m)
      <4>1. l = NULL => k = NULL
        BY <1>1, <1>3, <2>1, <3>1, ZenonT(60)
      <4>2. l # NULL => k # NULL /\ E[l] = D[k]
        BY <2>2, <3>1
      <4> QED
        BY <3>1, <4>1, <4>2 DEF Below
    <3> QED
      BY <3>1
  <2>4. m # r.root => r.parent[m] \in N /\ \E x \in Side : r[x][r.parent[m]] = m
    <3> SUFFICES ASSUME m # r.root
                 PROVE  r.parent[m] \in N /\ \E x \in Side : r[x][r.parent[m]] = m
      OBVIOUS
    <3>1. m # t.root
      BY <1>11, <1>22
    <3>2. CASE m = i
      <4>1. r.parent[m] = n
        BY <1>11, <1>22, <3>2
      <4>2. r[o][n] = m
        BY <1>11, <3>2
      <4> QED
        BY <4>1, <4>2
    <3>3. CASE m # i
      <4>1. PICK q : q = t.parent[m]
        OBVIOUS
      <4>2. r.parent[m] = q
        BY <1>11, <1>22, <3>3, <4>1
      <4>3. q \in N /\ \E x \in Side : t[x][q] = m
        BY <3>1, <4>1, UpIs
      <4>4. PICK x \in Side : t[x][q] = m
        BY <4>3
      <4>5. r[x][q] = m
        <5>1. ~(x = o /\ q = n)
          BY <1>2, <1>22, <4>4
        <5>2. ~(x = s /\ q = u)
          BY <1>4, <3>3, <4>4
        <5> QED
          BY <1>11, <1>22, <4>3, <4>4, <5>1, <5>2
      <4> QED
        BY <4>2, <4>3, <4>5
    <3> QED
      BY <3>2, <3>3
  <2>5. E[m] = {m} \cup Below(r, E, "left", m) \cup Below(r, E, "right", m)
    <3>1. D[m] = {m} \cup Below(t, D, s, m) \cup Below(t, D, o, m)
      BY <1>2, BelowIs
    <3>2. E[m] = D[m]
      BY <1>16, <1>22
    <3> QED
      BY <1>2, <2>3, <3>1, <3>2 DEF Side
  <2>6. \A x \in Side : r[x][m] # NULL =>
          r[x][m] \in N /\ r.parent[r[x][m]] = m /\ \A y \in E[r[x][m]] : Toward(x, m, y)
    BY <2>2
  <2> QED
    BY <2>4, <2>5, <2>6 DEF Hangs
<1>23. \A m \in N : Hangs(r, N, E, m)
  BY <1>20, <1>21, <1>22
<1> QED
  BY <1>1, <1>11, <1>12, <1>18, <1>19, <1>23 DEF Linked

-----------------------------------------------------------------------------
(* The black nodes on every way down from n are h[n]; they are one too few *)
(* on the side d of q.                                                     *)
Lack(q, d, n, s) == IF n = q /\ s = d THEN 1 ELSE 0
Black(red, n) == IF n \in red THEN 0 ELSE 1

Level(t, red, h, q, d, n) == \A s \in Side : h[n] = h[t[s][n]] + Black(red, n) + Lack(q, d, n, s)

Levels(t, N, red, h, q, d) ==
  /\ h \in [Node \cup {NULL} -> Nat] /\ h[NULL] = 0
  /\ \A n \in N : Level(t, red, h, q, d, n)

(* A red node has no red child but e. *)
Reds(t, N, red, e) ==
  /\ red \subseteq N
  /\ \A n \in N : \A s \in Side : n \in red /\ t[s][n] \in red => t[s][n] = e

(* The children after a rotation, and before. *)
Kids(r, t, N, n, u, s, o, a, i, b) ==
  /\ s \in Side /\ o \in Side /\ s # o /\ \A x \in Side : x \in {s, o}
  /\ t[s][n] = a /\ t[o][n] = u /\ t[s][u] = i /\ t[o][u] = b
  /\ r[s][n] = a /\ r[o][n] = i /\ r[s][u] = n /\ r[o][u] = b
  /\ n \in N /\ u \in N /\ n # u /\ \A k \in {a, i, b} : k \in N \cup {NULL} /\ k # n /\ k # u
  /\ \A k \in {i, b} : k # NULL => t.parent[k] = u
  /\ i # NULL => i # b
  /\ \A m \in N : \A x \in Side :
       m # n /\ m # u => r[x][m] = IF t[x][m] = n THEN u ELSE t[x][m]
  /\ \A m \in N : \A x \in Side : t[x][m] # NULL => t[x][m] \in N /\ t.parent[t[x][m]] = m
  /\ \A m \in N : \A x \in Side : t[x][m] # m
  /\ b # NULL => t.parent[n] # b
  /\ N \subseteq Node /\ NULL \notin N

LEMMA RotatedKids ==
  ASSUME NEW t, NEW N, NEW D, Linked(t, N, D), NEW n \in N, NEW s \in Side,
         NEW u, u = t[Other(s)][n], u # NULL, NEW r, Rotated(r, t, n, u, s)
  PROVE  Kids(r, t, N, n, u, s, Other(s), t[s][n], t[s][u], t[Other(s)][u])
<1>1. N \in SUBSET Node /\ NULL \notin Node
  BY NodeAssumption DEF Linked
<1>2. PICK o \in Side : o = Other(s) /\ s = Other(o) /\ s # o /\ \A x \in Side : x \in {s, o}
  BY SideIs
<1>3. PICK a, i, b, p : a = t[s][n] /\ i = t[s][u] /\ b = t[o][u] /\ p = t.parent[n]
  OBVIOUS
<1>4. IsKid(t, N, D, n, o, u)
  BY <1>2, KidIs
<1>5. /\ a # NULL => IsKid(t, N, D, n, s, a)
      /\ i # NULL => IsKid(t, N, D, u, s, i)
      /\ b # NULL => IsKid(t, N, D, u, o, b)
  BY <1>3, <1>4, KidIs DEF IsKid
<1>6. \A x \in Side : \A m \in N :
        r[x][m] = IF x = o /\ m = n THEN i ELSE IF x = s /\ m = u THEN n
                  ELSE IF m = p /\ t[x][m] = n THEN u ELSE t[x][m]
  <2>1. \A m \in N : m \in Node
    BY <1>1
  <2>2. \A x \in Side : \A m \in Node :
          r[x][m] = IF x = Other(s) /\ m = n THEN t[s][u] ELSE IF x = s /\ m = u THEN n
                    ELSE IF m = t.parent[n] /\ t[x][m] = n THEN u ELSE t[x][m]
    BY DEF Rotated
  <2> QED
    BY <1>2, <1>3, <2>1, <2>2, ZenonT(60)
<1>7. \A m \in N : \A x \in Side : t[x][m] # NULL => t[x][m] \in N /\ t.parent[t[x][m]] = m
  BY HangsIs, SMTT(30)
<1>8. \A k \in {a, i, b} : k \in N \cup {NULL} /\ k # n /\ k # u
  BY <1>1, <1>2, <1>4, <1>5 DEF IsKid
<1>9. n \in N /\ u \in N /\ n # u /\ t.parent[u] = n
  BY <1>4 DEF IsKid
<1>10. ASSUME NEW m \in N, NEW x \in Side, m # n, m # u
       PROVE  r[x][m] = IF t[x][m] = n THEN u ELSE t[x][m]
  BY <1>1, <1>3, <1>6, <1>7, <1>10
<1>11. r[s][n] = a /\ r[o][n] = i /\ r[s][u] = n /\ r[o][u] = b
  <2>1. a # n /\ b # n
    BY <1>8
  <2> QED
    BY <1>2, <1>3, <1>6, <1>9, <2>1
<1>12. \A k \in {i, b} : k # NULL => t.parent[k] = u
  BY <1>5 DEF IsKid
<1>13. i # NULL => i # b
  BY <1>2, <1>3, <1>5 DEF IsKid
<1>14. \A m \in N : \A x \in Side : t[x][m] # m
  BY <1>1, HangsIs
<1>15. b # NULL => p # b
  <2>1. b # NULL => b \in D[n]
    BY <1>4, <1>5 DEF IsKid
  <2>2. p # NULL => n # t.root
    BY <1>3 DEF Linked
  <2>3. n # t.root => p \in N /\ n # NULL /\ \E x \in Side : t[x][p] = n
    BY <1>1, <1>3, UpIs
  <2>4. \A x \in Side : p \in N /\ t[x][p] = n /\ n # NULL => IsKid(t, N, D, p, x, n)
    BY KidIs
  <2>5. n # t.root => p \notin D[n]
    BY <2>3, <2>4 DEF IsKid
  <2> QED
    BY <2>1, <2>2, <2>5
<1>16. Kids(r, t, N, n, u, s, o, a, i, b)
  BY <1>1, <1>2, <1>3, <1>7, <1>8, <1>9, <1>10, <1>11, <1>12, <1>13, <1>14, <1>15, ZenonT(60) DEF Kids
<1> QED
  BY <1>2, <1>3, <1>16

(* Away from the rotation. *)
LEMMA LevelAway ==
  ASSUME NEW r, NEW t, NEW N, NEW n, NEW u, NEW s, NEW o, NEW a, NEW i, NEW b,
         Kids(r, t, N, n, u, s, o, a, i, b),
         NEW m \in N, m # n, m # u, NEW red, NEW h, NEW q, NEW d, Level(t, red, h, q, d, m),
         NEW red1, NEW h1, NEW q1, NEW d1,
         h1[u] = h[n], h1[m] = h[m], h1[NULL] = h[NULL], m \in red1 <=> m \in red,
         \A k \in N : t.parent[k] = m /\ k # n => h1[k] = h[k],
         \A x \in Side : Lack(q, d, m, x) = Lack(q1, d1, m, x)
  PROVE  Level(r, red1, h1, q1, d1, m)
<1> SUFFICES ASSUME NEW x \in Side
             PROVE  h1[m] = h1[r[x][m]] + Black(red1, m) + Lack(q1, d1, m, x)
  BY DEF Level
<1>1. PICK k : k = t[x][m]
  OBVIOUS
<1>2. h[m] = h[k] + Black(red, m) + Lack(q, d, m, x)
  BY <1>1 DEF Level
<1>3. Black(red1, m) = Black(red, m)
  BY DEF Black
<1>4. r[x][m] = IF k = n THEN u ELSE k
  BY <1>1 DEF Kids
<1>5. k # NULL => k \in N /\ t.parent[k] = m
  BY <1>1 DEF Kids
<1>6. h1[r[x][m]] = h[k]
  BY <1>4, <1>5
<1> QED
  BY <1>2, <1>3, <1>6

(* At the nodes that are rotated. *)
LEMMA LevelAt ==
  ASSUME NEW r, NEW t, NEW N, NEW n, NEW u, NEW s, NEW o, NEW a, NEW i, NEW b,
         Kids(r, t, N, n, u, s, o, a, i, b), NEW red, NEW h, NEW q, NEW d,
         h[n] = h[a] + Black(red, n) + Lack(q, d, n, s), h[n] = h[i] + Black(red, n) + Lack(q, d, n, o),
         h[u] = h[n] + Black(red, u) + Lack(q, d, u, s), h[u] = h[b] + Black(red, u) + Lack(q, d, u, o)
  PROVE  Level(r, red, h, q, d, n) /\ Level(r, red, h, q, d, u)
<1>1. /\ \A x \in Side : x = s \/ x = o
      /\ r[s][n] = a /\ r[o][n] = i /\ r[s][u] = n /\ r[o][u] = b
  BY DEF Kids
<1>2. ASSUME NEW x \in Side
      PROVE  h[n] = h[r[x][n]] + Black(red, n) + Lack(q, d, n, x)
  BY <1>1
<1>3. ASSUME NEW x \in Side
      PROVE  h[u] = h[r[x][u]] + Black(red, u) + Lack(q, d, u, x)
  BY <1>1
<1> QED
  BY <1>2, <1>3 DEF Level

(* A rotation that brings a red node up, which changes its colour with its *)
(* parent. *)
LEMMA RedUpLevels ==
  ASSUME NEW r, NEW t, NEW N, NEW n, NEW u, NEW s, NEW o, NEW a, NEW i, NEW b,
         Kids(r, t, N, n, u, s, o, a, i, b),
         NEW red, NEW h, NEW q, NEW d, Levels(t, N, red, h, q, d),
         u \in red, n \notin red, q # u, q = n => d = s,
         NEW red1, red1 = (red \ {u}) \cup {n}
  PROVE  \E h1 : Levels(r, N, red1, h1, q, d) /\ \A k \in N : k # n /\ k # u => h1[k] = h[k]
<1>1. /\ n \in N /\ u \in N /\ n # u /\ N \subseteq Node /\ NULL \notin N
      /\ \A k \in {a, i, b} : k \in N \cup {NULL} /\ k # n /\ k # u
  BY DEF Kids
<1>2. h \in [Node \cup {NULL} -> Nat] /\ h[NULL] = 0 /\ \A m \in N : Level(t, red, h, q, d, m)
  BY DEF Levels
<1>3. /\ h[n] = h[a] + 1 + Lack(q, d, n, s) /\ h[n] = h[u] + 1
      /\ h[u] = h[i] /\ h[u] = h[b]
  <2>1. /\ h[n] = h[a] + Black(red, n) + Lack(q, d, n, s)
        /\ h[n] = h[u] + Black(red, n) + Lack(q, d, n, o)
        /\ h[u] = h[i] + Black(red, u) + Lack(q, d, u, s)
        /\ h[u] = h[b] + Black(red, u) + Lack(q, d, u, o)
    BY <1>1, <1>2 DEF Level, Kids
  <2>2. Black(red, n) = 1 /\ Black(red, u) = 0
    BY DEF Black
  <2>3. Lack(q, d, n, o) = 0 /\ Lack(q, d, u, s) = 0 /\ Lack(q, d, u, o) = 0
    BY DEF Lack, Kids
  <2>4. \A k \in {a, i, b, u, n} : h[k] \in Nat
    BY <1>1, <1>2
  <2>5. Lack(q, d, n, s) \in Nat
    BY DEF Lack
  <2> QED
    BY <2>1, <2>2, <2>3, <2>4, <2>5
<1>4. PICK h1 : h1 = [h EXCEPT ![n] = h[u], ![u] = h[n]]
  OBVIOUS
<1>5. /\ h1 \in [Node \cup {NULL} -> Nat] /\ h1[NULL] = 0
      /\ h1[n] = h[u] /\ h1[u] = h[n] /\ \A k \in Node \cup {NULL} : k # n /\ k # u => h1[k] = h[k]
  BY <1>1, <1>2, <1>4
<1>6. Black(red1, n) = 0 /\ Black(red1, u) = 1
  BY <1>1 DEF Black
<1>7. h1[a] = h[a] /\ h1[i] = h[i] /\ h1[b] = h[b]
  BY <1>1, <1>5
<1>8. /\ Lack(q, d, n, s) \in Nat
      /\ Lack(q, d, n, o) = 0 /\ Lack(q, d, u, s) = 0 /\ Lack(q, d, u, o) = 0
  BY DEF Lack, Kids
<1>9. \A k \in {a, i, b, u, n} : h[k] \in Nat
  BY <1>1, <1>2
<1>10. /\ h1[n] = h1[a] + Black(red1, n) + Lack(q, d, n, s)
       /\ h1[n] = h1[i] + Black(red1, n) + Lack(q, d, n, o)
       /\ h1[u] = h1[n] + Black(red1, u) + Lack(q, d, u, s)
       /\ h1[u] = h1[b] + Black(red1, u) + Lack(q, d, u, o)
  <2>1. PICK l \in Nat : l = Lack(q, d, n, s)
    BY <1>8
  <2>2. h[n] = h[a] + 1 + l /\ h[n] = h[u] + 1 /\ h[u] = h[i] /\ h[u] = h[b]
    BY <1>3, <2>1
  <2>3. h[u] = h[a] + 0 + l /\ h[u] = h[i] + 0 + 0 /\ h[n] = h[u] + 1 + 0 /\ h[n] = h[b] + 1 + 0
    BY <1>9, <2>2
  <2> QED
    BY <1>5, <1>6, <1>7, <1>8, <2>1, <2>3
<1>11. Level(r, red1, h1, q, d, n) /\ Level(r, red1, h1, q, d, u)
  BY <1>10, LevelAt
<1>12. ASSUME NEW m \in N, m # n, m # u
       PROVE  Level(r, red1, h1, q, d, m)
  <2>1. Level(t, red, h, q, d, m)
    BY <1>2
  <2>2. h1[m] = h[m] /\ h1[NULL] = h[NULL] /\ (m \in red1 <=> m \in red)
    BY <1>1, <1>2, <1>5, <1>12
  <2>3. ASSUME NEW k \in N, t.parent[k] = m, k # n
        PROVE  h1[k] = h[k]
    <3>1. t.parent[u] = n
      BY <1>1 DEF Kids
    <3> QED
      BY <1>1, <1>5, <1>12, <2>3, <3>1
  <2> QED
    BY <1>5, <1>12, <2>1, <2>2, <2>3, LevelAway
<1> QED
  BY <1>1, <1>5, <1>11, <1>12 DEF Levels

(* One that turns two red nodes. *)
LEMMA TwoRedLevels ==
  ASSUME NEW r, NEW t, NEW N, NEW n, NEW u, NEW s, NEW o, NEW a, NEW i, NEW b,
         Kids(r, t, N, n, u, s, o, a, i, b),
         NEW red, NEW h, NEW q, NEW d, Levels(t, N, red, h, q, d),
         u \in red, n \in red, q # u, q # n
  PROVE  Levels(r, N, red, h, q, d)
<1>1. /\ n \in N /\ u \in N /\ n # u /\ N \subseteq Node /\ NULL \notin N
      /\ \A k \in {a, i, b} : k \in N \cup {NULL} /\ k # n /\ k # u
  BY DEF Kids
<1>2. h \in [Node \cup {NULL} -> Nat] /\ h[NULL] = 0 /\ \A m \in N : Level(t, red, h, q, d, m)
  BY DEF Levels
<1>3. Black(red, n) = 0 /\ Black(red, u) = 0 /\ \A x : Lack(q, d, n, x) = 0 /\ Lack(q, d, u, x) = 0
  BY DEF Black, Lack
<1>4. h[n] = h[a] /\ h[n] = h[u] /\ h[u] = h[i] /\ h[u] = h[b]
  <2>1. /\ h[n] = h[a] + Black(red, n) + Lack(q, d, n, s)
        /\ h[n] = h[u] + Black(red, n) + Lack(q, d, n, o)
        /\ h[u] = h[i] + Black(red, u) + Lack(q, d, u, s)
        /\ h[u] = h[b] + Black(red, u) + Lack(q, d, u, o)
    BY <1>1, <1>2 DEF Level, Kids
  <2>2. \A k \in {a, i, b, u, n} : h[k] \in Nat
    BY <1>1, <1>2
  <2> QED
    BY <1>3, <2>1, <2>2
<1>5. \A k \in {a, i, b, u, n} : h[k] \in Nat
  BY <1>1, <1>2
<1>6. /\ h[n] = h[a] + Black(red, n) + Lack(q, d, n, s)
      /\ h[n] = h[i] + Black(red, n) + Lack(q, d, n, o)
      /\ h[u] = h[n] + Black(red, u) + Lack(q, d, u, s)
      /\ h[u] = h[b] + Black(red, u) + Lack(q, d, u, o)
  BY <1>3, <1>4, <1>5
<1>7. Level(r, red, h, q, d, n) /\ Level(r, red, h, q, d, u)
  BY <1>6, LevelAt
<1>8. ASSUME NEW m \in N, m # n, m # u
      PROVE  Level(r, red, h, q, d, m)
  <2>1. Level(t, red, h, q, d, m)
    BY <1>2
  <2> QED
    BY <1>4, <1>8, <2>1, LevelAway
<1> QED
  BY <1>2, <1>7, <1>8 DEF Levels

(* The one that makes up for what is lacking below n. *)
LEMMA LastLevels ==
  ASSUME NEW r, NEW t, NEW N, NEW n, NEW u, NEW s, NEW o, NEW a, NEW i, NEW b,
         Kids(r, t, N, n, u, s, o, a, i, b),
         NEW red, NEW h, Levels(t, N, red, h, n, s),
         u \notin red, b \in red, b # NULL,
         NEW red1, red1 = (red \ {u, n, b}) \cup (IF n \in red THEN {u} ELSE {})
  PROVE  \E h1 : Levels(r, N, red1, h1, NULL, s)
<1>1. /\ n \in N /\ u \in N /\ n # u /\ N \subseteq Node /\ NULL \notin N
      /\ \A k \in {a, i, b} : k \in N \cup {NULL} /\ k # n /\ k # u
      /\ t.parent[b] = u /\ t.parent[u] = n /\ i # b /\ s # o
      /\ t[s][n] = a /\ t[o][n] = u /\ t[s][u] = i /\ t[o][u] = b /\ s \in Side /\ o \in Side
  BY DEF Kids
<1>2. h \in [Node \cup {NULL} -> Nat] /\ h[NULL] = 0 /\ \A m \in N : Level(t, red, h, n, s, m)
  BY DEF Levels
<1>3. a # b
  <2>1. a # NULL => t.parent[a] = n
    BY <1>1 DEF Kids
  <2> QED
    BY <1>1, <2>1
<1>4. PICK c : c = Black(red, n) /\ c \in Nat
  BY DEF Black
<1>5. \A k \in {a, i, b, u, n} : h[k] \in Nat
  BY <1>1, <1>2
<1>6. h[n] = h[a] + c + 1 /\ h[n] = h[u] + c /\ h[u] = h[i] + 1 /\ h[u] = h[b] + 1
  <2>1. /\ h[n] = h[a] + Black(red, n) + Lack(n, s, n, s)
        /\ h[n] = h[u] + Black(red, n) + Lack(n, s, n, o)
        /\ h[u] = h[i] + Black(red, u) + Lack(n, s, u, s)
        /\ h[u] = h[b] + Black(red, u) + Lack(n, s, u, o)
    BY <1>1, <1>2 DEF Level
  <2>2. Black(red, u) = 1
    BY DEF Black
  <2>3. Lack(n, s, n, s) = 1 /\ Lack(n, s, n, o) = 0 /\ Lack(n, s, u, s) = 0 /\ Lack(n, s, u, o) = 0
    BY <1>1 DEF Lack
  <2> QED
    BY <1>4, <1>5, <2>1, <2>2, <2>3
<1>7. PICK h1 : h1 = [h EXCEPT ![n] = h[u], ![u] = h[n], ![b] = h[u]]
  OBVIOUS
<1>8. /\ h1 \in [Node \cup {NULL} -> Nat] /\ h1[NULL] = 0
      /\ h1[n] = h[u] /\ h1[u] = h[n] /\ h1[b] = h[u]
      /\ \A k \in Node \cup {NULL} : k # n /\ k # u /\ k # b => h1[k] = h[k]
  BY <1>1, <1>2, <1>7
<1>9. h1[a] = h[a] /\ h1[i] = h[i]
  BY <1>1, <1>3, <1>8
<1>10. Black(red1, n) = 1 /\ Black(red1, b) = 1 /\ Black(red1, u) = c /\ \A k, x : k \in N => Lack(NULL, s, k, x) = 0
  BY <1>1, <1>4 DEF Black, Lack
<1>11. /\ h1[n] = h1[a] + Black(red1, n) + Lack(NULL, s, n, s)
       /\ h1[n] = h1[i] + Black(red1, n) + Lack(NULL, s, n, o)
       /\ h1[u] = h1[n] + Black(red1, u) + Lack(NULL, s, u, s)
       /\ h1[u] = h1[b] + Black(red1, u) + Lack(NULL, s, u, o)
  BY <1>1, <1>4, <1>5, <1>6, <1>8, <1>9, <1>10
<1>12. Level(r, red1, h1, NULL, s, n) /\ Level(r, red1, h1, NULL, s, u)
  BY <1>11, LevelAt
<1>13. Level(r, red1, h1, NULL, s, b)
  <2> SUFFICES ASSUME NEW x \in Side, NEW k, k = t[x][b]
               PROVE  r[x][b] = k /\ h1[b] = h1[k] + Black(red1, b) + Lack(NULL, s, b, x)
    BY DEF Level
  <2>1. b \in N /\ b # n /\ b # u
    BY <1>1
  <2>2. k # NULL => k \in N /\ t.parent[k] = b
    BY <2>1 DEF Kids
  <2>3. k # n /\ k # u /\ k # b
    <3>1. k # u
      BY <1>1, <2>2
    <3>2. k # n
      <4>1. t.parent[n] # b
        BY <1>1 DEF Kids
      <4> QED
        BY <1>1, <2>2, <4>1
    <3>3. k # b
      BY <2>1 DEF Kids
    <3> QED
      BY <3>1, <3>2, <3>3
  <2>4. r[x][b] = k
    BY <2>1, <2>3 DEF Kids
  <2>5. h[b] = h[k]
    <3>1. h[b] = h[k] + Black(red, b) + Lack(n, s, b, x)
      BY <1>2, <2>1 DEF Level
    <3>2. Black(red, b) = 0 /\ Lack(n, s, b, x) = 0
      BY <2>1 DEF Black, Lack
    <3>3. h[k] \in Nat
      BY <1>1, <1>2, <2>2
    <3> QED
      BY <3>1, <3>2, <3>3
  <2>6. h1[k] = h[k] /\ h1[b] = h[b] + 1
    <3>1. k \in Node \cup {NULL}
      BY <1>1, <2>2
    <3> QED
      BY <1>6, <1>8, <2>3, <3>1
  <2>7. Lack(NULL, s, b, x) = 0 /\ h[k] \in Nat
    BY <1>1, <1>2, <1>10, <2>1, <2>2
  <2> QED
    BY <1>10, <2>4, <2>5, <2>6, <2>7
<1>14. ASSUME NEW m \in N, m # n, m # u, m # b
       PROVE  Level(r, red1, h1, NULL, s, m)
  <2>1. Level(t, red, h, n, s, m)
    BY <1>2
  <2>2. h1[m] = h[m] /\ h1[NULL] = h[NULL] /\ (m \in red1 <=> m \in red)
    BY <1>1, <1>2, <1>8, <1>14
  <2>3. ASSUME NEW k \in N, t.parent[k] = m, k # n
        PROVE  h1[k] = h[k]
    BY <1>1, <1>8, <1>14, <2>3
  <2>4. \A x \in Side : Lack(n, s, m, x) = Lack(NULL, s, m, x)
    BY <1>1, <1>14 DEF Lack
  <2> QED
    BY <1>8, <1>14, <2>1, <2>2, <2>3, <2>4, LevelAway
<1> QED
  BY <1>8, <1>12, <1>13, <1>14 DEF Levels

-----------------------------------------------------------------------------
(* The same three rotations never leave a red node below a red one.        *)
LEMMA RedUpReds ==
  ASSUME NEW r, NEW t, NEW N, NEW n, NEW u, NEW s, NEW o, NEW a, NEW i, NEW b,
         Kids(r, t, N, n, u, s, o, a, i, b),
         NEW red, NEW e, Reds(t, N, red, e), e \in red => t.parent[e] = u,
         a \notin red, i \notin red,
         NEW red1, red1 = (red \ {u}) \cup {n}
  PROVE  \A f : Reds(r, N, red1, f)
<1> SUFFICES ASSUME NEW f
             PROVE  Reds(r, N, red1, f)
  OBVIOUS
<1>1. n \in N /\ u \in N /\ n # u /\ \A x \in Side : x = s \/ x = o
  BY DEF Kids
<1>2. red1 \subseteq N
  BY <1>1 DEF Reds
<1>3. ASSUME NEW m \in N, NEW x \in Side, m \in red1, r[x][m] \in red1
      PROVE  FALSE
  <2>1. m # u
    BY <1>1, <1>3
  <2>2. CASE m = n
    <3>1. r[x][n] = a \/ r[x][n] = i
      BY <1>1 DEF Kids
    <3>2. a # n /\ i # n
      BY DEF Kids
    <3> QED
      BY <1>3, <2>2, <3>1, <3>2
  <2>3. CASE m # n
    <3>1. r[x][m] = IF t[x][m] = n THEN u ELSE t[x][m]
      BY <2>1, <2>3 DEF Kids
    <3>2. t[x][m] # n /\ t[x][m] # u /\ t[x][m] \in red
      BY <1>1, <1>3, <3>1
    <3>3. t[x][m] = e
      BY <1>3, <2>3, <3>2 DEF Reds
    <3>4. t[x][m] # NULL => t.parent[t[x][m]] = m
      BY DEF Kids
    <3>5. t[x][m] # NULL
      BY <3>2 DEF Reds, Kids
    <3> QED
      BY <2>1, <3>2, <3>3, <3>4, <3>5
  <2> QED
    BY <2>2, <2>3
<1> QED
  BY <1>2, <1>3 DEF Reds

LEMMA TwoRedReds ==
  ASSUME NEW r, NEW t, NEW N, NEW n, NEW u, NEW s, NEW o, NEW a, NEW i, NEW b,
         Kids(r, t, N, n, u, s, o, a, i, b),
         NEW red, Reds(t, N, red, u), n \in red, u \in red
  PROVE  Reds(r, N, red, n) /\ a \notin red /\ i \notin red /\ b \notin red
<1>1. /\ n \in N /\ u \in N /\ n # u /\ s \in Side /\ o \in Side /\ \A x \in Side : x = s \/ x = o
      /\ t[s][n] = a /\ t[s][u] = i /\ t[o][u] = b /\ t[o][n] = u
      /\ \A k \in {a, i, b} : k # u
  BY DEF Kids
<1>2. a \notin red /\ i \notin red /\ b \notin red
  BY <1>1 DEF Reds
<1>3. ASSUME NEW m \in N, NEW x \in Side, m \in red, r[x][m] \in red
      PROVE  r[x][m] = n
  <2>1. CASE m = n
    <3>1. r[x][n] = a \/ r[x][n] = i
      BY <1>1 DEF Kids
    <3> QED
      BY <1>2, <1>3, <2>1, <3>1
  <2>2. CASE m = u
    <3>1. r[x][u] = n \/ r[x][u] = b
      BY <1>1 DEF Kids
    <3> QED
      BY <1>2, <1>3, <2>2, <3>1
  <2>3. CASE m # n /\ m # u
    <3>1. r[x][m] = IF t[x][m] = n THEN u ELSE t[x][m]
      BY <2>3 DEF Kids
    <3>2. t[x][m] # n
      BY <1>1, <1>3, <3>1 DEF Reds
    <3>3. t[x][m] = u
      BY <1>3, <3>1, <3>2 DEF Reds
    <3>4. t.parent[u] = m /\ t.parent[u] = n
      <4>1. \A k \in N : \A y \in Side : t[y][k] # NULL => t[y][k] \in N /\ t.parent[t[y][k]] = k
        BY DEF Kids
      <4>2. u # NULL
        BY DEF Kids
      <4> QED
        BY <1>1, <3>3, <4>1, <4>2
    <3> QED
      BY <2>3, <3>4
  <2> QED
    BY <2>1, <2>2, <2>3
<1> QED
  BY <1>2, <1>3 DEF Reds

LEMMA LastReds ==
  ASSUME NEW r, NEW t, NEW N, NEW n, NEW u, NEW s, NEW o, NEW a, NEW i, NEW b,
         Kids(r, t, N, n, u, s, o, a, i, b),
         NEW red, NEW e, Reds(t, N, red, e), e \notin red,
         NEW red1, red1 = (red \ {u, n, b}) \cup (IF n \in red THEN {u} ELSE {})
  PROVE  \A f : Reds(r, N, red1, f)
<1> SUFFICES ASSUME NEW f
             PROVE  Reds(r, N, red1, f)
  OBVIOUS
<1>1. /\ n \in N /\ u \in N /\ n # u /\ \A x \in Side : x = s \/ x = o
      /\ \A k \in {a, i, b} : k # u
  BY DEF Kids
<1>2. red1 \subseteq N
  BY <1>1 DEF Reds
<1>3. ASSUME NEW m \in N, NEW x \in Side, m \in red1, r[x][m] \in red1
      PROVE  FALSE
  <2>1. m # n /\ m # b
    BY <1>1, <1>3
  <2>2. CASE m = u
    <3>1. r[x][u] = n \/ r[x][u] = b
      BY <1>1 DEF Kids
    <3> QED
      BY <1>1, <1>3, <2>2, <3>1
  <2>3. CASE m # u
    <3>1. r[x][m] = IF t[x][m] = n THEN u ELSE t[x][m]
      BY <2>1, <2>3 DEF Kids
    <3>2. m \in red
      BY <1>3, <2>3
    <3>3. CASE t[x][m] = n
      <4>1. n \in red
        BY <1>3, <3>1, <3>3
      <4> QED
        BY <3>2, <3>3, <4>1 DEF Reds
    <3>4. CASE t[x][m] # n
      <4>1. t[x][m] \in red \/ t[x][m] = u
        BY <1>3, <3>1, <3>4
      <4>2. t[x][m] # u
        <5>1. \A k \in N : \A y \in Side : t[y][k] # NULL => t[y][k] \in N /\ t.parent[t[y][k]] = k
          BY DEF Kids
        <5>2. o \in Side /\ t[o][n] = u /\ u # NULL
          BY DEF Kids
        <5> QED
          BY <1>1, <2>1, <5>1, <5>2
      <4> QED
        BY <3>2, <4>1, <4>2 DEF Reds
    <3> QED
      BY <3>3, <3>4
  <2> QED
    BY <2>2, <2>3
<1> QED
  BY <1>2, <1>3 DEF Reds

-----------------------------------------------------------------------------
(* A tree of which nothing but the colours has changed. *)
LEMMA Recolored ==
  ASSUME NEW t, NEW N, NEW D, Linked(t, N, D), NEW x \in SUBSET Node, NEW u, u = PutRed(t, x)
  PROVE  /\ Linked(u, N, D) /\ u.red = x /\ u.root = t.root /\ u.parent = t.parent
         /\ \A s \in Side : u[s] = t[s]
<1>1. t \in Trees
  BY DEF Linked
<1>2. /\ u \in Trees /\ u.left = t.left /\ u.right = t.right /\ u.red = x /\ u.root = t.root
      /\ u.parent = t.parent
  BY <1>1 DEF Trees, PutRed
<1>3. \A s \in Side : u[s] = t[s]
  BY <1>1, <1>2, TreesIs DEF Side
<1>4. ASSUME NEW n \in N
      PROVE  Hangs(u, N, D, n)
  <2>1. Hangs(t, N, D, n)
    BY DEF Linked
  <2> QED
    BY <1>2, <1>3, <2>1 DEF Hangs, Below, Side
<1> QED
  BY <1>2, <1>3, <1>4 DEF Linked

LEMMA RecoloredRest ==
  ASSUME NEW t, NEW u, NEW N, NEW red, NEW h, NEW q, NEW d, NEW e, \A s \in Side : u[s] = t[s]
  PROVE  /\ Levels(u, N, red, h, q, d) <=> Levels(t, N, red, h, q, d)
         /\ Reds(u, N, red, e) <=> Reds(t, N, red, e)
BY DEF Levels, Level, Reds

(* A change of colours and of heights that is right if it is at C. *)
OnlyAt(t, N, C, red, h, q, d, red1, h1, q1, d1) ==
  /\ Levels(t, N, red, h, q, d)
  /\ h1 \in [Node \cup {NULL} -> Nat] /\ h1[NULL] = 0
  /\ \A n \in C : Level(t, red1, h1, q1, d1, n)
  /\ \A n \in N : n \notin C =>
       /\ h1[n] = h[n] /\ (n \in red1 <=> n \in red)
       /\ \A s \in Side : h1[t[s][n]] + Lack(q1, d1, n, s) = h[t[s][n]] + Lack(q, d, n, s)

LEMMA RecoloredLevels ==
  ASSUME NEW t, NEW N, NEW D, Linked(t, N, D), NEW C, NEW h, NEW q, NEW d, NEW h1, NEW q1, NEW d1, NEW red, NEW red1,
         OnlyAt(t, N, C, red, h, q, d, red1, h1, q1, d1)
  PROVE  Levels(t, N, red1, h1, q1, d1)
<1>1. ASSUME NEW n \in N, n \notin C
      PROVE  Level(t, red1, h1, q1, d1, n)
  <2> SUFFICES ASSUME NEW s \in Side, NEW k, k = t[s][n]
               PROVE  h1[n] = h1[k] + Black(red1, n) + Lack(q1, d1, n, s)
    BY DEF Level
  <2>1. h[n] = h[k] + Black(red, n) + Lack(q, d, n, s)
    BY DEF OnlyAt, Levels, Level
  <2>2. h1[n] = h[n] /\ Black(red1, n) = Black(red, n)
    BY <1>1 DEF OnlyAt, Black
  <2>3. h1[k] + Lack(q1, d1, n, s) = h[k] + Lack(q, d, n, s)
    BY <1>1 DEF OnlyAt
  <2>4. k \in Node \cup {NULL}
    BY HangsIs DEF Linked
  <2>5. h[k] \in Nat /\ h1[k] \in Nat
    BY <2>4 DEF OnlyAt, Levels
  <2>6. Black(red, n) \in Nat /\ Lack(q, d, n, s) \in Nat /\ Lack(q1, d1, n, s) \in Nat
    BY DEF Black, Lack
  <2> QED
    BY <2>1, <2>2, <2>3, <2>5, <2>6
<1> QED
  BY <1>1 DEF OnlyAt, Levels

-----------------------------------------------------------------------------
(* Nothing outside has changed. *)
SameOutside(u, t, N) ==
  \A n \in Node : n \notin N => u.parent[n] = t.parent[n] /\ \A s \in Side : u[s][n] = t[s][n]

LEMMA RotatedOutside ==
  ASSUME NEW t, NEW N, NEW D, Linked(t, N, D), NEW n \in N, NEW s \in Side,
         NEW u, u = t[Other(s)][n], u # NULL, NEW r, Rotated(r, t, n, u, s)
  PROVE  SameOutside(r, t, N)
<1>1. Kids(r, t, N, n, u, s, Other(s), t[s][n], t[s][u], t[Other(s)][u])
  BY RotatedKids
<1>2. n \in N /\ u \in N /\ t[s][u] \in N \cup {NULL}
  BY <1>1 DEF Kids
<1>3. t.parent[n] \in N \cup {NULL}
  <2>1. n = t.root => t.parent[n] = NULL
    BY DEF Linked
  <2>2. n # t.root => t.parent[n] \in N
    BY UpIs
  <2> QED
    BY <2>1, <2>2
<1>4. NULL \notin Node
  BY NodeAssumption
<1>5. ASSUME NEW m \in Node, m \notin N
      PROVE  r.parent[m] = t.parent[m] /\ \A x \in Side : r[x][m] = t[x][m]
  <2>1. m # n /\ m # u /\ m # t[s][u] /\ m # t.parent[n]
    BY <1>2, <1>3, <1>4, <1>5
  <2>2. r.parent[m] = t.parent[m]
    BY <2>1 DEF Rotated
  <2>3. \A x \in Side : r[x][m] = t[x][m]
    BY <2>1 DEF Rotated
  <2> QED
    BY <2>2, <2>3
<1> QED
  BY <1>5 DEF SameOutside

(* A rotation, with all that it keeps. *)
IsTurned(r, t, N, D, n, u, s, o, a, i, b) ==
  /\ Kids(r, t, N, n, u, s, o, a, i, b)
  /\ Linked(r, N, Swapped(t, N, D, n, u, s)) /\ r.red = t.red
  /\ r.root = IF n = t.root THEN u ELSE t.root
  /\ SameOutside(r, t, N)
  /\ r.parent[n] = u /\ r.parent[u] = t.parent[n]

LEMMA TurnedIs ==
  ASSUME NEW t, NEW N, NEW D, Linked(t, N, D), NEW n \in N, NEW s \in Side, NEW o, o = Other(s),
         NEW u, u = t[o][n], u # NULL,
         NEW a, a = t[s][n], NEW i, i = t[s][u], NEW b, b = t[o][u], NEW r, r = Rotate(t, n, s)
  PROVE  IsTurned(r, t, N, D, n, u, s, o, a, i, b)
<1>1. u = t[Other(s)][n]
  OBVIOUS
<1>2. Rotated(r, t, n, u, s)
  BY <1>1, RotateIs
<1>3. Kids(r, t, N, n, u, s, o, a, i, b)
  BY <1>2, RotatedKids
<1>4. Linked(r, N, Swapped(t, N, D, n, u, s)) /\ SameOutside(r, t, N)
  BY <1>2, RotatedHangs, RotatedOutside
<1>5. n \in Node /\ u \in Node /\ n # u
  BY <1>3 DEF Kids
<1>6. r.parent[n] = u /\ r.parent[u] = t.parent[n] /\ r.red = t.red /\ r.root = IF n = t.root THEN u ELSE t.root
  BY <1>2, <1>5 DEF Rotated
<1> QED
  BY <1>3, <1>4, <1>6 DEF IsTurned

Balanced(t, N, h) == Levels(t, N, t.red, h, NULL, "left")

(* Where nothing lacks, q and d do not matter.                             *)
LEMMA NothingLacks ==
  ASSUME NEW t, NEW N, NULL \notin N, NEW red, NEW h, NEW d, Levels(t, N, red, h, NULL, d), NEW d1
  PROVE  Levels(t, N, red, h, NULL, d1)
<1>1. \A n \in N : \A s : Lack(NULL, d, n, s) = Lack(NULL, d1, n, s)
  BY DEF Lack
<1> QED
  BY <1>1 DEF Levels, Level

LEMMA LinkedIs ==
  ASSUME NEW t, NEW N, NEW D, Linked(t, N, D)
  PROVE  t \in Trees /\ N \subseteq Node /\ NULL \notin N /\ NULL \notin Node /\ N \subseteq Int /\ Node \subseteq Int
         /\ IsFiniteSet(N)
BY NodeAssumption DEF Linked

-----------------------------------------------------------------------------
(* INSERT_COLOR(): only e, which is red, may have a red parent. *)
Inserting(t, N, D, h, e) ==
  /\ Linked(t, N, D) /\ Balanced(t, N, h) /\ Reds(t, N, t.red, e)
  /\ e \in t.red /\ (t.root \in t.red => t.root = e)

(* The uncle is red too: elm goes up two levels.                           *)
LEMMA UncleRed ==
  ASSUME NEW t, NEW N, NEW D, NEW h, NEW e, Inserting(t, N, D, h, e),
         NEW p \in N, NEW g \in N, NEW s \in Side, NEW o, o = Other(s), NEW k, k = t[o][g],
         p = t.parent[e], e # t.root, p \in t.red, g \notin t.red, t[s][g] = p, k \in t.red,
         NEW red1, red1 = ((t.red \ {p}) \cup {g}) \ {k}, NEW u, u = PutRed(t, red1)
  PROVE  (\E h1 : Inserting(u, N, D, h1, g)) /\ SameOutside(u, t, N)
<1>1. /\ Linked(t, N, D) /\ Levels(t, N, t.red, h, NULL, "left") /\ Reds(t, N, t.red, e)
      /\ e \in t.red /\ (t.root \in t.red => t.root = e)
  BY DEF Inserting, Balanced
<1>2. t \in Trees /\ N \subseteq Node /\ NULL \notin N /\ t.red \subseteq N /\ e \in N
  BY <1>1, LinkedIs DEF Reds
<1>3. o \in Side /\ s # o /\ \A x \in Side : x = s \/ x = o
  BY SideIs
<1>4. /\ t.parent[p] = g /\ p # g /\ p # k /\ t.parent[k] = g /\ k # g /\ k \in N /\ p # NULL /\ k # NULL
      /\ p # t.root
  <2>1. p # NULL /\ k # NULL /\ k \in N
    BY <1>2
  <2>2. IsKid(t, N, D, g, s, p) /\ IsKid(t, N, D, g, o, k)
    BY <1>1, <1>3, <2>1, KidIs
  <2> QED
    BY <2>1, <2>2 DEF IsKid
<1>5. /\ h \in [Node \cup {NULL} -> Nat] /\ h[NULL] = 0
      /\ \A n \in N : \A x \in Side : h[n] = h[t[x][n]] + Black(t.red, n) + Lack(NULL, "left", n, x)
  BY <1>1 DEF Levels, Level
<1>6. PICK h1 : h1 = [h EXCEPT ![p] = h[p] + 1, ![k] = h[k] + 1]
  OBVIOUS
<1>7. /\ h1 \in [Node \cup {NULL} -> Nat] /\ h1[NULL] = 0 /\ h1[p] = h[p] + 1 /\ h1[k] = h[k] + 1
      /\ \A n \in Node \cup {NULL} : n # p /\ n # k => h1[n] = h[n]
  BY <1>2, <1>4, <1>5, <1>6
<1>8. \A n \in N : \A x : Lack(NULL, "left", n, x) = 0
  BY <1>2 DEF Lack
<1>9. \A n \in N : \A x \in Side : t[x][n] \in N \cup {NULL} /\ (t[x][n] # NULL => t.parent[t[x][n]] = n)
  BY <1>1, HangsIs
<1>10. \A n \in N \cup {NULL} : h[n] \in Nat
  BY <1>2, <1>5
<1>11. ASSUME NEW n \in {p, k}
       PROVE  Level(t, red1, h1, NULL, "left", n)
  <2> SUFFICES ASSUME NEW x \in Side, NEW c, c = t[x][n]
               PROVE  h1[n] = h1[c] + Black(red1, n) + Lack(NULL, "left", n, x)
    BY DEF Level
  <2>1. n \in N /\ n \in t.red /\ n \notin red1
    BY <1>4
  <2>2. c \in N \cup {NULL} /\ (c # NULL => t.parent[c] = n)
    BY <1>9, <2>1
  <2>3. c # p /\ c # k
    BY <1>4, <2>2
  <2>4. h[n] = h[c] + 0 + 0
    <3>1. Black(t.red, n) = 0 /\ Lack(NULL, "left", n, x) = 0
      BY <1>8, <2>1 DEF Black
    <3> QED
      BY <1>5, <2>1, <3>1
  <2>5. h1[c] = h[c] /\ h1[n] = h[n] + 1
    BY <1>2, <1>7, <2>2, <2>3
  <2>6. Black(red1, n) = 1 /\ Lack(NULL, "left", n, x) = 0
    BY <1>8, <2>1 DEF Black
  <2>7. h[c] \in Nat
    BY <1>10, <2>2
  <2> QED
    BY <2>4, <2>5, <2>6, <2>7
<1>12. Level(t, red1, h1, NULL, "left", g)
  <2> SUFFICES ASSUME NEW x \in Side, NEW c, c = t[x][g]
               PROVE  h1[g] = h1[c] + Black(red1, g) + Lack(NULL, "left", g, x)
    BY DEF Level
  <2>1. c = p \/ c = k
    BY <1>3
  <2>2. h[g] = h[c] + 1 + 0
    <3>1. Black(t.red, g) = 1 /\ Lack(NULL, "left", g, x) = 0
      BY <1>8 DEF Black
    <3> QED
      BY <1>5, <3>1
  <2>3. h1[c] = h[c] + 1 /\ h1[g] = h[g]
    BY <1>2, <1>4, <1>7, <2>1
  <2>4. Black(red1, g) = 0 /\ Lack(NULL, "left", g, x) = 0
    BY <1>4, <1>8 DEF Black
  <2>5. h[c] \in Nat
    BY <1>4, <1>10, <2>1
  <2> QED
    BY <2>2, <2>3, <2>4, <2>5
<1>13. PICK C \in SUBSET N : C = {p, k, g}
  BY <1>4
<1>14. \A n \in C : Level(t, red1, h1, NULL, "left", n)
  BY <1>11, <1>12, <1>13
<1>15. ASSUME NEW n \in N, n \notin C
       PROVE  /\ h1[n] = h[n] /\ (n \in red1 <=> n \in t.red)
              /\ \A x \in Side : h1[t[x][n]] + Lack(NULL, "left", n, x) = h[t[x][n]] + Lack(NULL, "left", n, x)
  <2>1. h1[n] = h[n] /\ (n \in red1 <=> n \in t.red)
    BY <1>2, <1>7, <1>13, <1>15
  <2>2. ASSUME NEW x \in Side, NEW c, c = t[x][n]
        PROVE  h1[c] = h[c]
    <3>1. c \in N \cup {NULL} /\ (c # NULL => t.parent[c] = n)
      BY <1>9, <2>2
    <3>2. c # p /\ c # k
      BY <1>4, <1>13, <1>15, <3>1
    <3> QED
      BY <1>2, <1>7, <3>1, <3>2
  <2> QED
    BY <2>1, <2>2
<1>16. Levels(t, N, red1, h1, NULL, "left")
  <2>1. OnlyAt(t, N, C, t.red, h, NULL, "left", red1, h1, NULL, "left")
    BY <1>1, <1>7, <1>14, <1>15 DEF OnlyAt
  <2> QED
    BY <1>1, <2>1, RecoloredLevels
<1>17. red1 \in SUBSET Node /\ red1 \subseteq N
  BY <1>2
<1>18. /\ Linked(u, N, D) /\ u.red = red1 /\ u.root = t.root /\ u.parent = t.parent
       /\ \A x \in Side : u[x] = t[x]
  BY <1>1, <1>17, Recolored
<1>19. Reds(t, N, red1, g)
  <2>1. ASSUME NEW m \in N, NEW x \in Side, NEW c, c = t[x][m], m \in red1, c \in red1, c # g
        PROVE  FALSE
    <3>1. m # g
      BY <1>3, <2>1
    <3>2. m \in t.red /\ c \in t.red
      BY <2>1, <3>1
    <3>3. c = e
      BY <1>1, <2>1, <3>2 DEF Reds
    <3>4. t.parent[c] = m
      BY <1>2, <1>9, <2>1, <3>2
    <3> QED
      BY <2>1, <3>3, <3>4
  <2> QED
    BY <1>17, <2>1 DEF Reds
<1>20. Levels(u, N, red1, h1, NULL, "left") /\ Reds(u, N, red1, g)
  BY <1>16, <1>18, <1>19, RecoloredRest
<1>21. u.root \in u.red => u.root = g
  BY <1>1, <1>18
<1>22. g \in red1
  BY <1>4
<1>23. SameOutside(u, t, N)
  BY <1>18 DEF SameOutside
<1> QED
  BY <1>18, <1>20, <1>21, <1>22, <1>23 DEF Inserting, Balanced

(* The last turn: a child that points outward is red below a red one. *)
UncleBlackTurned(t, N, D, h, top, e, g, s, k) ==
  /\ Linked(t, N, D) /\ Balanced(t, N, h) /\ Reds(t, N, t.red, e)
  /\ top \in t.red /\ g \in N /\ g \notin t.red /\ e \in t.red
  /\ s \in Side /\ t[s][g] = top /\ t[s][top] = e /\ t[Other(s)][g] = k /\ k \notin t.red
  /\ t.root \notin t.red

LEMMA UncleBlack ==
  ASSUME NEW t, NEW N, NEW D, NEW h, NEW top, NEW e, NEW g, NEW s, NEW k,
         UncleBlackTurned(t, N, D, h, top, e, g, s, k),
         NEW r, r = Rotate(SetBlackRed(t, top, g), g, Other(s))
  PROVE  (\E E, h1 : Inserting(r, N, E, h1, e)) /\ SameOutside(r, t, N)
<1>1. /\ Linked(t, N, D) /\ Levels(t, N, t.red, h, NULL, "left") /\ Reds(t, N, t.red, e)
      /\ top \in t.red /\ g \in N /\ g \notin t.red /\ e \in t.red
      /\ s \in Side /\ t[s][g] = top /\ t[s][top] = e /\ t[Other(s)][g] = k /\ k \notin t.red
      /\ t.root \notin t.red
  BY DEF UncleBlackTurned, Balanced
<1>2. t \in Trees /\ N \subseteq Node /\ NULL \notin N /\ t.red \subseteq N /\ e \in N /\ top \in N
  BY <1>1, LinkedIs DEF Reds
<1>3. PICK o \in Side : o = Other(s) /\ s = Other(o) /\ s # o /\ \A x \in Side : x = s \/ x = o
  BY <1>1, SideIs
<1>4. PICK red1 : red1 = (t.red \ {top}) \cup {g}
  OBVIOUS
<1>5. red1 \in SUBSET Node
  BY <1>1, <1>2, <1>4
<1>6. PICK v : v = PutRed(t, red1)
  OBVIOUS
<1>7. v = SetBlackRed(t, top, g)
  BY <1>4, <1>6 DEF PutRed, SetBlackRed
<1>8. /\ Linked(v, N, D) /\ v.red = red1 /\ v.root = t.root /\ v.parent = t.parent
      /\ \A x \in Side : v[x] = t[x]
  BY <1>1, <1>5, <1>6, Recolored
<1>9. Levels(v, N, t.red, h, NULL, "left") /\ Reds(v, N, t.red, e)
  BY <1>1, <1>8, RecoloredRest
<1>10. PICK i : i = t[o][top]
  OBVIOUS
<1>11. IsTurned(r, v, N, D, g, top, o, s, k, i, e)
  <2>1. v[s][g] = top /\ v[o][g] = k /\ v[o][top] = i /\ v[s][top] = e
    BY <1>1, <1>3, <1>8, <1>10
  <2>2. r = Rotate(v, g, o)
    BY <1>3, <1>7
  <2>3. s = Other(o) /\ top # NULL
    BY <1>2, <1>3
  <2> QED
    BY <1>1, <1>8, <2>1, <2>2, <2>3, TurnedIs
<1>12. PICK E : E = Swapped(v, N, D, g, top, o)
  OBVIOUS
<1>13. /\ Kids(r, v, N, g, top, o, s, k, i, e) /\ Linked(r, N, E) /\ r.red = red1
       /\ r.root = (IF g = t.root THEN top ELSE t.root) /\ SameOutside(r, v, N)
  BY <1>8, <1>11, <1>12 DEF IsTurned
<1>14. t.parent[e] = top /\ e # top /\ e # g /\ top # g
  <2>1. v.parent[e] = top /\ e # top /\ e # g /\ top # g
    BY <1>2, <1>13 DEF Kids
  <2> QED
    BY <1>8, <2>1
<1>15. i \notin t.red
  <2>1. i \in t.red => i = e
    BY <1>1, <1>2, <1>10 DEF Reds
  <2>2. i # NULL => i # e
    BY <1>13 DEF Kids
  <2> QED
    BY <1>2, <2>1, <2>2
<1>16. Reds(r, N, red1, e)
  BY <1>1, <1>4, <1>8, <1>9, <1>13, <1>14, <1>15, RedUpReds
<1>17. PICK h1 : Levels(r, N, red1, h1, NULL, "left")
  <2>1. NULL # top /\ NULL # g
    BY <1>1, <1>2
  <2> QED
    BY <1>1, <1>4, <1>9, <1>13, <2>1, RedUpLevels
<1>18. e \in red1
  BY <1>1, <1>4, <1>14
<1>19. r.root \notin r.red
  BY <1>1, <1>4, <1>13, <1>14
<1>20. SameOutside(r, t, N)
  BY <1>8, <1>13 DEF SameOutside
<1> QED
  BY <1>13, <1>16, <1>17, <1>18, <1>19, <1>20 DEF Inserting, Balanced

-----------------------------------------------------------------------------
(* The inner child is turned outward first.                                *)
LEMMA InnerTurned ==
  ASSUME NEW t, NEW N, NEW D, NEW h, NEW e, Inserting(t, N, D, h, e), t.root \notin t.red,
         NEW p \in N, NEW g \in N, NEW s \in Side, NEW o, o = Other(s), NEW k, k = t[o][g],
         p \in t.red, g \notin t.red, t[s][g] = p, k \notin t.red, t[o][p] = e,
         NEW r, r = Rotate(t, p, s)
  PROVE  (\E E : UncleBlackTurned(r, N, E, h, e, p, g, s, k)) /\ SameOutside(r, t, N)
<1>1. /\ Linked(t, N, D) /\ Levels(t, N, t.red, h, NULL, "left") /\ Reds(t, N, t.red, e) /\ e \in t.red
  BY DEF Inserting, Balanced
<1>2. t \in Trees /\ N \subseteq Node /\ NULL \notin N /\ t.red \subseteq N /\ e \in N
  BY <1>1, LinkedIs DEF Reds
<1>3. PICK a, i, b : a = t[s][p] /\ i = t[s][e] /\ b = t[o][e]
  OBVIOUS
<1>4. IsTurned(r, t, N, D, p, e, s, o, a, i, b)
  <2>1. e # NULL
    BY <1>2
  <2> QED
    BY <1>1, <1>3, <2>1, TurnedIs
<1>5. PICK E : E = Swapped(t, N, D, p, e, s)
  OBVIOUS
<1>6. /\ Kids(r, t, N, p, e, s, o, a, i, b) /\ Linked(r, N, E) /\ r.red = t.red
      /\ r.root = (IF p = t.root THEN e ELSE t.root) /\ SameOutside(r, t, N)
  BY <1>4, <1>5 DEF IsTurned
<1>7. g # p /\ g # e
  <2>1. g # p
    BY <1>6 DEF Kids
  <2> QED
    BY <1>1, <2>1
<1>8. r[s][g] = e /\ r[o][g] = k /\ r[s][e] = p
  <2>1. k # p
    <3>1. IsKid(t, N, D, g, s, p)
      BY <1>1, <1>2, KidIs
    <3> QED
      BY <3>1 DEF IsKid
  <2> QED
    BY <1>6, <1>7, <2>1 DEF Kids
<1>9. Levels(r, N, r.red, h, NULL, "left") /\ Reds(r, N, r.red, p)
  <2>1. NULL # p /\ NULL # e
    BY <1>2
  <2>2. Levels(r, N, t.red, h, NULL, "left")
    BY <1>1, <1>6, <2>1, TwoRedLevels
  <2>3. Reds(r, N, t.red, p)
    BY <1>1, <1>6, TwoRedReds
  <2> QED
    BY <1>6, <2>2, <2>3
<1>10. r.root \notin r.red
  BY <1>6
<1>11. UncleBlackTurned(r, N, E, h, e, p, g, s, k)
  BY <1>1, <1>6, <1>8, <1>9, <1>10 DEF UncleBlackTurned, Balanced
<1> QED
  BY <1>6, <1>11

(* What stays the same in two steps stays the same.                        *)
LEMMA SameTwice ==
  ASSUME NEW t, NEW u, NEW v, NEW N, SameOutside(u, t, N), SameOutside(v, u, N)
  PROVE  SameOutside(v, t, N)
BY DEF SameOutside

(* A turn of INSERT_COLOR(). *)
LEMMA InsertColorKeeps ==
  ASSUME NEW t, NEW N, NEW D, NEW h, NEW e, Inserting(t, N, D, h, e), ~InsertColored(t, e),
         NEW r, r = InsertColor(t, e)
  PROVE  (\E E, h1 : Inserting(r.tree, N, E, h1, r.node)) /\ SameOutside(r.tree, t, N)
<1>1. /\ Linked(t, N, D) /\ Levels(t, N, t.red, h, NULL, "left") /\ Reds(t, N, t.red, e) /\ e \in t.red
      /\ (t.root \in t.red => t.root = e)
  BY DEF Inserting, Balanced
<1>2. t \in Trees /\ N \subseteq Node /\ NULL \notin N /\ t.red \subseteq N /\ e \in N
  BY <1>1, LinkedIs DEF Reds
<1>3. PICK p : p = t.parent[e]
  OBVIOUS
<1>4. p \in t.red /\ p \in N
  BY <1>2, <1>3 DEF InsertColored, IsRed
<1>5. e # t.root
  BY <1>1, <1>2, <1>3, <1>4 DEF Linked
<1>6. p # e /\ \E x \in Side : t[x][p] = e /\ t[Other(x)][p] # e
  BY <1>1, <1>2, <1>3, <1>5, UpIs
<1>7. p # t.root /\ t.root \notin t.red
  BY <1>1, <1>4, <1>5
<1>8. PICK g : g = t.parent[p]
  OBVIOUS
<1>9. g \in N /\ \E x \in Side : t[x][g] = p /\ t[Other(x)][g] # p
  BY <1>1, <1>4, <1>7, <1>8, UpIs
<1>10. PICK s \in Side : t[s][g] = p /\ t[Other(s)][g] # p
  BY <1>9
<1>11. SideOf(t, p) = s
  BY <1>2, <1>8, <1>10, SideOfIs
<1>12. g \notin t.red
  BY <1>1, <1>4, <1>6, <1>9, <1>10 DEF Reds
<1>13. PICK o \in Side : o = Other(s) /\ s # o /\ \A x \in Side : x = s \/ x = o
  BY SideIs
<1>14. PICK k : k = t[o][g]
  OBVIOUS
<1>15. IsRed(t, k) <=> k \in t.red
  BY <1>2 DEF IsRed
<1>16. CASE k \in t.red
  <2>1. PICK red1 : red1 = ((t.red \ {p}) \cup {g}) \ {k}
    OBVIOUS
  <2>2. PICK u : u = PutRed(t, red1)
    OBVIOUS
  <2>3. r.node = g /\ r.tree = [SetBlackRed(t, p, g) EXCEPT !.red = @ \ {k}]
    BY <1>3, <1>8, <1>11, <1>13, <1>14, <1>15, <1>16 DEF InsertColor
  <2>4. r.tree = u
    <3>1. [SetBlackRed(t, p, g) EXCEPT !.red = @ \ {k}] = [t EXCEPT !.red = red1]
      BY <1>2, <2>1 DEF SetBlackRed, Trees
    <3> QED
      BY <2>2, <2>3, <3>1 DEF PutRed
  <2>5. (\E h1 : Inserting(u, N, D, h1, g)) /\ SameOutside(u, t, N)
    BY <1>3, <1>4, <1>5, <1>9, <1>10, <1>12, <1>13, <1>14, <1>16, <2>1, <2>2, UncleRed
  <2> QED
    BY <2>3, <2>4, <2>5
<1>17. CASE k \notin t.red /\ t[o][p] = e
  <2>1. PICK t1 : t1 = Rotate(t, p, s)
    OBVIOUS
  <2>2. r.node = p /\ r.tree = Rotate(SetBlackRed(t1, e, g), g, Other(s))
    BY <1>3, <1>8, <1>11, <1>13, <1>14, <1>15, <1>17, <2>1 DEF InsertColor
  <2>3. PICK E : UncleBlackTurned(t1, N, E, h, e, p, g, s, k) /\ SameOutside(t1, t, N)
    BY <1>4, <1>7, <1>9, <1>10, <1>12, <1>13, <1>14, <1>17, <2>1, InnerTurned
  <2>4. (\E F, h1 : Inserting(r.tree, N, F, h1, p)) /\ SameOutside(r.tree, t1, N)
    BY <2>2, <2>3, UncleBlack
  <2> QED
    BY <2>2, <2>3, <2>4, SameTwice
<1>18. CASE k \notin t.red /\ t[o][p] # e
  <2>1. r.node = e /\ r.tree = Rotate(SetBlackRed(t, p, g), g, Other(s))
    BY <1>3, <1>8, <1>11, <1>13, <1>14, <1>15, <1>18 DEF InsertColor
  <2>2. t[s][p] = e
    BY <1>6, <1>13, <1>18
  <2>3. UncleBlackTurned(t, N, D, h, p, e, g, s, k)
    BY <1>1, <1>4, <1>7, <1>9, <1>10, <1>12, <1>13, <1>14, <1>18, <2>2 DEF UncleBlackTurned, Balanced
  <2>4. (\E F, h1 : Inserting(r.tree, N, F, h1, e)) /\ SameOutside(r.tree, t, N)
    BY <2>1, <2>3, UncleBlack
  <2> QED
    BY <2>1, <2>4
<1> QED
  BY <1>16, <1>17, <1>18

(* What it ends with. *)
RedBlack(t, N, D, h) ==
  Linked(t, N, D) /\ Balanced(t, N, h) /\ Reds(t, N, t.red, NULL) /\ t.root \notin t.red

-----------------------------------------------------------------------------
(* REMOVE_COLOR(): below p, on the side d, where e hangs, a black node is  *)
(* missing; two red nodes follow one another only where e is one of them.  *)
RedsBut(t, N, red, e) ==
  /\ red \subseteq N
  /\ \A n \in N : \A s \in Side : n \in red /\ t[s][n] \in red => n = e \/ t[s][n] = e

Lacking(t, N, D, h, p, e, d) ==
  /\ Linked(t, N, D) /\ Levels(t, N, t.red, h, p, d) /\ RedsBut(t, N, t.red, e) /\ t.root \notin t.red
  /\ p \in N /\ d \in Side /\ t[d][p] = e

Whole(t, N, D, h) ==
  /\ Linked(t, N, D) /\ Balanced(t, N, h) /\ RedsBut(t, N, t.red, t.root)

(* The one whose side is short has a sibling, and a black one was to be    *)
(* there.                                                                  *)
LEMMA SiblingIs ==
  ASSUME NEW t, NEW N, NEW D, NEW h, NEW p, NEW e, NEW d, Lacking(t, N, D, h, p, e, d),
         NEW s, s = t[Other(d)][p]
  PROVE  /\ s \in N /\ s # NULL /\ s # e /\ s # p /\ e # p /\ e \in N \cup {NULL} /\ e # t.root /\ s # t.root
         /\ t.parent[s] = p /\ (e # NULL => t.parent[e] = p)
         /\ h[s] = h[e] + 1
<1>1. /\ Linked(t, N, D) /\ p \in N /\ d \in Side /\ t[d][p] = e /\ Levels(t, N, t.red, h, p, d)
  BY DEF Lacking
<1>2. N \subseteq Node /\ NULL \notin N
  BY <1>1, LinkedIs
<1>3. PICK o \in Side : o = Other(d) /\ d # o /\ d = Other(o)
  BY <1>1, SideIs
<1>4. e \in N \cup {NULL} /\ s \in N \cup {NULL}
  BY <1>1, <1>3, HangsIs
<1>5. h[e] \in Nat /\ h[s] \in Nat /\ h[NULL] = 0
  BY <1>1, <1>2, <1>4 DEF Levels
<1>6. h[p] = h[e] + Black(t.red, p) + 1 /\ h[p] = h[s] + Black(t.red, p) + 0
  <2>1. h[p] = h[e] + Black(t.red, p) + Lack(p, d, p, d) /\ h[p] = h[s] + Black(t.red, p) + Lack(p, d, p, o)
    BY <1>1, <1>3 DEF Levels, Level
  <2>2. Lack(p, d, p, d) = 1 /\ Lack(p, d, p, o) = 0
    BY <1>3 DEF Lack
  <2> QED
    BY <2>1, <2>2
<1>7. h[s] = h[e] + 1
  <2>1. Black(t.red, p) \in Nat
    BY DEF Black
  <2> QED
    BY <1>5, <1>6, <2>1
<1>8. s # NULL
  BY <1>5, <1>7
<1>9. IsKid(t, N, D, p, o, s)
  BY <1>1, <1>3, <1>8, KidIs
<1>10. e # NULL => IsKid(t, N, D, p, d, e)
  BY <1>1, KidIs
<1>11. e # t.root
  <2>1. t.root # NULL
    BY <1>1, <1>2 DEF Linked
  <2> QED
    BY <1>10, <2>1 DEF IsKid
<1> QED
  BY <1>1, <1>2, <1>3, <1>4, <1>7, <1>8, <1>9, <1>10, <1>11 DEF IsKid

(* Colours that are taken and given away from a node.                      *)
LEMMA BlackAway ==
  ASSUME NEW t, NEW N, NEW red, NEW e, RedsBut(t, N, red, e), e \notin red
  PROVE  Reds(t, N, red, e)
BY DEF Reds, RedsBut

LEMMA SameRecolored ==
  ASSUME NEW t, NEW v, NEW r, NEW N, SameOutside(r, v, N), v.parent = t.parent, \A x \in Side : v[x] = t[x]
  PROVE  SameOutside(r, t, N)
BY DEF SameOutside

LEMMA BlackBut ==
  ASSUME NEW t, NEW N, NEW red, NEW e, Reds(t, N, red, e)
  PROVE  RedsBut(t, N, red, e)
BY DEF Reds, RedsBut

(* The sibling is red. *)
LEMMA SiblingRed ==
  ASSUME NEW t, NEW N, NEW D, NEW h, NEW p, NEW e, NEW d, Lacking(t, N, D, h, p, e, d), e \notin t.red,
         NEW o, o = Other(d), NEW s, s = t[o][p], s \in t.red,
         NEW r, r = Rotate(SetBlackRed(t, s, p), p, d)
  PROVE  /\ \E E, h1 : Lacking(r, N, E, h1, p, e, d)
         /\ r[o][p] \notin r.red /\ e \notin r.red /\ SameOutside(r, t, N)
<1>1. /\ Linked(t, N, D) /\ Levels(t, N, t.red, h, p, d) /\ Reds(t, N, t.red, e) /\ t.root \notin t.red
      /\ p \in N /\ d \in Side /\ t[d][p] = e
  BY BlackAway DEF Lacking
<1>2. t \in Trees /\ N \subseteq Node /\ NULL \notin N /\ t.red \subseteq N
  BY <1>1, LinkedIs DEF Reds
<1>3. s \in N /\ s # NULL /\ s # e /\ s # p /\ e # p /\ s # t.root
  BY SiblingIs
<1>4. o \in Side /\ d # o /\ d = Other(o)
  BY <1>1, SideIs
<1>5. p \notin t.red
  BY <1>1, <1>3, <1>4 DEF Reds
<1>6. PICK red1 : red1 = (t.red \ {s}) \cup {p}
  OBVIOUS
<1>7. red1 \in SUBSET Node
  BY <1>1, <1>2, <1>6
<1>8. PICK v : v = PutRed(t, red1)
  OBVIOUS
<1>9. v = SetBlackRed(t, s, p)
  BY <1>6, <1>8 DEF PutRed, SetBlackRed
<1>10. /\ Linked(v, N, D) /\ v.red = red1 /\ v.root = t.root /\ v.parent = t.parent
       /\ \A x \in Side : v[x] = t[x]
  BY <1>1, <1>7, <1>8, Recolored
<1>11. Levels(v, N, t.red, h, p, d) /\ Reds(v, N, t.red, e)
  BY <1>1, <1>10, RecoloredRest
<1>12. PICK i, b : i = t[d][s] /\ b = t[o][s]
  OBVIOUS
<1>13. IsTurned(r, v, N, D, p, s, d, o, e, i, b)
  <2>1. v[d][p] = e /\ v[o][p] = s /\ v[d][s] = i /\ v[o][s] = b
    BY <1>1, <1>4, <1>10, <1>12
  <2>2. r = Rotate(v, p, d)
    BY <1>9
  <2> QED
    BY <1>1, <1>3, <1>10, <2>1, <2>2, TurnedIs
<1>14. PICK E : E = Swapped(v, N, D, p, s, d)
  OBVIOUS
<1>15. /\ Kids(r, v, N, p, s, d, o, e, i, b) /\ Linked(r, N, E) /\ r.red = red1
       /\ r.root = (IF p = t.root THEN s ELSE t.root) /\ SameOutside(r, v, N)
  BY <1>10, <1>13, <1>14 DEF IsTurned
<1>16. i \notin t.red
  <2>1. i \in t.red => i = e
    BY <1>1, <1>3, <1>12 DEF Reds
  <2> QED
    BY <2>1
<1>17. \A f : Reds(r, N, red1, f)
  BY <1>6, <1>11, <1>15, <1>16, RedUpReds
<1>18. PICK h1 : Levels(r, N, red1, h1, p, d)
  BY <1>3, <1>5, <1>6, <1>11, <1>15, RedUpLevels
<1>19. r.root \notin red1
  BY <1>1, <1>3, <1>6, <1>15
<1>20. r[d][p] = e /\ r[o][p] = i
  BY <1>15 DEF Kids
<1>21. i \notin red1 /\ e \notin red1
  <2>1. i # p
    BY <1>15 DEF Kids
  <2> QED
    BY <1>3, <1>6, <1>16, <2>1
<1>22. SameOutside(r, t, N)
  BY <1>10, <1>15 DEF SameOutside
<1>23. RedsBut(r, N, red1, e)
  BY <1>17, BlackBut
<1>24. Lacking(r, N, E, h1, p, e, d)
  BY <1>1, <1>15, <1>18, <1>19, <1>20, <1>23 DEF Lacking
<1> QED
  BY <1>15, <1>20, <1>21, <1>22, <1>24

(* Its children are both black: it turns red, and p is a black node short. *)
LEMMA SiblingTurnsRed ==
  ASSUME NEW t, NEW N, NEW D, NEW h, NEW p, NEW e, NEW d, Lacking(t, N, D, h, p, e, d), e \notin t.red,
         NEW s, s = t[Other(d)][p], s \notin t.red, \A x \in Side : t[x][s] \notin t.red,
         NEW u, u = PutRed(t, t.red \cup {s})
  PROVE  /\ IF p = u.root THEN \E h1 : Whole(u, N, D, h1)
            ELSE \E h1, c : Lacking(u, N, D, h1, t.parent[p], p, c)
         /\ SameOutside(u, t, N)
<1>1. /\ Linked(t, N, D) /\ Levels(t, N, t.red, h, p, d) /\ Reds(t, N, t.red, e) /\ t.root \notin t.red
      /\ p \in N /\ d \in Side /\ t[d][p] = e
  BY BlackAway DEF Lacking
<1>2. t \in Trees /\ N \subseteq Node /\ NULL \notin N /\ t.red \subseteq N
  BY <1>1, LinkedIs DEF Reds
<1>3. /\ s \in N /\ s # NULL /\ s # e /\ s # p /\ e # p /\ s # t.root /\ t.parent[s] = p /\ e \in N \cup {NULL}
      /\ h[s] = h[e] + 1
  BY SiblingIs
<1>4. PICK o \in Side : o = Other(d) /\ d # o /\ d = Other(o) /\ \A x \in Side : x = d \/ x = o
  BY <1>1, SideIs
<1>5. PICK red1 : red1 = t.red \cup {s}
  OBVIOUS
<1>6. red1 \in SUBSET Node /\ red1 \subseteq N
  BY <1>2, <1>3, <1>5
<1>7. /\ Linked(u, N, D) /\ u.red = red1 /\ u.root = t.root /\ u.parent = t.parent
      /\ \A x \in Side : u[x] = t[x]
  BY <1>1, <1>5, <1>6, Recolored
<1>8. /\ h \in [Node \cup {NULL} -> Nat] /\ h[NULL] = 0
      /\ \A n \in N : \A x \in Side : h[n] = h[t[x][n]] + Black(t.red, n) + Lack(p, d, n, x)
  BY <1>1 DEF Levels, Level
<1>9. \A n \in N : \A x \in Side : t[x][n] \in N \cup {NULL} /\ (t[x][n] # NULL => t.parent[t[x][n]] = n)
  BY <1>1, HangsIs
<1>10. \A n \in N \cup {NULL} : h[n] \in Nat
  BY <1>2, <1>8
<1>11. PICK c \in Nat : c = Black(t.red, p)
  BY DEF Black
<1>12. h[p] = h[e] + c + 1 /\ h[p] = h[s] + c
  <2>1. h[p] = h[e] + Black(t.red, p) + Lack(p, d, p, d)
    BY <1>1, <1>8
  <2>2. Lack(p, d, p, d) = 1
    BY DEF Lack
  <2> QED
    BY <1>3, <1>10, <1>11, <2>1, <2>2
<1>13. PICK y, z, h1 : y = h[e] /\ z = h[e] + c /\ h1 = [h EXCEPT ![s] = y, ![p] = z]
  OBVIOUS
<1>14. /\ h1 \in [Node \cup {NULL} -> Nat] /\ h1[NULL] = 0 /\ h1[s] = h[e] /\ h1[p] = h[e] + c
       /\ \A n \in Node \cup {NULL} : n # p /\ n # s => h1[n] = h[n]
  <2>1. y \in Nat /\ z \in Nat /\ s \in Node /\ p \in Node /\ s # NULL /\ p # NULL /\ s # p
    BY <1>1, <1>2, <1>3, <1>10, <1>13
  <2>2. /\ h1 \in [Node \cup {NULL} -> Nat] /\ h1[NULL] = 0 /\ h1[s] = y /\ h1[p] = z
        /\ \A n \in Node \cup {NULL} : n # p /\ n # s => h1[n] = h[n]
    BY <1>8, <1>13, <2>1
  <2> QED
    BY <1>13, <2>2
<1>15. PICK q, f : /\ IF p = t.root THEN q = NULL /\ f = "left"
                      ELSE q = t.parent[p] /\ q \in N /\ q # p /\ f \in Side /\ t[f][q] = p /\ t[Other(f)][q] # p
                   /\ q \notin {p, s}
  <2>1. CASE p = t.root
    BY <1>2, <1>1, <1>3, <2>1
  <2>2. CASE p # t.root
    <3>1. t.parent[p] \in N /\ t.parent[p] # p /\ \E x \in Side : t[x][t.parent[p]] = p /\ t[Other(x)][t.parent[p]] # p
      BY <1>1, <2>2, UpIs
    <3>2. PICK x \in Side : t[x][t.parent[p]] = p /\ t[Other(x)][t.parent[p]] # p
      BY <3>1
    <3>3. t.parent[p] # s
      <4>1. IsKid(t, N, D, p, o, s)
        BY <1>1, <1>3, <1>4, KidIs
      <4>2. t.parent[p] = s => IsKid(t, N, D, s, x, p)
        BY <1>1, <1>2, <1>3, <3>2, KidIs
      <4> QED
        BY <1>1, <4>1, <4>2 DEF IsKid
    <3> QED
      BY <2>2, <3>1, <3>2, <3>3
  <2> QED
    BY <2>1, <2>2
<1>16. Level(t, red1, h1, q, f, s)
  <2> SUFFICES ASSUME NEW x \in Side, NEW k, k = t[x][s]
               PROVE  h1[s] = h1[k] + Black(red1, s) + Lack(q, f, s, x)
    BY DEF Level
  <2>1. k \in N \cup {NULL} /\ (k # NULL => t.parent[k] = s)
    BY <1>3, <1>9
  <2>2. k # p /\ k # s
    <3>1. k = p => t.parent[p] = s
      BY <1>1, <1>2, <2>1
    <3>2. p = t.root => t.parent[p] = NULL
      BY <1>1 DEF Linked
    <3>3. t.parent[p] # s
      BY <1>3, <1>15, <3>2
    <3>4. k # s
      BY <1>3, <2>1
    <3> QED
      BY <3>1, <3>3, <3>4
  <2>3. h[s] = h[k] + 1 + 0
    <3>1. Black(t.red, s) = 1 /\ Lack(p, d, s, x) = 0
      BY <1>3 DEF Black, Lack
    <3> QED
      BY <1>3, <1>8, <3>1
  <2>4. h1[k] = h[k]
    BY <1>2, <1>14, <2>1, <2>2
  <2>5. Black(red1, s) = 0 /\ Lack(q, f, s, x) = 0
    BY <1>5, <1>15 DEF Black, Lack
  <2>6. h[k] \in Nat /\ h[e] \in Nat
    BY <1>3, <1>10, <2>1
  <2> QED
    BY <1>3, <1>14, <2>3, <2>4, <2>5, <2>6
<1>17. Level(t, red1, h1, q, f, p)
  <2> SUFFICES ASSUME NEW x \in Side, NEW k, k = t[x][p]
               PROVE  h1[p] = h1[k] + Black(red1, p) + Lack(q, f, p, x)
    BY DEF Level
  <2>1. k = e \/ k = s
    BY <1>1, <1>4
  <2>2. h1[k] = h[e]
    BY <1>2, <1>3, <1>14, <2>1
  <2>3. Black(red1, p) = c /\ Lack(q, f, p, x) = 0
    BY <1>3, <1>5, <1>11, <1>15 DEF Black, Lack
  <2>4. h[e] \in Nat
    BY <1>3, <1>10
  <2> QED
    BY <1>14, <2>2, <2>3, <2>4
<1>18. PICK C : C = {p, s}
  OBVIOUS
<1>19. ASSUME NEW n \in N, n \notin C
       PROVE  /\ h1[n] = h[n] /\ (n \in red1 <=> n \in t.red)
              /\ \A x \in Side : h1[t[x][n]] + Lack(q, f, n, x) = h[t[x][n]] + Lack(p, d, n, x)
  <2>1. h1[n] = h[n] /\ (n \in red1 <=> n \in t.red)
    BY <1>2, <1>5, <1>14, <1>18, <1>19
  <2>2. ASSUME NEW x \in Side, NEW k, k = t[x][n]
        PROVE  h1[k] + Lack(q, f, n, x) = h[k] + Lack(p, d, n, x)
    <3>1. k \in N \cup {NULL} /\ (k # NULL => t.parent[k] = n)
      BY <1>9, <2>2
    <3>2. Lack(p, d, n, x) = 0
      BY <1>18, <1>19 DEF Lack
    <3>3. k # s
      BY <1>3, <1>18, <1>19, <3>1
    <3>4. CASE k = p
      <4>1. t.parent[p] = n /\ n # NULL
        BY <1>1, <1>2, <3>1, <3>4
      <4>2. p # t.root
        BY <1>1, <4>1 DEF Linked
      <4>3. q = n /\ f \in Side /\ t[f][n] = p /\ t[Other(f)][n] # p
        BY <1>15, <4>1, <4>2
      <4>4. x = f
        BY <2>2, <3>4, <4>3, SideIs
      <4>5. Lack(q, f, n, x) = 1
        BY <4>3, <4>4 DEF Lack
      <4>6. h[e] \in Nat
        BY <1>3, <1>10
      <4> QED
        BY <1>12, <1>14, <3>2, <3>4, <4>5, <4>6
    <3>5. CASE k # p
      <4>1. Lack(q, f, n, x) = 0
        <5>1. ~(n = q /\ x = f)
          BY <1>2, <1>15, <2>2, <3>5
        <5> QED
          BY <5>1 DEF Lack
      <4>2. h1[k] = h[k]
        BY <1>2, <1>14, <3>1, <3>3, <3>5
      <4> QED
        BY <3>2, <4>1, <4>2
    <3> QED
      BY <3>4, <3>5
  <2> QED
    BY <2>1, <2>2
<1>20. OnlyAt(t, N, C, t.red, h, p, d, red1, h1, q, f)
  <2>1. \A n \in C : Level(t, red1, h1, q, f, n)
    BY <1>16, <1>17, <1>18
  <2> QED
    BY <1>1, <1>14, <1>19, <2>1 DEF OnlyAt
<1>21. Levels(u, N, red1, h1, q, f)
  <2>1. Levels(t, N, red1, h1, q, f)
    BY <1>1, <1>20, RecoloredLevels
  <2> QED
    BY <1>7, <2>1, RecoloredRest
<1>22. RedsBut(u, N, red1, p)
  <2>1. ASSUME NEW m \in N, NEW x \in Side, NEW k, k = t[x][m], m \in red1, k \in red1, m # p, k # p
        PROVE  FALSE
    <3>1. k \in N /\ t.parent[k] = m
      BY <1>2, <1>6, <1>9, <2>1
    <3>2. k # s
      BY <1>3, <2>1, <3>1
    <3>3. k \in t.red
      BY <1>5, <2>1, <3>2
    <3>4. m # s
      BY <2>1, <3>3
    <3>5. m \in t.red
      BY <1>5, <2>1, <3>4
    <3> QED
      BY <1>1, <2>1, <3>3, <3>5 DEF Reds
  <2> QED
    BY <1>6, <1>7, <2>1 DEF RedsBut
<1>23. u.root \notin red1
  BY <1>1, <1>3, <1>5, <1>7
<1>24. SameOutside(u, t, N)
  BY <1>7 DEF SameOutside
<1>25. p = t.root => Whole(u, N, D, h1)
  BY <1>7, <1>15, <1>21, <1>22 DEF Whole, Balanced
<1>26. p # t.root => Lacking(u, N, D, h1, t.parent[p], p, f)
  BY <1>7, <1>15, <1>21, <1>22, <1>23 DEF Lacking
<1> QED
  BY <1>7, <1>24, <1>25, <1>26

(* The near child of the sibling is red, and takes its place. *)
LEMMA NearUp ==
  ASSUME NEW t, NEW N, NEW D, NEW h, NEW p, NEW e, NEW d, Lacking(t, N, D, h, p, e, d), e \notin t.red,
         NEW o, o = Other(d), NEW s, s = t[o][p], s \notin t.red,
         NEW near, near = t[d][s], near \in t.red, t[o][s] \notin t.red,
         NEW r, r = Rotate(SetBlackRed(t, near, s), s, o)
  PROVE  /\ \E E, h1 : Lacking(r, N, E, h1, p, e, d)
         /\ e \notin r.red /\ r[o][p] = near /\ near \notin r.red /\ r[o][near] \in r.red
         /\ SameOutside(r, t, N)
<1>1. /\ Linked(t, N, D) /\ Levels(t, N, t.red, h, p, d) /\ Reds(t, N, t.red, e) /\ t.root \notin t.red
      /\ p \in N /\ d \in Side /\ t[d][p] = e
  BY BlackAway DEF Lacking
<1>2. t \in Trees /\ N \subseteq Node /\ NULL \notin N /\ t.red \subseteq N
  BY <1>1, LinkedIs DEF Reds
<1>3. s \in N /\ s # NULL /\ s # e /\ s # p /\ e # p /\ s # t.root /\ t.parent[s] = p /\ e \in N \cup {NULL}
  BY SiblingIs
<1>4. o \in Side /\ d # o /\ d = Other(o)
  BY <1>1, SideIs
<1>5. near \in N /\ near # NULL
  BY <1>2
<1>6. PICK red1 : red1 = (t.red \ {near}) \cup {s}
  OBVIOUS
<1>7. red1 \in SUBSET Node
  BY <1>2, <1>3, <1>6
<1>8. PICK v : v = PutRed(t, red1)
  OBVIOUS
<1>9. /\ Linked(v, N, D) /\ v.red = red1 /\ v.root = t.root /\ v.parent = t.parent
      /\ \A x \in Side : v[x] = t[x]
  BY <1>1, <1>7, <1>8, Recolored
<1>10. Levels(v, N, t.red, h, p, d) /\ Reds(v, N, t.red, e)
  BY <1>1, <1>9, RecoloredRest
<1>11. PICK a, i, b : a = t[o][s] /\ i = t[o][near] /\ b = t[d][near]
  OBVIOUS
<1>12. IsTurned(r, v, N, D, s, near, o, d, a, i, b)
  <2>1. v[o][s] = a /\ v[d][s] = near /\ v[o][near] = i /\ v[d][near] = b
    BY <1>1, <1>4, <1>9, <1>11
  <2>2. r = Rotate(v, s, o)
    BY <1>6, <1>8 DEF PutRed, SetBlackRed
  <2> QED
    BY <1>3, <1>4, <1>5, <1>9, <2>1, <2>2, TurnedIs
<1>13. PICK E : E = Swapped(v, N, D, s, near, o)
  OBVIOUS
<1>14. /\ Kids(r, v, N, s, near, o, d, a, i, b) /\ Linked(r, N, E) /\ r.red = red1
       /\ r.root = t.root /\ SameOutside(r, v, N)
  BY <1>3, <1>9, <1>12, <1>13 DEF IsTurned
<1>15. i \notin t.red /\ a \notin t.red
  <2>1. i \in t.red => i = e
    BY <1>1, <1>4, <1>5, <1>11 DEF Reds
  <2> QED
    BY <1>11, <2>1
<1>16. \A f : Reds(r, N, red1, f)
  BY <1>6, <1>10, <1>14, <1>15, RedUpReds, SMTT(30)
<1>17. near # p /\ near # s
  <2>1. t.parent[near] = s
    BY <1>1, <1>3, <1>5, HangsIs
  <2>2. near # s
    BY <1>14 DEF Kids
  <2>3. near = p => t.parent[p] = s
    BY <2>1
  <2>4. t.parent[p] # s
    <3>1. p = t.root => t.parent[p] = NULL
      BY <1>1 DEF Linked
    <3>2. IsKid(t, N, D, p, o, s)
      BY <1>1, <1>3, <1>4, KidIs
    <3>3. p # t.root => t.parent[p] \in N /\ \E x \in Side : t[x][t.parent[p]] = p
      BY <1>1, UpIs
    <3>4. \A x \in Side : t[x][s] = p => IsKid(t, N, D, s, x, p)
      BY <1>1, <1>2, <1>3, KidIs
    <3>5. \A x \in Side : t[x][s] # p
      BY <1>1, <3>2, <3>4 DEF IsKid
    <3> QED
      BY <1>3, <3>1, <3>3, <3>5
  <2> QED
    BY <2>2, <2>3, <2>4
<1>18. PICK h1 : Levels(r, N, red1, h1, p, d)
  <2>1. /\ Kids(r, v, N, s, near, o, d, a, i, b) /\ Levels(v, N, t.red, h, p, d)
        /\ near \in t.red /\ s \notin t.red /\ p # near /\ (p = s => d = o)
        /\ red1 = (t.red \ {near}) \cup {s}
    BY <1>3, <1>6, <1>10, <1>14, <1>17
  <2> QED
    BY ONLY <2>1, RedUpLevels
<1>19. r[d][p] = e /\ r[o][p] = near /\ r[o][near] = s
  <2>1. v[d][p] = e /\ v[o][p] = s
    BY <1>1, <1>4, <1>9
  <2> QED
    BY <1>1, <1>3, <1>4, <1>14, <1>17, <2>1 DEF Kids
<1>20. r.root \notin red1 /\ e \notin red1 /\ near \notin red1 /\ s \in red1
  <2>1. r.root = t.root
    BY <1>14
  <2> QED
    BY <1>1, <1>3, <1>6, <1>17, <2>1
<1>21. SameOutside(r, t, N)
  <2>1. SameOutside(r, v, N)
    BY <1>14
  <2> QED
    BY <1>9, <2>1, SameRecolored
<1>22. RedsBut(r, N, red1, e)
  BY <1>16, BlackBut
<1>23. Lacking(r, N, E, h1, p, e, d)
  BY <1>1, <1>14, <1>18, <1>19, <1>20, <1>22 DEF Lacking
<1> QED
  BY <1>14, <1>19, <1>20, <1>21, <1>23

(* Its outer child is red: the last rotation. *)
LEMMA OuterRed ==
  ASSUME NEW t, NEW N, NEW D, NEW h, NEW p, NEW e, NEW d, Lacking(t, N, D, h, p, e, d), e \notin t.red,
         NEW o, o = Other(d), NEW s, s = t[o][p], s \notin t.red, NEW b, b = t[o][s], b \in t.red,
         NEW red1, red1 = (t.red \ {s, p, b}) \cup (IF p \in t.red THEN {s} ELSE {}),
         NEW r, r = Rotate(PutRed(t, red1), p, d)
  PROVE  (\E E, h1 : Whole(r, N, E, h1)) /\ SameOutside(r, t, N)
<1>1. /\ Linked(t, N, D) /\ Levels(t, N, t.red, h, p, d) /\ Reds(t, N, t.red, e) /\ t.root \notin t.red
      /\ p \in N /\ d \in Side /\ t[d][p] = e
  BY BlackAway DEF Lacking
<1>2. t \in Trees /\ N \subseteq Node /\ NULL \notin N /\ t.red \subseteq N
  BY <1>1, LinkedIs DEF Reds
<1>3. s \in N /\ s # NULL /\ s # e /\ s # p /\ e # p /\ s # t.root
  BY SiblingIs
<1>4. o \in Side /\ d # o /\ d = Other(o)
  BY <1>1, SideIs
<1>5. red1 \in SUBSET Node
  BY <1>2, <1>3
<1>6. PICK v : v = PutRed(t, red1)
  OBVIOUS
<1>7. /\ Linked(v, N, D) /\ v.red = red1 /\ v.root = t.root /\ v.parent = t.parent
      /\ \A x \in Side : v[x] = t[x]
  BY <1>1, <1>5, <1>6, Recolored
<1>8. Levels(v, N, t.red, h, p, d) /\ Reds(v, N, t.red, e)
  BY <1>1, <1>7, RecoloredRest
<1>9. PICK i : i = t[d][s]
  OBVIOUS
<1>10. IsTurned(r, v, N, D, p, s, d, o, e, i, b)
  <2>1. v[d][p] = e /\ v[o][p] = s /\ v[d][s] = i /\ v[o][s] = b
    BY <1>1, <1>4, <1>7, <1>9
  <2>2. r = Rotate(v, p, d)
    BY <1>6
  <2> QED
    BY <1>1, <1>3, <1>7, <2>1, <2>2, TurnedIs
<1>11. PICK E : E = Swapped(v, N, D, p, s, d)
  OBVIOUS
<1>12. /\ Kids(r, v, N, p, s, d, o, e, i, b) /\ Linked(r, N, E) /\ r.red = red1 /\ SameOutside(r, v, N)
  BY <1>7, <1>10, <1>11 DEF IsTurned
<1>13. \A f : Reds(r, N, red1, f)
  BY <1>8, <1>12, LastReds
<1>14. b # NULL
  BY <1>2
<1>15. PICK h1 : Levels(r, N, red1, h1, NULL, d)
  BY <1>8, <1>12, <1>14, LastLevels
<1>16. Balanced(r, N, h1)
  <2>1. Levels(r, N, red1, h1, NULL, "left")
    BY <1>2, <1>15, NothingLacks
  <2>2. r.red = red1
    BY <1>12
  <2> QED
    BY <2>1, <2>2 DEF Balanced
<1>17. RedsBut(r, N, r.red, r.root)
  <2>1. r.red = red1
    BY <1>12
  <2>2. Reds(r, N, red1, r.root)
    BY <1>13
  <2> QED
    BY <2>1, <2>2, BlackBut
<1>18. SameOutside(r, t, N)
  BY <1>7, <1>12, SMTT(30) DEF SameOutside
<1> QED
  BY <1>12, <1>16, <1>17, <1>18 DEF Whole

-----------------------------------------------------------------------------
(* The turn of REMOVE_COLOR() is one of the cases above, on either side.   *)
LEMMA KidsIn ==
  ASSUME NEW t, NEW N, NEW D, Linked(t, N, D)
  PROVE  \A n \in N : \A x \in Side : t[x][n] \in N \cup {NULL} /\ (t[x][n] # NULL => t.parent[t[x][n]] = n)
BY HangsIs

LEMMA IsRedIs ==
  ASSUME NEW t, NEW N, NEW D, NEW h, NEW p, NEW e, NEW d, Lacking(t, N, D, h, p, e, d), NEW n
  PROVE  IsRed(t, n) <=> n \in t.red
BY LinkedIs DEF Lacking, RedsBut, IsRed

LEMMA BlackSiblingKeeps ==
  ASSUME NEW t, NEW N, NEW D, NEW h, NEW p, NEW e, NEW d, Lacking(t, N, D, h, p, e, d), e \notin t.red,
         NEW o, o = Other(d), NEW r, r = BlackSibling(t, p, d)
  PROVE  /\ \E E, h1 : Lacking(r, N, E, h1, p, e, d)
         /\ e \notin r.red /\ r[o][p] \notin r.red /\ SameOutside(r, t, N)
<1>1. PICK s : s = t[o][p]
  OBVIOUS
<1>2. IsRed(t, s) <=> s \in t.red
  BY IsRedIs
<1>3. CASE s \in t.red
  <2>1. r = Rotate(SetBlackRed(t, s, p), p, d)
    BY <1>1, <1>2, <1>3 DEF BlackSibling
  <2> QED
    BY <1>1, <1>3, <2>1, SiblingRed
<1>4. CASE s \notin t.red
  <2>1. r = t
    BY <1>1, <1>2, <1>4 DEF BlackSibling
  <2>2. SameOutside(t, t, N)
    BY DEF SameOutside
  <2> QED
    BY <1>1, <1>4, <2>1, <2>2
<1> QED
  BY <1>3, <1>4

LEMMA RedOuterKeeps ==
  ASSUME NEW t, NEW N, NEW D, NEW h, NEW p, NEW e, NEW d, Lacking(t, N, D, h, p, e, d), e \notin t.red,
         NEW o, o = Other(d), NEW s, s = t[o][p], s \notin t.red, t[d][s] \in t.red \/ t[o][s] \in t.red,
         NEW r, r = RedOuter(t, p, d)
  PROVE  /\ \E E, h1 : Lacking(r, N, E, h1, p, e, d)
         /\ e \notin r.red /\ r[o][p] \notin r.red /\ r[o][r[o][p]] \in r.red /\ SameOutside(r, t, N)
<1>1. IsRed(t, t[o][s]) <=> t[o][s] \in t.red
  BY IsRedIs
<1>2. CASE t[o][s] \in t.red
  <2>1. r = t
    BY <1>1, <1>2 DEF RedOuter
  <2>2. SameOutside(t, t, N)
    BY DEF SameOutside
  <2> QED
    BY <1>2, <2>1, <2>2
<1>3. CASE t[o][s] \notin t.red
  <2>1. PICK near : near = t[d][s]
    OBVIOUS
  <2>2. r = Rotate(SetBlackRed(t, near, s), s, o)
    BY <1>1, <1>3, <2>1 DEF RedOuter
  <2>3. near \in t.red
    BY <1>3, <2>1
  <2>4. /\ \E E, h1 : Lacking(r, N, E, h1, p, e, d)
        /\ e \notin r.red /\ r[o][p] = near /\ near \notin r.red /\ r[o][near] \in r.red
        /\ SameOutside(r, t, N)
    BY ONLY Lacking(t, N, D, h, p, e, d), e \notin t.red, o = Other(d), s = t[o][p],
            s \notin t.red, <1>3, <2>1, <2>2, <2>3, NearUp
  <2> QED
    BY <2>4
<1> QED
  BY <1>2, <1>3

LEMMA MakeUpKeeps ==
  ASSUME NEW t, NEW N, NEW D, NEW h, NEW p, NEW e, NEW d, Lacking(t, N, D, h, p, e, d), e \notin t.red,
         NEW o, o = Other(d), NEW s, s = t[o][p], s \notin t.red, t[o][s] \in t.red,
         NEW r, r = MakeUp(t, p, d)
  PROVE  (\E E, h1 : Whole(r, N, E, h1)) /\ SameOutside(r, t, N)
<1>1. IsRed(t, p) <=> p \in t.red
  BY IsRedIs
<1>2. PICK b : b = t[o][s]
  OBVIOUS
<1>3. PICK red1 : red1 = (t.red \ {s, p, b}) \cup (IF p \in t.red THEN {s} ELSE {})
  OBVIOUS
<1>4. r = Rotate(PutRed(t, red1), p, d)
  BY <1>1, <1>2, <1>3 DEF MakeUp, PutRed
<1>5. b \in t.red
  BY <1>2
<1> QED
  BY <1>2, <1>3, <1>4, <1>5, OuterRed

LEMMA SideOfLack ==
  ASSUME NEW t, NEW N, NEW D, NEW h, NEW p, NEW e, NEW d, Lacking(t, N, D, h, p, e, d)
  PROVE  d = IF t.left[p] = e THEN "left" ELSE "right"
<1>1. Linked(t, N, D) /\ p \in N /\ d \in Side /\ t[d][p] = e
  BY DEF Lacking
<1>2. t \in Trees
  BY <1>1, LinkedIs
<1>3. CASE d = "left"
  BY <1>1, <1>2, <1>3, TreesIs
<1>4. CASE d = "right"
  <2>1. Other(d) = "left" /\ Other(d) \in Side
    BY <1>4 DEF Side, Other
  <2>2. t.left = t[Other(d)]
    BY <1>2, <2>1, TreesIs
  <2>3. t[Other(d)][p] # e
    BY SiblingIs
  <2> QED
    BY <1>4, <2>2, <2>3
<1> QED
  BY <1>1, <1>3, <1>4 DEF Side

(* A turn of REMOVE_COLOR(). *)
Mended(r, t, N) ==
  /\ SameOutside(r.tree, t, N)
  /\ \/ \E E, h1, c : Lacking(r.tree, N, E, h1, r.parent, r.node, c)
     \/ r.node = r.tree.root /\ \E E, h1 : Whole(r.tree, N, E, h1)

LEMMA RemoveColorKeeps ==
  ASSUME NEW t, NEW N, NEW D, NEW h, NEW p, NEW e, NEW d, Lacking(t, N, D, h, p, e, d), ~RemoveColored(t, e)
  PROVE  Mended(RemoveColor(t, p, e), t, N)
<1>1. d \in Side
  BY DEF Lacking
<1>2. PICK o \in Side : o = Other(d) /\ \A x \in Side : x = d \/ x = o
  BY <1>1, SideIs
<1>3. e \notin t.red
  BY IsRedIs DEF RemoveColored
<1>4. PICK t1 : t1 = BlackSibling(t, p, d)
  OBVIOUS
<1>5. PICK s : s = t1[o][p]
  OBVIOUS
<1>6. PICK t2 : t2 = RedOuter(t1, p, d)
  OBVIOUS
<1>7. PICK t3 : t3 = MakeUp(t2, p, d)
  OBVIOUS
<1>8. PICK r : r = RemoveColor(t, p, e)
  OBVIOUS
<1>9. r = IF \A x \in Side : ~IsRed(t1, t1[x][s])
          THEN [tree |-> PutRed(t1, t1.red \cup {s}), parent |-> t1.parent[p], node |-> p]
          ELSE [tree |-> t3, parent |-> p, node |-> t3.root]
  <2>1. d = IF t.left[p] = e THEN "left" ELSE "right"
    BY SideOfLack
  <2>2. s = t1[Other(d)][p]
    BY <1>2, <1>5
  <2>3. t3 = MakeUp(RedOuter(t1, p, d), p, d)
    BY <1>6, <1>7
  <2>4. RemoveColor(t, p, e) =
          IF \A x \in Side : ~IsRed(t1, t1[x][s])
          THEN [tree |-> PutRed(t1, t1.red \cup {s}), parent |-> t1.parent[p], node |-> p]
          ELSE [tree |-> t3, parent |-> p, node |-> t3.root]
    BY ONLY <1>4, <2>1, <2>2, <2>3 DEF RemoveColor, PutRed
  <2> QED
    BY <1>8, <2>4
<1>10. PICK E, h1 : Lacking(t1, N, E, h1, p, e, d)
  BY <1>2, <1>3, <1>4, BlackSiblingKeeps
<1>11. e \notin t1.red /\ s \notin t1.red /\ SameOutside(t1, t, N)
  BY <1>2, <1>3, <1>4, <1>5, BlackSiblingKeeps
<1>12. \A n : IsRed(t1, n) <=> n \in t1.red
  BY <1>10, IsRedIs
<1>13. CASE \A x \in Side : t1[x][s] \notin t1.red
  <2>1. PICK u : u = PutRed(t1, t1.red \cup {s})
    OBVIOUS
  <2>2. r.tree = u /\ r.parent = t1.parent[p] /\ r.node = p
    BY <1>9, <1>12, <1>13, <2>1
  <2>3. s = t1[Other(d)][p]
    BY <1>2, <1>5
  <2>4. /\ IF p = u.root THEN \E h2 : Whole(u, N, E, h2)
           ELSE \E h2, c : Lacking(u, N, E, h2, t1.parent[p], p, c)
        /\ SameOutside(u, t1, N)
    BY <1>10, <1>11, <1>13, <2>1, <2>3, SiblingTurnsRed, ZenonT(60)
  <2>5. SameOutside(u, t, N)
    BY <1>11, <2>4, SameTwice
  <2> QED
    BY <1>8, <2>2, <2>4, <2>5 DEF Mended
<1>14. CASE ~\A x \in Side : t1[x][s] \notin t1.red
  <2>1. r.tree = t3 /\ r.node = t3.root
    BY <1>9, <1>12, <1>14
  <2>2. t1[d][s] \in t1.red \/ t1[o][s] \in t1.red
    BY <1>2, <1>14
  <2>3. /\ \E F, h2 : Lacking(t2, N, F, h2, p, e, d)
        /\ e \notin t2.red /\ t2[o][p] \notin t2.red /\ t2[o][t2[o][p]] \in t2.red /\ SameOutside(t2, t1, N)
    BY <1>2, <1>5, <1>6, <1>10, <1>11, <2>2, RedOuterKeeps
  <2>4. PICK F, h2 : Lacking(t2, N, F, h2, p, e, d)
    BY <2>3
  <2>5. PICK s2 : s2 = t2[o][p]
    OBVIOUS
  <2>6. s2 \notin t2.red /\ t2[o][s2] \in t2.red
    BY <2>3, <2>5
  <2>7. (\E G, h3 : Whole(t3, N, G, h3)) /\ SameOutside(t3, t2, N)
    BY <1>2, <1>7, <2>3, <2>4, <2>5, <2>6, MakeUpKeeps
  <2>8. SameOutside(t3, t, N)
    BY <1>11, <2>3, <2>7, SameTwice
  <2> QED
    BY <1>8, <2>1, <2>7, <2>8 DEF Mended
<1> QED
  BY <1>13, <1>14

(* The node that the colour of a missing one is given to. *)
LEMMA LackEnds ==
  ASSUME NEW t, NEW N, NEW D, NEW h, NEW p, NEW e, NEW d, Lacking(t, N, D, h, p, e, d), e \in t.red,
         NEW u, u = Blacken(t, e)
  PROVE  (\E h1 : RedBlack(u, N, D, h1)) /\ SameOutside(u, t, N)
<1>1. /\ Linked(t, N, D) /\ Levels(t, N, t.red, h, p, d) /\ RedsBut(t, N, t.red, e) /\ t.root \notin t.red
      /\ p \in N /\ d \in Side /\ t[d][p] = e
  BY DEF Lacking
<1>2. t \in Trees /\ N \subseteq Node /\ NULL \notin N /\ t.red \subseteq N /\ e \in N
  BY <1>1, LinkedIs DEF RedsBut
<1>3. t.parent[e] = p /\ e # p /\ e # NULL
  BY <1>2, SiblingIs
<1>4. PICK red1 : red1 = t.red \ {e}
  OBVIOUS
<1>5. u = PutRed(t, red1)
  BY <1>4 DEF PutRed, Blacken
<1>6. red1 \in SUBSET Node
  BY <1>2, <1>4
<1>7. /\ Linked(u, N, D) /\ u.red = red1 /\ u.root = t.root /\ u.parent = t.parent
      /\ \A x \in Side : u[x] = t[x]
  BY <1>1, <1>5, <1>6, Recolored
<1>8. \A n \in N : \A x \in Side : t[x][n] \in N \cup {NULL} /\ (t[x][n] # NULL => t.parent[t[x][n]] = n)
  BY <1>1, KidsIn
<1>9. Reds(u, N, red1, NULL)
  BY <1>1, <1>2, <1>4, <1>7 DEF Reds, RedsBut
<1>10. /\ h \in [Node \cup {NULL} -> Nat] /\ h[NULL] = 0
       /\ \A n \in N : \A x \in Side : h[n] = h[t[x][n]] + Black(t.red, n) + Lack(p, d, n, x)
  BY <1>1 DEF Levels, Level
<1>11. PICK h1 : h1 = [h EXCEPT ![e] = h[e] + 1]
  OBVIOUS
<1>12. /\ h1 \in [Node \cup {NULL} -> Nat] /\ h1[NULL] = 0 /\ h1[e] = h[e] + 1
       /\ \A n \in Node \cup {NULL} : n # e => h1[n] = h[n]
  BY <1>2, <1>3, <1>10, <1>11
<1>13. Level(t, red1, h1, NULL, "left", e)
  <2> SUFFICES ASSUME NEW x \in Side, NEW k, k = t[x][e]
               PROVE  h1[e] = h1[k] + Black(red1, e) + Lack(NULL, "left", e, x)
    BY DEF Level
  <2>1. k \in N \cup {NULL} /\ (k # NULL => t.parent[k] = e)
    BY <1>2, <1>8
  <2>2. k # e
    BY <1>3, <2>1
  <2>3. h[e] = h[k] + Black(t.red, e) + Lack(p, d, e, x)
    BY <1>2, <1>10
  <2>4. Black(t.red, e) = 0 /\ Black(red1, e) = 1 /\ Lack(p, d, e, x) = 0 /\ Lack(NULL, "left", e, x) = 0
    BY <1>3, <1>4 DEF Black, Lack
  <2>5. h1[k] = h[k] /\ h[k] \in Nat
    BY <1>2, <1>10, <1>12, <2>1, <2>2
  <2> QED
    BY <1>12, <2>3, <2>4, <2>5
<1>14. ASSUME NEW n \in N, n # e
       PROVE  /\ h1[n] = h[n] /\ (n \in red1 <=> n \in t.red)
              /\ \A x \in Side : h1[t[x][n]] + Lack(NULL, "left", n, x) = h[t[x][n]] + Lack(p, d, n, x)
  <2>1. h1[n] = h[n] /\ (n \in red1 <=> n \in t.red)
    BY <1>2, <1>4, <1>12, <1>14
  <2>2. ASSUME NEW x \in Side, NEW k, k = t[x][n]
        PROVE  h1[k] + Lack(NULL, "left", n, x) = h[k] + Lack(p, d, n, x)
    <3>1. k \in N \cup {NULL} /\ (k # NULL => t.parent[k] = n)
      BY <1>8, <2>2
    <3>2. Lack(NULL, "left", n, x) = 0
      BY <1>2 DEF Lack
    <3>3. CASE k = e
      <4>1. n = p
        BY <1>3, <3>1, <3>3
      <4>2. x = d
        <5>1. t[Other(d)][p] # e
          BY <1>3, SiblingIs
        <5> QED
          BY <1>1, <2>2, <3>3, <4>1, <5>1, SideIs
      <4>3. Lack(p, d, n, x) = 1
        BY <4>1, <4>2 DEF Lack
      <4>4. h[e] \in Nat
        BY <1>2, <1>10
      <4> QED
        BY <1>12, <3>2, <3>3, <4>3, <4>4
    <3>4. CASE k # e
      <4>1. Lack(p, d, n, x) = 0
        BY <1>1, <2>2, <3>4 DEF Lack
      <4>2. h1[k] = h[k]
        BY <1>2, <1>12, <3>1, <3>4
      <4> QED
        BY <3>2, <4>1, <4>2
    <3> QED
      BY <3>3, <3>4
  <2> QED
    BY <2>1, <2>2
<1>15. PICK C : C = {e}
  OBVIOUS
<1>16. OnlyAt(t, N, C, t.red, h, p, d, red1, h1, NULL, "left")
  <2>1. \A n \in C : Level(t, red1, h1, NULL, "left", n)
    BY <1>13, <1>15
  <2>2. \A n \in N : n \notin C =>
          /\ h1[n] = h[n] /\ (n \in red1 <=> n \in t.red)
          /\ \A x \in Side : h1[t[x][n]] + Lack(NULL, "left", n, x) = h[t[x][n]] + Lack(p, d, n, x)
    BY <1>14, <1>15
  <2> QED
    BY <1>1, <1>12, <2>1, <2>2 DEF OnlyAt
<1>17. Levels(u, N, red1, h1, NULL, "left")
  <2>1. Levels(t, N, red1, h1, NULL, "left")
    BY <1>1, <1>16, RecoloredLevels
  <2> QED
    BY <1>7, <2>1, RecoloredRest
<1>18. u.root \notin red1
  BY <1>1, <1>4, <1>7
<1>19. SameOutside(u, t, N)
  BY <1>7 DEF SameOutside
<1> QED
  BY <1>7, <1>9, <1>17, <1>18, <1>19 DEF RedBlack, Balanced

-----------------------------------------------------------------------------
(* A set of naturals has a least element.                                  *)
LEMMA Smallest ==
  ASSUME NEW T \in SUBSET Nat, T # {}
  PROVE  \E m \in T : \A k \in T : m <= k
<1> DEFINE R == OpToRel(<, Nat)
<1>1. IsWellFoundedOn(R, Nat)
  BY NatLessThanWellFounded
<1>2. \A i, j \in Nat : <<i, j>> \in R <=> i < j
  BY DEF OpToRel
<1> HIDE DEF R
<1>3. PICK m \in T : \A k \in T : ~(<<k, m>> \in R)
  BY <1>1, WFMin
<1>4. ASSUME NEW k \in T
      PROVE  m <= k
  <2>1. k \in Nat /\ m \in Nat /\ ~(k < m)
    BY <1>2, <1>3
  <2> QED
    BY <2>1
<1> QED
  BY <1>4

(* A set without a first member has none. *)
LEMMA NoneBad ==
  ASSUME NEW T, NEW mu, \A n \in T : mu[n] \in Nat, \A n \in T : \E m \in T : mu[m] < mu[n]
  PROVE  T = {}
<1> SUFFICES ASSUME T # {}
             PROVE  FALSE
  OBVIOUS
<1> DEFINE M == {mu[n] : n \in T}
<1>1. M \in SUBSET Nat /\ M # {}
  OBVIOUS
<1>2. PICK k \in M : \A j \in M : k <= j
  <2> HIDE DEF M
  <2> QED
    BY <1>1, Smallest
<1>3. PICK n \in T : k = mu[n]
  OBVIOUS
<1>4. PICK m \in T : mu[m] < mu[n]
  OBVIOUS
<1>5. mu[m] \in M /\ mu[m] \in Nat /\ mu[n] \in Nat
  OBVIOUS
<1> HIDE DEF M
<1> QED
  BY <1>2, <1>3, <1>4, <1>5

(* A walk by g, from base, with op at every step back. *)
Walk(f, S, g, base, op) ==
  \A m \in S : f[m] = IF g[m] = NULL THEN base[m] ELSE op[m][f[g[m]]]

Leads(S, g, mu, top) ==
  /\ mu \in [S -> Nat] /\ top \in Nat /\ \A m \in S : mu[m] < top
  /\ \A m \in S : g[m] # NULL => g[m] \in S /\ mu[g[m]] < mu[m]

WalkTo(f, S, g, base, op, mu, k) ==
  \A m \in S : mu[m] < k => f[m] = IF g[m] = NULL THEN base[m] ELSE op[m][f[g[m]]]

(* A walk that is right for fewer than k steps is right for k.             *)
LEMMA WalkFurther ==
  ASSUME NEW S, NEW g, NEW mu, NEW top, Leads(S, g, mu, top), NEW V, NEW base \in [S -> V], NEW op \in [S -> [V -> V]],
         NEW k \in Nat, NEW f \in [S -> V], WalkTo(f, S, g, base, op, mu, k)
  PROVE  \E e \in [S -> V] : WalkTo(e, S, g, base, op, mu, k + 1)
<1> DEFINE e == [m \in S |-> IF mu[m] = k THEN IF g[m] = NULL THEN base[m] ELSE op[m][f[g[m]]] ELSE f[m]]
<1>1. e \in [S -> V]
  BY DEF Leads
<1>2. ASSUME NEW m \in S, mu[m] < k + 1
      PROVE  e[m] = IF g[m] = NULL THEN base[m] ELSE op[m][e[g[m]]]
  <2>1. mu[m] \in Nat /\ (g[m] # NULL => g[m] \in S /\ mu[g[m]] < mu[m] /\ mu[g[m]] \in Nat)
    BY DEF Leads
  <2>2. g[m] # NULL => e[g[m]] = f[g[m]]
    BY <1>2, <2>1
  <2>3. CASE mu[m] = k
    BY <2>2, <2>3
  <2>4. CASE mu[m] # k
    <3>1. mu[m] < k /\ e[m] = f[m]
      BY <1>2, <2>1, <2>4
    <3> QED
      BY <2>2, <3>1 DEF WalkTo
  <2> QED
    BY <2>3, <2>4
<1> HIDE DEF e
<1>3. WalkTo(e, S, g, base, op, mu, k + 1)
  BY <1>2 DEF WalkTo
<1> QED
  BY <1>1, <1>3

(* The function that the loop computes exists: the way from a node is      *)
(* finite.                                                                 *)
LEMMA WalkExists ==
  ASSUME NEW S, NEW g, NEW mu, NEW top, Leads(S, g, mu, top),
         NEW V, NEW base \in [S -> V], NEW op \in [S -> [V -> V]]
  PROVE  \E f \in [S -> V] : Walk(f, S, g, base, op)
<1> DEFINE Bad == {k \in Nat : ~ \E f \in [S -> V] : WalkTo(f, S, g, base, op, mu, k)}
<1>1. Bad = {}
  <2> SUFFICES ASSUME Bad # {}
               PROVE  FALSE
    OBVIOUS
  <2>1. PICK k \in Bad : \A j \in Bad : k <= j
    <3>1. Bad \in SUBSET Nat
      OBVIOUS
    <3> HIDE DEF Bad
    <3> QED
      BY <3>1, Smallest
  <2>2. k # 0
    <3>1. \A m \in S : ~(mu[m] < 0)
      BY DEF Leads
    <3>2. WalkTo(base, S, g, base, op, mu, 0)
      BY <3>1 DEF WalkTo
    <3> QED
      BY <3>2
  <2>3. PICK j \in Nat : k = j + 1
    <3>1. k \in Nat
      OBVIOUS
    <3> QED
      BY <2>2, <3>1
  <2>4. j \notin Bad
    BY <2>1, <2>3
  <2>5. PICK f \in [S -> V] : WalkTo(f, S, g, base, op, mu, j)
    BY <2>4
  <2> QED
    BY <2>3, <2>5, WalkFurther
<1>2. PICK f \in [S -> V] : WalkTo(f, S, g, base, op, mu, top)
  BY <1>1 DEF Leads
<1>3. Walk(f, S, g, base, op)
  BY <1>2 DEF Walk, WalkTo, Leads
<1> QED
  BY <1>3

-----------------------------------------------------------------------------
(* How far down, or up, a walk still can go. *)
Outlying(t, N) ==
  \A n \in Node : n \notin N =>
    t.parent[n] \in N \cup {NULL} /\ \A s \in Side : t[s][n] \in N \cup {NULL}

(* Less hangs on a child.                                                  *)
LEMMA SizeIs ==
  ASSUME NEW t, NEW N, NEW D, Linked(t, N, D)
  PROVE  /\ Cardinality(N) \in Nat
         /\ \A m \in N : Cardinality(D[m]) \in Nat /\ Cardinality(D[m]) <= Cardinality(N)
         /\ \A m \in N : \A s \in Side : t[s][m] # NULL => Cardinality(D[t[s][m]]) < Cardinality(D[m])
<1>1. IsFiniteSet(N)
  BY LinkedIs
<1>2. \A m \in N : D[m] \in SUBSET N
  BY HangsIs
<1>3. \A m \in N : IsFiniteSet(D[m]) /\ Cardinality(D[m]) <= Cardinality(N)
  BY <1>1, <1>2, FS_Subset
<1>4. Cardinality(N) \in Nat /\ \A m \in N : Cardinality(D[m]) \in Nat
  BY <1>1, <1>3, FS_CardinalityType
<1>5. ASSUME NEW m \in N, NEW s \in Side, t[s][m] # NULL
      PROVE  Cardinality(D[t[s][m]]) < Cardinality(D[m])
  <2>1. t[s][m] \in N /\ D[t[s][m]] \in SUBSET D[m] /\ m \in D[m] /\ m \notin D[t[s][m]]
    BY <1>5, HangsIs
  <2>2. Cardinality(D[t[s][m]]) <= Cardinality(D[m]) /\ Cardinality(D[m]) # Cardinality(D[t[s][m]])
    BY <1>3, <2>1, FS_Subset
  <2> QED
    BY <1>4, <2>1, <2>2
<1> QED
  BY <1>3, <1>4, <1>5

Down(mu, top, t, N) ==
  /\ mu \in [Node -> Nat] /\ top \in Nat /\ \A m \in Node : mu[m] < top
  /\ \A m \in Node : \A s \in Side : t[s][m] # NULL => t[s][m] \in N /\ mu[t[s][m]] < mu[m]

Up(mu, top, t, N) ==
  /\ mu \in [Node -> Nat] /\ top \in Nat /\ \A m \in Node : mu[m] < top
  /\ \A m \in Node : t.parent[m] # NULL => t.parent[m] \in N /\ mu[t.parent[m]] < mu[m]

(* The ways down are finite, and so are the ways up.                       *)
LEMMA DownIs ==
  ASSUME NEW t, NEW N, NEW D, Linked(t, N, D), Outlying(t, N)
  PROVE  \E mu, top : Down(mu, top, t, N)
<1> DEFINE C == Cardinality(N)
           mu == [m \in Node |-> IF m \in N THEN Cardinality(D[m]) ELSE C + 1]
<1>1. C \in Nat /\ \A m \in N : Cardinality(D[m]) \in Nat /\ Cardinality(D[m]) <= C
  BY SizeIs
<1>2. mu \in [Node -> Nat] /\ C + 2 \in Nat /\ \A m \in Node : mu[m] < C + 2
  BY <1>1
<1>3. N \subseteq Node
  BY LinkedIs
<1>4. ASSUME NEW m \in Node, NEW s \in Side, t[s][m] # NULL
      PROVE  t[s][m] \in N /\ mu[t[s][m]] < mu[m]
  <2>1. CASE m \in N
    <3>1. t[s][m] \in N /\ Cardinality(D[t[s][m]]) < Cardinality(D[m])
      BY <1>4, <2>1, HangsIs, SizeIs
    <3> QED
      BY <1>3, <2>1, <3>1
  <2>2. CASE m \notin N
    <3>1. t[s][m] \in N
      BY <1>4, <2>2 DEF Outlying
    <3> QED
      BY <1>1, <1>3, <2>2, <3>1
  <2> QED
    BY <2>1, <2>2
<1> HIDE DEF mu, C
<1>5. Down(mu, C + 2, t, N)
  BY <1>2, <1>4 DEF Down
<1> QED
  BY <1>5

LEMMA UpwardIs ==
  ASSUME NEW t, NEW N, NEW D, Linked(t, N, D), Outlying(t, N)
  PROVE  \E mu, top : Up(mu, top, t, N)
<1> DEFINE C == Cardinality(N)
           mu == [m \in Node |-> IF m \in N THEN C - Cardinality(D[m]) ELSE C + 1]
<1>1. C \in Nat /\ \A m \in N : Cardinality(D[m]) \in Nat /\ Cardinality(D[m]) <= C
  BY SizeIs
<1>2. mu \in [Node -> Nat] /\ C + 2 \in Nat /\ \A m \in Node : mu[m] < C + 2
  BY <1>1
<1>3. N \subseteq Node
  BY LinkedIs
<1>4. ASSUME NEW m \in Node, t.parent[m] # NULL
      PROVE  t.parent[m] \in N /\ mu[t.parent[m]] < mu[m]
  <2>1. CASE m \in N
    <3>1. m # t.root
      BY <1>4, <2>1, HangsIs
    <3>2. PICK p : p = t.parent[m]
      OBVIOUS
    <3>3. p \in N
      BY <2>1, <3>1, <3>2, UpIs
    <3>4. PICK s \in Side : t[s][p] = m
      BY <2>1, <3>1, <3>2, UpIs
    <3>5. m # NULL
      BY <2>1, HangsIs
    <3>6. Cardinality(D[m]) < Cardinality(D[p])
      BY <3>3, <3>4, <3>5, SizeIs
    <3>7. mu[m] = C - Cardinality(D[m]) /\ mu[p] = C - Cardinality(D[p])
      BY <1>3, <2>1, <3>3
    <3> QED
      BY <1>1, <2>1, <3>2, <3>3, <3>6, <3>7
  <2>2. CASE m \notin N
    <3>1. t.parent[m] \in N
      BY <1>4, <2>2 DEF Outlying
    <3> QED
      BY <1>1, <1>3, <2>2, <3>1
  <2> QED
    BY <2>1, <2>2
<1> HIDE DEF mu, C
<1>5. Up(mu, C + 2, t, N)
  BY <1>2, <1>4 DEF Up
<1> QED
  BY <1>5

-----------------------------------------------------------------------------
(* What does not hang on m lies on one side of all that does. *)
Aside(D, m, z) == \E s \in Side : \A w \in D[m] : Toward(s, w, z)

(* Induction down, or up, the tree. *)
LEMMA FromBelow ==
  ASSUME NEW t, NEW N, NEW D, Linked(t, N, D), NEW T \in SUBSET N,
         \A n \in T : \E s \in Side : t[s][n] # NULL /\ t[s][n] \in T
  PROVE  T = {}
<1> DEFINE mu == [m \in N |-> Cardinality(D[m])]
<1>1. \A n \in T : mu[n] \in Nat
  BY SizeIs
<1>2. \A n \in T : \E m \in T : mu[m] < mu[n]
  BY SizeIs
<1> HIDE DEF mu
<1> QED
  BY <1>1, <1>2, NoneBad

LEMMA FromAbove ==
  ASSUME NEW t, NEW N, NEW D, Linked(t, N, D), NEW T \in SUBSET N,
         t.root \notin T, \A n \in T : t.parent[n] \in T
  PROVE  T = {}
<1> DEFINE mu == [m \in N |-> Cardinality(N) - Cardinality(D[m])]
<1>1. \A n \in N : mu[n] \in Nat
  BY SizeIs
<1>2. ASSUME NEW n \in T
      PROVE  \E m \in T : mu[m] < mu[n]
  <2>1. PICK p : p = t.parent[n]
    OBVIOUS
  <2>2. p \in T /\ p \in N /\ n \in N /\ n # t.root
    BY <2>1
  <2>3. PICK s \in Side : t[s][p] = n
    BY <2>1, <2>2, UpIs
  <2>4. Cardinality(D[n]) < Cardinality(D[p])
    BY <2>2, <2>3, SizeIs, HangsIs
  <2>5. /\ Cardinality(N) \in Nat
        /\ Cardinality(D[n]) \in Nat /\ Cardinality(D[n]) <= Cardinality(N)
        /\ Cardinality(D[p]) \in Nat /\ Cardinality(D[p]) <= Cardinality(N)
    BY <2>2, SizeIs
  <2> QED
    BY <2>2, <2>4, <2>5
<1> HIDE DEF mu
<1> QED
  BY <1>1, <1>2, NoneBad

LEMMA AsideIs ==
  ASSUME NEW t, NEW N, NEW D, Linked(t, N, D)
  PROVE  \A m \in N : \A z \in N : z \notin D[m] => Aside(D, m, z)
<1> DEFINE T == {m \in N : ~ \A z \in N : z \notin D[m] => Aside(D, m, z)}
<1>1. N \subseteq Int /\ \A m \in N : D[m] \in SUBSET N
  BY HangsIs
<1>2. t.root \notin T
  <2>1. t.root \in N => D[t.root] = N
    BY DEF Linked
  <2> QED
    BY <2>1
<1>3. ASSUME NEW m \in T
      PROVE  t.parent[m] \in T
  <2> SUFFICES ASSUME t.parent[m] \notin T
               PROVE  FALSE
    OBVIOUS
  <2>1. PICK z \in N : z \notin D[m] /\ ~Aside(D, m, z)
    OBVIOUS
  <2>2. m \in N /\ m # t.root
    BY <1>2
  <2>3. PICK p : p = t.parent[m]
    OBVIOUS
  <2>4. p \in N
    BY <2>2, <2>3, UpIs
  <2>5. PICK s \in Side : t[s][p] = m /\ Other(s) \in Side
    BY <2>2, <2>3, UpIs
  <2>6. m # NULL /\ D[m] \subseteq D[p] /\ \A w \in D[m] : Toward(s, p, w)
    <3>1. m # NULL
      BY <2>2, HangsIs
    <3> QED
      BY <2>4, <2>5, <3>1, HangsIs
  <2>7. CASE z \notin D[p]
    <3>1. Aside(D, p, z)
      BY <2>3, <2>4, <2>7
    <3> QED
      BY <2>1, <2>6, <3>1 DEF Aside
  <2>8. CASE z \in D[p]
    <3>1. z = p \/ (t[Other(s)][p] # NULL /\ z \in D[t[Other(s)][p]])
      <4>1. D[p] = {p} \cup Below(t, D, s, p) \cup Below(t, D, Other(s), p)
        BY <2>4, BelowIs
      <4> QED
        BY <2>1, <2>5, <2>6, <2>8, <4>1 DEF Below
    <3>2. z # p => Toward(Other(s), p, z)
      BY <2>4, <2>5, <3>1, HangsIs
    <3>3. ASSUME NEW w \in D[m]
          PROVE  Toward(Other(s), w, z)
      <4>1. w \in Int /\ p \in Int /\ z \in Int /\ Toward(s, p, w)
        BY <1>1, <2>2, <2>4, <2>6
      <4> QED
        BY <2>5, <3>2, <4>1, TowardIs
    <3> QED
      BY <2>1, <2>5, <3>3 DEF Aside
  <2> QED
    BY <2>7, <2>8
<1>4. T = {}
  <2> HIDE DEF T
  <2>1. T \in SUBSET N
    BY DEF T
  <2> QED
    BY <1>2, <1>3, <2>1, FromAbove
<1> QED
  BY <1>4

-----------------------------------------------------------------------------
HasWalk(S, V, g, base) == \E f \in [S -> V] : \A m \in S : f[m] = IF g[m] = NULL THEN base[m] ELSE f[g[m]]

(* A walk that only goes where it leads.                                   *)
LEMMA PlainWalk ==
  ASSUME NEW S, NEW g, NEW mu, NEW top, Leads(S, g, mu, top),
         NEW V, NEW base \in [S -> V]
  PROVE  HasWalk(S, V, g, base)
<1> DEFINE op == [m \in S |-> [v \in V |-> v]]
<1>1. op \in [S -> [V -> V]]
  OBVIOUS
<1>2. \A m \in S : \A v \in V : op[m][v] = v
  OBVIOUS
<1> HIDE DEF op
<1>3. PICK f \in [S -> V] : Walk(f, S, g, base, op)
  BY <1>1, WalkExists
<1>4. ASSUME NEW m \in S
      PROVE  f[m] = IF g[m] = NULL THEN base[m] ELSE f[g[m]]
  <2>1. g[m] # NULL => g[m] \in S
    BY DEF Leads
  <2>2. g[m] # NULL => f[g[m]] \in V
    BY <2>1
  <2> QED
    BY <1>2, <1>3, <2>2 DEF Walk
<1> QED
  BY <1>4 DEF HasWalk

-----------------------------------------------------------------------------
(* Furthest() *)
DownWalk(f, t, side) == f = [m \in Node |-> IF t[side][m] = NULL THEN m ELSE f[t[side][m]]]

LEMMA FurthestIs ==
  ASSUME NEW t, NEW n, NEW side PROVE Furthest(t, n, side) = (CHOOSE f : DownWalk(f, t, side))[n]
BY DEF Furthest, DownWalk

LEMMA DownWalkExists ==
  ASSUME NEW t, NEW N, NEW D, Linked(t, N, D), Outlying(t, N), NEW side \in Side
  PROVE  \E f : DownWalk(f, t, side)
<1>1. PICK mu, top : Down(mu, top, t, N)
  BY DownIs
<1>2. t[side] \in [Node -> Node \cup {NULL}]
  BY LinkedIs, TreesIs
<1>3. N \subseteq Node
  BY LinkedIs
<1> DEFINE g == t[side]
           base == [m \in Node |-> m]
<1>4. Leads(Node, g, mu, top)
  BY <1>1, <1>3 DEF Leads, Down
<1>5. base \in [Node -> Node]
  OBVIOUS
<1>6. \A m \in Node : base[m] = m
  OBVIOUS
<1> HIDE DEF base
<1>7. PICK f \in [Node -> Node] : \A m \in Node : f[m] = IF g[m] = NULL THEN base[m] ELSE f[g[m]]
  BY <1>4, <1>5, PlainWalk DEF HasWalk
<1>8. f = [m \in Node |-> IF t[side][m] = NULL THEN m ELSE f[t[side][m]]]
  BY <1>6, <1>7
<1> QED
  BY <1>8 DEF DownWalk

(* x is what lies furthest to a side of what hangs on n. *)
IsFurthest(t, D, n, side, x) ==
  /\ x \in D[n] /\ t[side][x] = NULL
  /\ \A y \in D[n] : y = x \/ Toward(side, y, x)

(* What hangs on n hangs on one of its children.                           *)
LEMMA OnOneSide ==
  ASSUME NEW t, NEW N, NEW D, Linked(t, N, D), NEW n \in N, NEW s \in Side, NEW y \in D[n], y # n
  PROVE  \/ t[s][n] # NULL /\ y \in D[t[s][n]] /\ Toward(s, n, y) /\ ~Toward(Other(s), n, y)
         \/ t[Other(s)][n] # NULL /\ y \in D[t[Other(s)][n]] /\ Toward(Other(s), n, y) /\ ~Toward(s, n, y)
<1>1. n \in Int /\ y \in Int /\ Other(s) \in Side /\ Other(Other(s)) = s
  BY HangsIs, LinkedIs, SideIs
<1>2. D[n] = {n} \cup Below(t, D, s, n) \cup Below(t, D, Other(s), n)
  BY BelowIs
<1>3. CASE t[s][n] # NULL /\ y \in D[t[s][n]]
  <2>1. Toward(s, n, y)
    BY <1>3, HangsIs
  <2> QED
    BY <1>1, <1>3, <2>1, TowardIs
<1>4. CASE t[Other(s)][n] # NULL /\ y \in D[t[Other(s)][n]]
  <2>1. Toward(Other(s), n, y)
    BY <1>1, <1>4, HangsIs
  <2> QED
    BY <1>1, <1>4, <2>1, TowardIs
<1> QED
  BY <1>2, <1>3, <1>4 DEF Below

LEMMA FurthestUp ==
  ASSUME NEW t, NEW N, NEW D, Linked(t, N, D), NEW n \in N, NEW side \in Side, t[side][n] # NULL,
         NEW x, IsFurthest(t, D, t[side][n], side, x)
  PROVE  IsFurthest(t, D, n, side, x)
<1>1. PICK c : c = t[side][n]
  OBVIOUS
<1>2. c \in N /\ D[c] \subseteq D[n] /\ x \in D[c] /\ n \in Int /\ Toward(side, n, x) /\ D[n] \in SUBSET N
  BY <1>1, HangsIs DEF IsFurthest
<1>3. N \subseteq Int
  BY LinkedIs
<1>4. ASSUME NEW y \in D[n], y # x
      PROVE  Toward(side, y, x)
  <2>1. CASE y = n
    BY <1>2, <2>1
  <2>2. CASE y # n /\ y \in D[c]
    BY <1>1, <1>4, <2>2 DEF IsFurthest
  <2>3. CASE y # n /\ y \notin D[c]
    <3>1. Toward(Other(side), n, y)
      BY <1>1, <2>3, OnOneSide
    <3>2. Toward(side, y, n)
      BY <1>2, <1>3, <3>1, TowardIs
    <3> QED
      BY <1>2, <1>3, <3>2, TowardIs
  <2> QED
    BY <2>1, <2>2, <2>3
<1> QED
  BY <1>1, <1>2, <1>4 DEF IsFurthest

LEMMA FurthestAt ==
  ASSUME NEW t, NEW N, NEW D, Linked(t, N, D), NEW n \in N, NEW side \in Side, t[side][n] = NULL
  PROVE  IsFurthest(t, D, n, side, n)
<1>1. N \subseteq Int /\ n \in D[n] /\ D[n] \in SUBSET N
  BY LinkedIs, HangsIs
<1>2. ASSUME NEW y \in D[n], y # n
      PROVE  Toward(side, y, n)
  <2>1. Toward(Other(side), n, y)
    BY <1>2, OnOneSide
  <2> QED
    BY <1>1, <2>1, TowardIs
<1> QED
  BY <1>1, <1>2 DEF IsFurthest

(* MINMAX(), and the inner loops of NEXT() and PREV(), find what lies      *)
(* furthest.                                                               *)
LEMMA WalksFurthest ==
  ASSUME NEW t, NEW N, NEW D, Linked(t, N, D), Outlying(t, N), NEW n \in N, NEW side \in Side
  PROVE  IsFurthest(t, D, n, side, Furthest(t, n, side))
<1>1. PICK f : f = CHOOSE e : DownWalk(e, t, side)
  OBVIOUS
<1>2. DownWalk(f, t, side)
  BY <1>1, DownWalkExists
<1>3. N \subseteq Node
  BY LinkedIs
<1>4. \A m \in N : f[m] = IF t[side][m] = NULL THEN m ELSE f[t[side][m]]
  BY <1>2, <1>3 DEF DownWalk
<1> DEFINE T == {m \in N : ~IsFurthest(t, D, m, side, f[m])}
<1>5. ASSUME NEW m \in T
      PROVE  \E s \in Side : t[s][m] # NULL /\ t[s][m] \in T
  <2>1. m \in N /\ ~IsFurthest(t, D, m, side, f[m])
    OBVIOUS
  <2>2. t[side][m] # NULL
    BY <1>4, <2>1, FurthestAt
  <2>3. t[side][m] \in N /\ f[m] = f[t[side][m]]
    BY <1>4, <2>1, <2>2, HangsIs
  <2>4. ~IsFurthest(t, D, t[side][m], side, f[t[side][m]])
    BY <2>1, <2>2, <2>3, FurthestUp
  <2> QED
    BY <2>2, <2>3, <2>4
<1>6. T = {}
  <2>1. T \in SUBSET N
    OBVIOUS
  <2> HIDE DEF T
  <2> QED
    BY <1>5, <2>1, FromBelow
<1>7. IsFurthest(t, D, n, side, f[n])
  BY <1>6
<1> QED
  BY <1>1, <1>7, FurthestIs

-----------------------------------------------------------------------------
(* What hangs on what hangs on n hangs on n.                               *)
LEMMA Within ==
  ASSUME NEW t, NEW N, NEW D, Linked(t, N, D), NEW n \in N, NEW m \in D[n]
  PROVE  D[m] \subseteq D[n]
<1> DEFINE T == {a \in N : ~ \A b \in D[a] : D[b] \subseteq D[a]}
<1>1. ASSUME NEW a \in T
      PROVE  \E s \in Side : t[s][a] # NULL /\ t[s][a] \in T
  <2>1. PICK b \in D[a] : ~(D[b] \subseteq D[a])
    OBVIOUS
  <2>2. a \in N /\ b # a
    BY <2>1
  <2>3. "left" \in Side /\ Other("left") \in Side
    BY DEF Side, Other
  <2>4. PICK s \in Side : t[s][a] # NULL /\ b \in D[t[s][a]]
    BY <2>2, <2>3, OnOneSide
  <2>5. t[s][a] \in N /\ D[t[s][a]] \subseteq D[a]
    BY <2>2, <2>4, HangsIs
  <2>6. ~(D[b] \subseteq D[t[s][a]])
    BY <2>1, <2>5
  <2> QED
    BY <2>4, <2>5, <2>6
<1>2. T = {}
  <2>1. T \in SUBSET N
    OBVIOUS
  <2> HIDE DEF T
  <2> QED
    BY <1>1, <2>1, FromBelow
<1> QED
  BY <1>2

-----------------------------------------------------------------------------
(* Last() *)
LastWalk(f, t, k) == f = [n \in Node |-> IF n = k \/ t[Step(n, k)][n] = NULL THEN n ELSE f[t[Step(n, k)][n]]]

LEMMA LastIs ==
  ASSUME NEW t, NEW k, t.root # NULL PROVE Last(t, k) = (CHOOSE f : LastWalk(f, t, k))[t.root]
BY DEF Last, LastWalk

LEMMA LastWalkExists ==
  ASSUME NEW t, NEW N, NEW D, Linked(t, N, D), Outlying(t, N), NEW k
  PROVE  \E f : LastWalk(f, t, k)
<1>1. PICK mu, top : Down(mu, top, t, N)
  BY DownIs
<1>3. N \subseteq Node
  BY LinkedIs
<1> DEFINE g == [n \in Node |-> IF n = k THEN NULL ELSE t[Step(n, k)][n]]
           base == [m \in Node |-> m]
<1>4. \A n \in Node : Step(n, k) \in Side
  BY DEF Step, Side
<1>5. Leads(Node, g, mu, top)
  BY <1>1, <1>3, <1>4 DEF Leads, Down
<1>6. base \in [Node -> Node]
  OBVIOUS
<1>7. \A m \in Node : base[m] = m /\ g[m] = IF m = k THEN NULL ELSE t[Step(m, k)][m]
  OBVIOUS
<1> HIDE DEF base, g
<1>8. PICK f \in [Node -> Node] : \A m \in Node : f[m] = IF g[m] = NULL THEN base[m] ELSE f[g[m]]
  BY ONLY <1>5, <1>6, PlainWalk DEF HasWalk
<1>9. \A m \in Node : f[m] = IF m = k \/ t[Step(m, k)][m] = NULL THEN m ELSE f[t[Step(m, k)][m]]
  BY <1>7, <1>8
<1>10. f = [m \in Node |-> IF m = k \/ t[Step(m, k)][m] = NULL THEN m ELSE f[t[Step(m, k)][m]]]
  BY <1>9
<1> QED
  BY <1>10 DEF LastWalk

(* x is where the way from n to k ends. *)
IsLast(t, D, n, k, x) ==
  /\ x \in D[n] /\ (x = k \/ t[Step(x, k)][x] = NULL)
  /\ k \in D[n] => x = k
  /\ x # k => \A z \in D[n] : \A s \in Side : x \in Below(t, D, s, z) => Toward(s, z, k)

LEMMA StepIs ==
  ASSUME NEW n \in Int, NEW k \in Int, n # k
  PROVE  Step(n, k) \in Side /\ Toward(Step(n, k), n, k) /\ ~Toward(Other(Step(n, k)), n, k)
BY DEF Step, Side, Toward, Other

LEMMA LastAt ==
  ASSUME NEW t, NEW N, NEW D, Linked(t, N, D), NEW n \in N, NEW k \in Node,
         n = k \/ t[Step(n, k)][n] = NULL
  PROVE  IsLast(t, D, n, k, n)
<1>1. n \in Int /\ k \in Int /\ n \in D[n] /\ D[n] \in SUBSET N
  BY LinkedIs, HangsIs
<1>2. k \in D[n] => n = k
  <2> SUFFICES ASSUME k \in D[n], n # k
               PROVE  FALSE
    OBVIOUS
  <2>1. Step(n, k) \in Side /\ Toward(Step(n, k), n, k)
    BY <1>1, StepIs
  <2> QED
    BY <2>1, OnOneSide
<1>3. ASSUME NEW z \in D[n], NEW s \in Side, n \in Below(t, D, s, z)
      PROVE  FALSE
  <2>1. z \in N /\ t[s][z] # NULL /\ n \in D[t[s][z]]
    BY <1>1, <1>3 DEF Below
  <2>2. t[s][z] \in N /\ z \notin D[t[s][z]]
    BY <2>1, HangsIs
  <2>3. D[n] \subseteq D[t[s][z]]
    BY <2>1, <2>2, Within
  <2> QED
    BY <2>2, <2>3
<1> QED
  BY <1>1, <1>2, <1>3 DEF IsLast

LEMMA LastUp ==
  ASSUME NEW t, NEW N, NEW D, Linked(t, N, D), NEW n \in N, NEW k \in Node, n # k,
         NEW c, c = t[Step(n, k)][n], c # NULL, NEW x, IsLast(t, D, c, k, x)
  PROVE  IsLast(t, D, n, k, x)
<1>1. n \in Int /\ k \in Int /\ n \in D[n] /\ D[n] \in SUBSET N
  BY LinkedIs, HangsIs
<1>2. PICK d : d = Step(n, k)
  OBVIOUS
<1>3. d \in Side /\ Toward(d, n, k) /\ ~Toward(Other(d), n, k)
  BY <1>1, <1>2, StepIs
<1>4. c \in N /\ D[c] \subseteq D[n] /\ n \notin D[c] /\ c = t[d][n]
  BY <1>2, <1>3, HangsIs
<1>5. x \in D[c]
  BY DEF IsLast
<1>6. k \in D[n] => x = k
  <2> SUFFICES ASSUME k \in D[n]
               PROVE  x = k
    OBVIOUS
  <2>1. k \in D[c]
    BY <1>3, <1>4, OnOneSide
  <2> QED
    BY <2>1 DEF IsLast
<1>7. ASSUME NEW z \in D[n], NEW s \in Side, x \in Below(t, D, s, z), x # k
      PROVE  Toward(s, z, k)
  <2>1. z \in N /\ t[s][z] # NULL /\ x \in D[t[s][z]]
    BY <1>1, <1>7 DEF Below
  <2>2. D[t[s][z]] \subseteq D[z]
    BY <2>1, HangsIs
  <2>3. CASE z = n
    <3>1. Toward(s, n, x) /\ Toward(d, n, x)
      BY <1>3, <1>4, <1>5, <2>1, <2>3, HangsIs
    <3>2. x \in Int
      BY <1>1, <1>4, <1>5, LinkedIs
    <3>3. s = d
      <4>1. s = d \/ s = Other(d)
        BY <1>3, SideIs
      <4> QED
        BY <1>1, <1>3, <3>1, <3>2, <4>1, TowardIs
    <3> QED
      BY <1>3, <2>3, <3>3
  <2>4. CASE z # n /\ z \in D[c]
    BY <1>7, <2>4 DEF IsLast
  <2>5. CASE z # n /\ z \notin D[c]
    <3>1. PICK b : b = t[Other(d)][n]
      OBVIOUS
    <3>2. b # NULL /\ z \in D[b]
      BY <1>3, <1>4, <2>5, <3>1, OnOneSide
    <3>3. Other(d) \in Side
      BY <1>3, SideIs
    <3>4. b \in N /\ \A w \in D[b] : Toward(Other(d), n, w)
      BY <3>1, <3>2, <3>3, HangsIs
    <3>5. D[z] \subseteq D[b]
      BY <3>2, <3>4, Within
    <3>6. Toward(Other(d), n, x) /\ Toward(d, n, x)
      BY <1>3, <1>4, <1>5, <2>1, <2>2, <3>4, <3>5, HangsIs
    <3>7. x \in Int
      BY <1>1, <1>4, <1>5, LinkedIs
    <3> QED
      BY <1>1, <1>3, <3>6, <3>7, TowardIs
  <2> QED
    BY <2>3, <2>4, <2>5
<1>8. x \in D[n] /\ (x = k \/ t[Step(x, k)][x] = NULL)
  BY <1>4, <1>5 DEF IsLast
<1> QED
  BY <1>6, <1>7, <1>8 DEF IsLast

(* The loops of INSERT() and FIND() end at k, or where there is room for   *)
(* it.                                                                     *)
LEMMA WalksLast ==
  ASSUME NEW t, NEW N, NEW D, Linked(t, N, D), Outlying(t, N), N # {}, NEW k \in Node
  PROVE  IsLast(t, D, t.root, k, Last(t, k)) /\ D[t.root] = N
<1>1. PICK f : f = CHOOSE e : LastWalk(e, t, k)
  OBVIOUS
<1>2. LastWalk(f, t, k)
  BY <1>1, LastWalkExists
<1>3. N \subseteq Node /\ NULL \notin N
  BY LinkedIs
<1>4. \A m \in N : f[m] = IF m = k \/ t[Step(m, k)][m] = NULL THEN m ELSE f[t[Step(m, k)][m]]
  BY <1>2, <1>3 DEF LastWalk
<1> DEFINE T == {m \in N : ~IsLast(t, D, m, k, f[m])}
<1>5. ASSUME NEW m \in T
      PROVE  \E s \in Side : t[s][m] # NULL /\ t[s][m] \in T
  <2>1. m \in N /\ ~IsLast(t, D, m, k, f[m])
    OBVIOUS
  <2>2. m # k /\ t[Step(m, k)][m] # NULL
    BY <1>4, <2>1, LastAt
  <2>3. PICK c : c = t[Step(m, k)][m]
    OBVIOUS
  <2>4. Step(m, k) \in Side
    BY DEF Step, Side
  <2>5. c \in N /\ f[m] = f[c]
    BY <1>4, <2>1, <2>2, <2>3, <2>4, HangsIs
  <2>6. ~IsLast(t, D, c, k, f[c])
    BY <2>1, <2>2, <2>3, <2>5, LastUp
  <2> QED
    BY <2>2, <2>3, <2>4, <2>5, <2>6
<1>6. T = {}
  <2>1. T \in SUBSET N
    OBVIOUS
  <2> HIDE DEF T
  <2> QED
    BY <1>5, <2>1, FromBelow
<1>7. t.root \in N /\ D[t.root] = N
  BY DEF Linked
<1>8. IsLast(t, D, t.root, k, f[t.root])
  BY <1>6, <1>7
<1> QED
  BY <1>1, <1>3, <1>7, <1>8, LastIs

-----------------------------------------------------------------------------
(* Neighbour() *)
TurnsUp(t, side, m) == t.parent[m] # NULL /\ SideOf(t, m) = side
NextWalk(f, t, side) == f = [m \in Node |-> IF TurnsUp(t, side, m) THEN f[t.parent[m]] ELSE t.parent[m]]

LEMMA NeighbourIs ==
  ASSUME NEW t, NEW n, NEW side
  PROVE  Neighbour(t, n, side) =
           IF t[side][n] # NULL THEN Furthest(t, t[side][n], Other(side))
           ELSE (CHOOSE f : NextWalk(f, t, side))[n]
BY DEF Neighbour, NextWalk, TurnsUp

LEMMA NextWalkExists ==
  ASSUME NEW t, NEW N, NEW D, Linked(t, N, D), Outlying(t, N), NEW side
  PROVE  \E f : NextWalk(f, t, side)
<1>1. PICK mu, top : Up(mu, top, t, N)
  BY UpwardIs
<1>2. t.parent \in [Node -> Node \cup {NULL}]
  BY LinkedIs DEF Trees
<1>3. N \subseteq Node
  BY LinkedIs
<1> DEFINE g == [m \in Node |-> IF TurnsUp(t, side, m) THEN t.parent[m] ELSE NULL]
<1>4. Leads(Node, g, mu, top)
  BY <1>1, <1>3 DEF Leads, Up
<1>5. \A m \in Node : g[m] = IF TurnsUp(t, side, m) THEN t.parent[m] ELSE NULL
  OBVIOUS
<1> HIDE DEF g
<1>6. PICK f \in [Node -> Node \cup {NULL}] :
        \A m \in Node : f[m] = IF g[m] = NULL THEN t.parent[m] ELSE f[g[m]]
  <2>1. PICK base, V : base = t.parent /\ V = Node \cup {NULL}
    OBVIOUS
  <2>2. base \in [Node -> V]
    BY <1>2, <2>1
  <2>3. HasWalk(Node, V, g, base)
    BY ONLY <1>4, <2>2, PlainWalk
  <2> QED
    BY <2>1, <2>3 DEF HasWalk
<1>7. \A m \in Node : f[m] = IF TurnsUp(t, side, m) THEN f[t.parent[m]] ELSE t.parent[m]
  BY <1>5, <1>6 DEF TurnsUp
<1>8. f = [m \in Node |-> IF TurnsUp(t, side, m) THEN f[t.parent[m]] ELSE t.parent[m]]
  BY <1>7
<1> QED
  BY <1>8 DEF NextWalk

(* x is what comes, on a side, after all that hangs on m. *)
IsAfter(N, D, m, side, x) ==
  IF x = NULL THEN \A y \in N : y \notin D[m] => Toward(side, y, m)
  ELSE /\ x \in N /\ x \notin D[m] /\ Toward(side, m, x)
       /\ \A y \in N : y \notin D[m] => y = x \/ Toward(side, y, m) \/ Toward(side, x, y)

(* All that hangs on m lies on the same side of z.                         *)
LEMMA WholeAside ==
  ASSUME NEW t, NEW N, NEW D, Linked(t, N, D), NEW m \in N, NEW s \in Side, NEW z \in N, z \notin D[m],
         NEW w \in D[m], Toward(s, w, z), NEW v \in D[m]
  PROVE  Toward(s, v, z)
<1>1. PICK a \in Side : \A x \in D[m] : Toward(a, x, z)
  BY AsideIs DEF Aside
<1>2. N \subseteq Int /\ D[m] \in SUBSET N
  BY LinkedIs, HangsIs
<1>3. a = s
  <2>1. a = s \/ a = Other(s)
    BY SideIs
  <2>2. Toward(a, w, z) /\ w \in Int /\ z \in Int
    BY <1>1, <1>2
  <2> QED
    BY <2>1, <2>2, TowardIs, SMTT(30)
<1> QED
  BY <1>1, <1>3

LEMMA AfterUp ==
  ASSUME NEW t, NEW N, NEW D, Linked(t, N, D), NEW m \in N, m # t.root, NEW side \in Side,
         NEW p, p = t.parent[m], t[side][p] = m, NEW x, IsAfter(N, D, p, side, x)
  PROVE  IsAfter(N, D, m, side, x)
<1>1. p \in N
  BY UpIs
<1>2. m # NULL /\ m \in D[m] /\ D[m] \in SUBSET N
  BY HangsIs
<1>3. D[m] \subseteq D[p] /\ Toward(side, p, m) /\ p \in D[p] /\ m \in D[p] /\ t[side][p] # NULL
  BY <1>1, <1>2, HangsIs
<1>4. N \subseteq Int /\ NULL \notin N
  BY LinkedIs
<1>5. ASSUME NEW y \in N, Toward(side, y, p)
      PROVE  Toward(side, y, m)
  BY <1>1, <1>3, <1>4, <1>5, TowardIs
<1>6. ASSUME NEW y \in D[p], y \notin D[m]
      PROVE  Toward(side, y, m)
  <2>1. CASE y = p
    BY <1>3, <2>1
  <2>2. CASE y # p
    <3>1. Toward(Other(side), p, y) /\ y \in N
      BY <1>1, <1>6, <2>2, OnOneSide, HangsIs
    <3>2. Toward(side, y, p)
      BY <1>1, <1>4, <3>1, TowardIs
    <3> QED
      BY <1>5, <3>1, <3>2
  <2> QED
    BY <2>1, <2>2
<1>7. CASE x = NULL
  BY <1>5, <1>6, <1>7 DEF IsAfter
<1>8. CASE x # NULL
  <2>1. /\ x \in N /\ x \notin D[p] /\ Toward(side, p, x)
        /\ \A y \in N : y \notin D[p] => y = x \/ Toward(side, y, p) \/ Toward(side, x, y)
    BY <1>8 DEF IsAfter
  <2>2. Toward(side, m, x)
    BY <1>1, <1>3, <2>1, WholeAside
  <2> QED
    BY <1>3, <1>5, <1>6, <1>8, <2>1, <2>2 DEF IsAfter
<1> QED
  BY <1>7, <1>8

LEMMA AfterAt ==
  ASSUME NEW t, NEW N, NEW D, Linked(t, N, D), NEW m \in N, m # t.root, NEW side \in Side,
         NEW p, p = t.parent[m], t[Other(side)][p] = m
  PROVE  IsAfter(N, D, m, side, p)
<1>1. p \in N
  BY UpIs
<1>2. m # NULL /\ m \in D[m] /\ D[m] \in SUBSET N /\ Other(side) \in Side /\ Other(Other(side)) = side
  BY HangsIs, SideIs
<1>3. D[m] \subseteq D[p] /\ Toward(Other(side), p, m) /\ p \in D[p] /\ m \in D[p] /\ p \notin D[m] /\ p # NULL
  BY <1>1, <1>2, HangsIs
<1>4. N \subseteq Int
  BY LinkedIs
<1>5. Toward(side, m, p)
  BY <1>1, <1>2, <1>3, <1>4, TowardIs
<1>6. ASSUME NEW y \in N, y \notin D[m], y # p
      PROVE  Toward(side, y, m) \/ Toward(side, p, y)
  <2>1. CASE y \in D[p]
    BY <1>1, <1>2, <1>6, <2>1, OnOneSide
  <2>2. CASE y \notin D[p]
    <3>1. PICK a \in Side : \A w \in D[p] : Toward(a, w, y)
      BY <1>1, <2>2, AsideIs DEF Aside
    <3>2. Toward(a, p, y) /\ Toward(a, m, y)
      BY <1>3, <3>1
    <3>3. a = side \/ a = Other(side)
      BY SideIs
    <3> QED
      BY <1>4, <3>2, <3>3, TowardIs
  <2> QED
    BY <2>1, <2>2
<1> QED
  BY <1>1, <1>3, <1>5, <1>6 DEF IsAfter

(* The loop up finds what comes after all that hangs on n.                 *)
LEMMA WalksAfter ==
  ASSUME NEW t, NEW N, NEW D, Linked(t, N, D), Outlying(t, N), NEW n \in N, NEW side \in Side,
         NEW f, NextWalk(f, t, side)
  PROVE  IsAfter(N, D, n, side, f[n])
<1>1. N \subseteq Node /\ NULL \notin N
  BY LinkedIs
<1>2. \A m \in N : f[m] = IF TurnsUp(t, side, m) THEN f[t.parent[m]] ELSE t.parent[m]
  BY <1>1 DEF NextWalk
<1> DEFINE T == {m \in N : ~IsAfter(N, D, m, side, f[m])}
<1>3. t.root \notin T
  <2> SUFFICES ASSUME t.root \in N
               PROVE  IsAfter(N, D, t.root, side, f[t.root])
    OBVIOUS
  <2>1. t.parent[t.root] = NULL /\ D[t.root] = N
    BY DEF Linked
  <2>2. f[t.root] = NULL
    BY <1>2, <2>1 DEF TurnsUp
  <2> QED
    BY <2>1, <2>2 DEF IsAfter
<1>4. ASSUME NEW m \in T
      PROVE  t.parent[m] \in T
  <2>1. m \in N /\ m # t.root /\ ~IsAfter(N, D, m, side, f[m])
    BY <1>3
  <2>2. PICK p : p = t.parent[m]
    OBVIOUS
  <2>3. p \in N /\ p # NULL
    BY <1>1, <2>1, <2>2, UpIs
  <2>4. PICK s \in Side : t[s][p] = m /\ t[Other(s)][p] # m
    BY <2>1, <2>2, UpIs
  <2>5. SideOf(t, m) = s
    BY <2>2, <2>4, LinkedIs, SideOfIs
  <2>6. CASE s = side
    <3>1. f[m] = f[p]
      BY <1>2, <2>1, <2>2, <2>3, <2>5, <2>6 DEF TurnsUp
    <3>2. ~IsAfter(N, D, p, side, f[p])
      BY <2>1, <2>2, <2>4, <2>6, <3>1, AfterUp
    <3> QED
      BY <2>2, <2>3, <3>2
  <2>7. CASE s # side
    <3>1. f[m] = p
      BY <1>2, <2>1, <2>2, <2>5, <2>7 DEF TurnsUp
    <3>2. s = Other(side)
      BY <2>7, SideIs
    <3> QED
      BY <2>1, <2>2, <2>4, <3>1, <3>2, AfterAt
  <2> QED
    BY <2>6, <2>7
<1>5. T = {}
  <2>1. T \in SUBSET N
    OBVIOUS
  <2> HIDE DEF T
  <2> QED
    BY <1>3, <1>4, <2>1, FromAbove
<1> QED
  BY <1>5

(* x comes next to n on a side, or nothing does. *)
IsNext(N, n, side, x) ==
  IF x = NULL THEN \A y \in N : y = n \/ Toward(side, y, n)
  ELSE /\ x \in N /\ Toward(side, n, x)
       /\ \A y \in N : y = n \/ y = x \/ Toward(side, y, n) \/ Toward(side, x, y)

(* NEXT() and PREV() find the neighbour in the order of the keys.          *)
LEMMA WalksNext ==
  ASSUME NEW t, NEW N, NEW D, Linked(t, N, D), Outlying(t, N), NEW n \in N, NEW side \in Side
  PROVE  IsNext(N, n, side, Neighbour(t, n, side))
<1>1. N \subseteq Int /\ NULL \notin N /\ n \in D[n] /\ D[n] \in SUBSET N
  BY LinkedIs, HangsIs
<1>2. Other(side) \in Side /\ Other(Other(side)) = side
  BY SideIs
<1>3. CASE t[side][n] = NULL
  <2>1. PICK f : f = CHOOSE e : NextWalk(e, t, side)
    OBVIOUS
  <2>2. NextWalk(f, t, side)
    BY <2>1, NextWalkExists
  <2>3. IsAfter(N, D, n, side, f[n])
    BY <2>2, WalksAfter
  <2>4. Neighbour(t, n, side) = f[n]
    BY <1>3, <2>1, NeighbourIs
  <2>5. ASSUME NEW y \in D[n], y # n
        PROVE  Toward(side, y, n)
    <3>1. Toward(Other(side), n, y)
      BY <1>3, <2>5, OnOneSide
    <3> QED
      BY <1>1, <3>1, TowardIs
  <2> QED
    BY <2>3, <2>4, <2>5 DEF IsAfter, IsNext
<1>4. CASE t[side][n] # NULL
  <2>1. PICK c : c = t[side][n]
    OBVIOUS
  <2>2. c \in N /\ D[c] \subseteq D[n] /\ \A w \in D[c] : Toward(side, n, w)
    BY <1>4, <2>1, HangsIs
  <2>3. PICK x : x = Furthest(t, c, Other(side))
    OBVIOUS
  <2>4. IsFurthest(t, D, c, Other(side), x)
    BY <1>2, <2>2, <2>3, WalksFurthest
  <2>5. Neighbour(t, n, side) = x
    BY <1>4, <2>1, <2>3, NeighbourIs
  <2>6. x \in D[c] /\ x \in N /\ x # NULL /\ Toward(side, n, x)
    BY <1>1, <2>2, <2>4 DEF IsFurthest
  <2>7. ASSUME NEW y \in N, y # n, y # x
        PROVE  Toward(side, y, n) \/ Toward(side, x, y)
    <3>1. CASE y \in D[c]
      <4>1. Toward(Other(side), y, x)
        BY <2>4, <2>7, <3>1 DEF IsFurthest
      <4> QED
        BY <1>1, <1>2, <2>6, <4>1, TowardIs
    <3>2. CASE y \notin D[c] /\ y \in D[n]
      <4>1. Toward(Other(side), n, y)
        BY <2>1, <2>7, <3>2, OnOneSide
      <4> QED
        BY <1>1, <1>2, <4>1, TowardIs
    <3>3. CASE y \notin D[n]
      <4>1. PICK a \in Side : \A w \in D[n] : Toward(a, w, y)
        BY <3>3, AsideIs DEF Aside
      <4>2. Toward(a, n, y) /\ Toward(a, x, y)
        BY <1>1, <2>2, <2>6, <4>1
      <4>3. a = side \/ a = Other(side)
        BY SideIs
      <4> QED
        BY <1>1, <4>2, <4>3, TowardIs
    <3> QED
      BY <3>1, <3>2, <3>3
  <2> QED
    BY <2>5, <2>6, <2>7 DEF IsNext
<1> QED
  BY <1>3, <1>4

-----------------------------------------------------------------------------
(* BlackHeight() *)
HeightWalk(f, t) ==
  f = [m \in Node |-> (IF m \in t.red THEN 0 ELSE 1) + (IF t.parent[m] = NULL THEN 0 ELSE f[t.parent[m]])]

LEMMA BlackHeightIs ==
  ASSUME NEW t, NEW n
  PROVE  BlackHeight(t, n) = (CHOOSE f : HeightWalk(f, t))[n]
BY DEF BlackHeight, HeightWalk

LEMMA HeightWalkExists ==
  ASSUME NEW t, NEW N, NEW D, Linked(t, N, D), Outlying(t, N)
  PROVE  \E f : HeightWalk(f, t)
<1>1. PICK mu, top : Up(mu, top, t, N)
  BY UpwardIs
<1>2. PICK g : g = t.parent
  OBVIOUS
<1>3. N \subseteq Node
  BY LinkedIs
<1>4. Leads(Node, g, mu, top)
  BY <1>1, <1>2, <1>3 DEF Leads, Up
<1> DEFINE base == [m \in Node |-> Black(t.red, m)]
           op == [m \in Node |-> [v \in Nat |-> Black(t.red, m) + v]]
<1>5. \A m \in Node : Black(t.red, m) \in Nat
  BY DEF Black
<1>6. base \in [Node -> Nat] /\ op \in [Node -> [Nat -> Nat]]
  BY <1>5
<1>7. \A m \in Node : base[m] = Black(t.red, m) /\ \A v \in Nat : op[m][v] = Black(t.red, m) + v
  OBVIOUS
<1> HIDE DEF base, op
<1>8. \E f \in [Node -> Nat] : Walk(f, Node, g, base, op)
  BY ONLY <1>4, <1>6, WalkExists
<1>9. PICK f \in [Node -> Nat] : Walk(f, Node, g, base, op)
  BY <1>8
<1>10. ASSUME NEW m \in Node
       PROVE  f[m] = (IF m \in t.red THEN 0 ELSE 1) + (IF t.parent[m] = NULL THEN 0 ELSE f[t.parent[m]])
  <2>1. g[m] # NULL => g[m] \in Node
    BY <1>4 DEF Leads
  <2>2. f[m] = IF g[m] = NULL THEN base[m] ELSE op[m][f[g[m]]]
    BY <1>9 DEF Walk
  <2>3. base[m] = Black(t.red, m) /\ (g[m] # NULL => f[g[m]] \in Nat /\ op[m][f[g[m]]] = Black(t.red, m) + f[g[m]])
    BY <1>7, <1>9, <2>1
  <2> QED
    BY <1>2, <1>5, <2>2, <2>3 DEF Black
<1>11. f = [m \in Node |-> (IF m \in t.red THEN 0 ELSE 1) + (IF t.parent[m] = NULL THEN 0 ELSE f[t.parent[m]])]
  BY <1>10
<1> QED
  BY <1>11 DEF HeightWalk

(* Every way up has as many black nodes as the heights say.                *)
LEMMA WalksHeight ==
  ASSUME NEW t, NEW N, NEW D, NEW h, Linked(t, N, D), Balanced(t, N, h), Outlying(t, N), NEW n \in N
  PROVE  BlackHeight(t, n) = h[t.root] + Black(t.red, n) - h[n]
<1>1. PICK f : f = CHOOSE e : HeightWalk(e, t)
  OBVIOUS
<1>2. HeightWalk(f, t)
  BY <1>1, HeightWalkExists
<1>3. N \subseteq Node /\ NULL \notin N /\ t.root \in N \cup {NULL}
  BY LinkedIs DEF Linked
<1>4. \A m \in N : f[m] = Black(t.red, m) + (IF t.parent[m] = NULL THEN 0 ELSE f[t.parent[m]])
  BY <1>2, <1>3 DEF HeightWalk, Black
<1>5. h \in [Node \cup {NULL} -> Nat] /\ \A m \in N : \A s \in Side : h[m] = h[t[s][m]] + Black(t.red, m)
  <2>1. h \in [Node \cup {NULL} -> Nat] /\ \A m \in N : Level(t, t.red, h, NULL, "left", m)
    BY DEF Balanced, Levels
  <2>2. ASSUME NEW m \in N, NEW s \in Side
        PROVE  h[m] = h[t[s][m]] + Black(t.red, m)
    <3>1. h[m] = h[t[s][m]] + Black(t.red, m) + Lack(NULL, "left", m, s)
      BY <2>1 DEF Level
    <3>2. Lack(NULL, "left", m, s) = 0
      BY <1>3 DEF Lack
    <3>3. t[s][m] \in Node \cup {NULL}
      BY <1>3, HangsIs
    <3>4. h[t[s][m]] \in Nat /\ Black(t.red, m) \in Nat
      BY <2>1, <3>3 DEF Black
    <3> QED
      BY <3>1, <3>2, <3>4
  <2> QED
    BY <2>1, <2>2
<1> DEFINE T == {m \in N : f[m] # h[t.root] + Black(t.red, m) - h[m]}
<1>6. t.root \notin T
  <2> SUFFICES ASSUME t.root \in N
               PROVE  f[t.root] = h[t.root] + Black(t.red, t.root) - h[t.root]
    OBVIOUS
  <2>1. t.parent[t.root] = NULL
    BY HangsIs
  <2>2. f[t.root] = Black(t.red, t.root) + 0
    BY <1>4, <2>1
  <2>3. h[t.root] \in Nat /\ Black(t.red, t.root) \in Nat
    BY <1>3, <1>5 DEF Black
  <2> QED
    BY <2>2, <2>3
<1>7. ASSUME NEW m \in T
      PROVE  t.parent[m] \in T
  <2>1. m \in N /\ m # t.root
    BY <1>6
  <2>2. PICK p : p = t.parent[m]
    OBVIOUS
  <2>3. p \in N /\ p # NULL
    BY <1>3, <2>1, <2>2, UpIs
  <2>4. PICK s \in Side : t[s][p] = m
    BY <2>1, <2>2, UpIs
  <2>5. f[m] = Black(t.red, m) + f[p]
    BY <1>4, <2>1, <2>2, <2>3
  <2>6. h[p] = h[m] + Black(t.red, p)
    BY <1>5, <2>3, <2>4
  <2>7. h[m] \in Nat /\ h[p] \in Nat /\ h[t.root] \in Nat /\ Black(t.red, m) \in Nat /\ Black(t.red, p) \in Nat
    BY <1>3, <1>5, <2>1, <2>3 DEF Black
  <2>8. f[m] # h[t.root] + Black(t.red, m) - h[m]
    OBVIOUS
  <2>9. f[p] # h[t.root] + Black(t.red, p) - h[p]
    BY <2>5, <2>6, <2>7, <2>8
  <2> QED
    BY <2>2, <2>3, <2>9
<1>8. T = {}
  <2>1. T \in SUBSET N
    OBVIOUS
  <2> HIDE DEF T
  <2> QED
    BY <1>6, <1>7, <2>1, FromAbove
<1>9. f[n] = h[t.root] + Black(t.red, n) - h[n]
  BY <1>8
<1> QED
  BY <1>1, <1>9, BlackHeightIs

(* FIND() finds the nodes of the tree, and no other.                       *)
LEMMA ReachedIs ==
  ASSUME NEW t, NEW N, NEW D, Linked(t, N, D), Outlying(t, N)
  PROVE  Reached(t) = N /\ \A k \in Node : Find(t, k) = IF k \in N THEN k ELSE NULL
<1>1. N \subseteq Node /\ NULL \notin Node
  BY LinkedIs
<1>2. ASSUME NEW k \in Node
      PROVE  Last(t, k) = k <=> k \in N
  <2>1. CASE N = {}
    <3>1. t.root = NULL
      BY <2>1 DEF Linked
    <3>2. Last(t, k) = NULL
      BY <3>1 DEF Last
    <3> QED
      BY <1>1, <2>1, <3>2
  <2>2. CASE N # {}
    <3>1. IsLast(t, D, t.root, k, Last(t, k)) /\ D[t.root] = N
      BY <2>2, WalksLast
    <3> QED
      BY <3>1 DEF IsLast
  <2> QED
    BY <2>1, <2>2
<1> QED
  BY <1>1, <1>2 DEF Reached, Find

(* What is proved of a tree is what TreeOfKeys asks of it.                 *)
LEMMA RedBlackIs ==
  ASSUME NEW t, NEW N, NEW D, NEW h, RedBlack(t, N, D, h), Outlying(t, N)
  PROVE  IsRedBlack(t)
<1>1. Linked(t, N, D) /\ Balanced(t, N, h) /\ Reds(t, N, t.red, NULL) /\ t.root \notin t.red
  BY DEF RedBlack
<1>2. Reached(t) = N
  BY <1>1, ReachedIs
<1>3. N \subseteq Node /\ NULL \notin N
  BY <1>1, LinkedIs
<1>4. t.red \subseteq N
  BY <1>1 DEF Reds
<1>5. ASSUME NEW n \in N, NEW side \in Side, t[side][n] # NULL
      PROVE  t[side][n] \in N /\ t.parent[t[side][n]] = n /\ ~(n \in t.red /\ t[side][n] \in t.red)
  BY <1>1, <1>5, HangsIs DEF Reds
<1>6. t.root # NULL => t.parent[t.root] = NULL
  BY <1>1 DEF Linked
<1>7. ASSUME NEW n \in N, t.left[n] = NULL \/ t.right[n] = NULL
      PROVE  BlackHeight(t, n) = h[t.root]
  <2>1. h \in [Node \cup {NULL} -> Nat] /\ h[NULL] = 0 /\ Level(t, t.red, h, NULL, "left", n)
    BY <1>1 DEF Balanced, Levels
  <2>2. PICK s \in Side : t[s][n] = NULL
    <3>1. t["left"] = t.left /\ t["right"] = t.right
      BY <1>1, LinkedIs, TreesIs DEF Side
    <3> QED
      BY <1>7, <3>1 DEF Side
  <2>3. h[n] = h[NULL] + Black(t.red, n) + Lack(NULL, "left", n, s)
    BY <2>1, <2>2 DEF Level
  <2>4. Lack(NULL, "left", n, s) = 0 /\ Black(t.red, n) \in Nat
    BY <1>3 DEF Lack, Black
  <2>5. h[n] = Black(t.red, n)
    BY <2>1, <2>3, <2>4
  <2>6. BlackHeight(t, n) = h[t.root] + Black(t.red, n) - h[n]
    BY <1>1, WalksHeight
  <2>7. h[t.root] \in Nat
    <3>1. t.root \in Node \cup {NULL}
      BY <1>1, LinkedIs DEF Trees
    <3> QED
      BY <2>1, <3>1
  <2> QED
    BY <2>4, <2>5, <2>6, <2>7
<1>8. \A m, n \in {x \in Reached(t) : t.left[x] = NULL \/ t.right[x] = NULL} : BlackHeight(t, m) = BlackHeight(t, n)
  BY <1>2, <1>7
<1>9. \A n \in Reached(t) : \A side \in Side :
        t[side][n] # NULL => t[side][n] \in Reached(t) /\ t.parent[t[side][n]] = n
                             /\ ~(n \in t.red /\ t[side][n] \in t.red)
  BY <1>2, <1>5
<1> QED
  BY <1>1, <1>2, <1>4, <1>6, <1>8, <1>9 DEF IsRedBlack

-----------------------------------------------------------------------------
(* r is t with a red leaf k on the side d of p. *)
Grown(r, t, k, p, d) ==
  /\ r \in Trees /\ r.red = t.red \cup {k} /\ r.root = IF p = NULL THEN k ELSE t.root
  /\ \A m \in Node : r.parent[m] = IF m = k THEN p ELSE t.parent[m]
  /\ \A a \in Side : \A m \in Node :
       r[a][m] = IF m = k THEN NULL ELSE IF m = p /\ a = d THEN k ELSE t[a][m]

Leaf(t, k, p) == [t EXCEPT !.parent[k] = p, !.left[k] = NULL, !.right[k] = NULL, !.red = @ \cup {k}]

IsLeaf(u, t, k, p) ==
  /\ u \in Trees /\ u.red = t.red \cup {k} /\ u.root = t.root
  /\ \A m \in Node : u.parent[m] = IF m = k THEN p ELSE t.parent[m]
  /\ \A a \in Side : \A m \in Node : u[a][m] = IF m = k THEN NULL ELSE t[a][m]

LEMMA LeafIs ==
  ASSUME NEW t \in Trees, NEW k \in Node, NEW p \in Node \cup {NULL}
  PROVE  IsLeaf(Leaf(t, k, p), t, k, p)
<1>0. PICK u : u = Leaf(t, k, p)
  OBVIOUS
<1>1. /\ t.left \in [Node -> Node \cup {NULL}] /\ t.right \in [Node -> Node \cup {NULL}]
      /\ t.parent \in [Node -> Node \cup {NULL}] /\ t.red \in SUBSET Node
  BY DEF Trees
<1>2. u = [left |-> [t.left EXCEPT ![k] = NULL], right |-> [t.right EXCEPT ![k] = NULL],
           parent |-> [t.parent EXCEPT ![k] = p], red |-> t.red \cup {k}, root |-> t.root]
  BY <1>0 DEF Leaf, Trees
<1>3. u \in Trees
  BY <1>1, <1>2 DEF Trees
<1>4. u.red = t.red \cup {k} /\ u.root = t.root
  BY <1>2
<1>5. u.parent = [t.parent EXCEPT ![k] = p] /\ u["left"] = [t.left EXCEPT ![k] = NULL]
      /\ u["right"] = [t.right EXCEPT ![k] = NULL]
  BY <1>2
<1>6. t["left"] = t.left /\ t["right"] = t.right
  OBVIOUS
<1>7. \A m \in Node : u.parent[m] = IF m = k THEN p ELSE t.parent[m]
  BY <1>1, <1>5
<1>8. \A m \in Node : u["left"][m] = IF m = k THEN NULL ELSE t["left"][m]
  BY <1>1, <1>5, <1>6
<1>9. \A m \in Node : u["right"][m] = IF m = k THEN NULL ELSE t["right"][m]
  BY <1>1, <1>5, <1>6
<1> QED
  BY <1>0, <1>3, <1>4, <1>7, <1>8, <1>9 DEF Side, IsLeaf

(* INSERT() adds such a leaf.                                              *)
LEMMA InsertIs ==
  ASSUME NEW t \in Trees, NEW k \in Node, NEW p, p = Last(t, k), p \in Node \cup {NULL}, p # k
  PROVE  Grown(Insert(t, k), t, k, p, Step(p, k))
<1>1. PICK u : u = Leaf(t, k, p)
  OBVIOUS
<1>2. /\ u \in Trees /\ u.red = t.red \cup {k} /\ u.root = t.root
      /\ \A m \in Node : u.parent[m] = IF m = k THEN p ELSE t.parent[m]
      /\ \A a \in Side : \A m \in Node : u[a][m] = IF m = k THEN NULL ELSE t[a][m]
  <2>1. IsLeaf(Leaf(t, k, p), t, k, p)
    BY LeafIs
  <2> QED
    BY <1>1, <2>1 DEF IsLeaf
<1>3. NULL \notin Node
  BY NodeAssumption
<1>4. CASE p = NULL
  <2>1. Insert(t, k) = PutRoot(u, k)
    BY <1>1, <1>4 DEF Insert, Leaf, PutRoot
  <2>2. IsPutRoot(PutRoot(u, k), u, k)
    BY <1>2, PutRootIs
  <2> QED
    BY <1>2, <1>3, <1>4, <2>1, <2>2 DEF Grown, IsPutRoot
<1>5. CASE p # NULL
  <2>1. Insert(t, k) = SetChild(u, Step(p, k), p, k)
    BY <1>1, <1>5 DEF Insert, Leaf
  <2>2. Step(p, k) \in Side
    BY DEF Step, Side
  <2>3. IsPut(SetChild(u, Step(p, k), p, k), u, Step(p, k), p, k)
    BY <1>2, <1>5, <2>2, PutIs
  <2> QED
    BY <1>2, <1>5, <2>1, <2>3 DEF Grown, IsPut
<1> QED
  BY <1>4, <1>5

(* There is room for k on the side d of p. *)
Room(t, N, D, k, p, d) ==
  /\ k \in Node /\ k \notin N /\ p \in N /\ d \in Side /\ t[d][p] = NULL /\ Toward(d, p, k)
  /\ \A z \in N : \A s \in Side : p \in Below(t, D, s, z) => Toward(s, z, k)

Grow(N, D, k, p) ==
  [z \in N \cup {k} |-> IF z = k THEN {k} ELSE IF p \in D[z] THEN D[z] \cup {k} ELSE D[z]]

(* A new leaf keeps the tree together, and in order.                       *)
LEMMA GrownHangs ==
  ASSUME NEW t, NEW N, NEW D, Linked(t, N, D), NEW k, NEW p, NEW d, Room(t, N, D, k, p, d),
         NEW r, Grown(r, t, k, p, d), NEW E, E = Grow(N, D, k, p), NEW n \in N
  PROVE  Hangs(r, N \cup {k}, E, n)
<1>1. /\ k \in Node /\ k \notin N /\ p \in N /\ d \in Side /\ t[d][p] = NULL /\ Toward(d, p, k)
      /\ N \subseteq Node /\ NULL \notin N /\ NULL \notin Node
  BY LinkedIs DEF Room
<1>2. \A a \in Side : \A m \in N : r[a][m] = IF m = p /\ a = d THEN k ELSE t[a][m]
  BY <1>1 DEF Grown
<1>3. \A m \in N : r.parent[m] = t.parent[m]
  BY <1>1 DEF Grown
<1>4. r.root = t.root /\ r.parent[k] = p
  BY <1>1 DEF Grown
<1>5. \A z \in N : E[z] = IF p \in D[z] THEN D[z] \cup {k} ELSE D[z]
  BY <1>1 DEF Grow
<1>6. E[k] = {k}
  BY DEF Grow
<1>7. ASSUME NEW s \in Side, r[s][n] # NULL
      PROVE  r[s][n] \in N \cup {k} /\ r.parent[r[s][n]] = n /\ \A x \in E[r[s][n]] : Toward(s, n, x)
  <2>1. CASE n = p /\ s = d
    BY <1>1, <1>2, <1>4, <1>6, <2>1
  <2>2. CASE ~(n = p /\ s = d)
    <3>1. PICK c : c = t[s][n]
      OBVIOUS
    <3>2. r[s][n] = c /\ c # NULL
      BY <1>2, <1>7, <2>2, <3>1
    <3>3. c \in N /\ t.parent[c] = n /\ \A x \in D[c] : Toward(s, n, x)
      BY <3>1, <3>2, HangsIs
    <3>4. p \in D[c] => Toward(s, n, k)
      BY <3>1, <3>2 DEF Room, Below
    <3> QED
      BY <1>3, <1>5, <3>2, <3>3, <3>4, ZenonT(60)
  <2> QED
    BY <2>1, <2>2
<1>8. n # r.root => r.parent[n] \in N \cup {k} /\ \E s \in Side : r[s][r.parent[n]] = n
  <2> SUFFICES ASSUME n # t.root
               PROVE  r.parent[n] \in N \cup {k} /\ \E s \in Side : r[s][r.parent[n]] = n
    BY <1>4
  <2>1. PICK q : q = t.parent[n]
    OBVIOUS
  <2>2. q \in N
    BY <2>1, UpIs
  <2>3. PICK s \in Side : t[s][q] = n
    BY <2>1, UpIs
  <2>4. r[s][q] = n
    BY <1>1, <1>2, <2>2, <2>3
  <2> QED
    BY <1>3, <2>1, <2>2, <2>4
<1>9. ASSUME NEW s \in Side
      PROVE  Below(r, E, s, n) =
               Below(t, D, s, n) \cup (IF p \in Below(t, D, s, n) \/ (n = p /\ s = d) THEN {k} ELSE {})
  <2>1. CASE n = p /\ s = d
    <3>1. r[s][n] = k /\ t[s][n] = NULL /\ k # NULL
      BY <1>1, <1>2, <2>1
    <3> QED
      BY <1>6, <2>1, <3>1 DEF Below
  <2>2. CASE ~(n = p /\ s = d)
    <3>1. r[s][n] = t[s][n]
      BY <1>2, <2>2
    <3>2. CASE t[s][n] = NULL
      BY <2>2, <3>1, <3>2 DEF Below
    <3>3. CASE t[s][n] # NULL
      <4>1. t[s][n] \in N
        BY <3>3, HangsIs
      <4>2. Below(t, D, s, n) = D[t[s][n]] /\ Below(r, E, s, n) = E[t[s][n]]
        BY <3>1, <3>3 DEF Below
      <4> QED
        BY <1>5, <2>2, <4>1, <4>2
    <3> QED
      BY <3>2, <3>3
  <2> QED
    BY <2>1, <2>2
<1>10. E[n] = {n} \cup Below(r, E, "left", n) \cup Below(r, E, "right", n)
  <2>1. D[n] = {n} \cup Below(t, D, "left", n) \cup Below(t, D, "right", n)
    BY DEF Linked, Hangs
  <2>2. "left" \in Side /\ "right" \in Side /\ (d = "left" \/ d = "right")
    BY <1>1 DEF Side
  <2>3. Below(r, E, "left", n) =
          Below(t, D, "left", n) \cup (IF p \in Below(t, D, "left", n) \/ (n = p /\ "left" = d) THEN {k} ELSE {})
    BY <1>9, <2>2
  <2>4. Below(r, E, "right", n) =
          Below(t, D, "right", n) \cup (IF p \in Below(t, D, "right", n) \/ (n = p /\ "right" = d) THEN {k} ELSE {})
    BY <1>9, <2>2
  <2>5. p \in D[n] <=> n = p \/ p \in Below(t, D, "left", n) \/ p \in Below(t, D, "right", n)
    BY <2>1
  <2>6. E[n] = IF p \in D[n] THEN D[n] \cup {k} ELSE D[n]
    BY <1>5
  <2>7. CASE p \in D[n]
    BY <2>1, <2>2, <2>3, <2>4, <2>5, <2>6, <2>7
  <2>8. CASE p \notin D[n]
    BY <2>1, <2>2, <2>3, <2>4, <2>5, <2>6, <2>8
  <2> QED
    BY <2>7, <2>8
<1> QED
  BY <1>7, <1>8, <1>10 DEF Hangs

LEMMA GrownLinked ==
  ASSUME NEW t, NEW N, NEW D, Linked(t, N, D), NEW k, NEW p, NEW d, Room(t, N, D, k, p, d),
         NEW r, Grown(r, t, k, p, d)
  PROVE  Linked(r, N \cup {k}, Grow(N, D, k, p))
<1>1. PICK E : E = Grow(N, D, k, p)
  OBVIOUS
<1>2. PICK M : M = N \cup {k}
  OBVIOUS
<1>3. /\ k \in Node /\ k \notin N /\ p \in N /\ d \in Side /\ t[d][p] = NULL /\ Toward(d, p, k)
      /\ N \subseteq Node /\ NULL \notin N /\ NULL \notin Node
  BY LinkedIs DEF Room
<1>4. r \in Trees /\ M \in SUBSET Node /\ IsFiniteSet(M)
  <2>1. IsFiniteSet(N \cup {k})
    BY LinkedIs, FS_AddElement
  <2> QED
    BY <1>2, <1>3, <2>1 DEF Grown
<1>5. E \in [M -> SUBSET M]
  <2>1. D \in [N -> SUBSET N]
    BY DEF Linked
  <2> QED
    BY <1>1, <1>2, <2>1 DEF Grow
<1>6. r.root \in M /\ r.parent[r.root] = NULL /\ E[r.root] = M /\ M # {}
  <2>1. t.root \in N /\ t.parent[t.root] = NULL /\ D[t.root] = N
    BY <1>3 DEF Linked
  <2>2. r.root = t.root /\ r.parent[t.root] = NULL
    BY <1>3, <2>1 DEF Grown
  <2>3. E[t.root] = N \cup {k}
    BY <1>1, <1>3, <2>1 DEF Grow
  <2> QED
    BY <1>2, <2>1, <2>2, <2>3
<1>7. Hangs(r, M, E, k)
  <2>1. \A a \in Side : r[a][k] = NULL
    BY <1>3 DEF Grown
  <2>2. r.parent[k] = p /\ r[d][p] = k
    BY <1>3 DEF Grown
  <2>3. E[k] = {k} \cup {} \cup {}
    BY <1>1 DEF Grow
  <2>4. Below(r, E, "left", k) = {} /\ Below(r, E, "right", k) = {}
    BY <2>1 DEF Below, Side
  <2> QED
    BY <1>2, <1>3, <2>1, <2>2, <2>3, <2>4 DEF Hangs
<1>8. \A n \in N : Hangs(r, M, E, n)
  BY <1>1, <1>2, GrownHangs
<1> QED
  BY <1>1, <1>2, <1>4, <1>5, <1>6, <1>7, <1>8 DEF Linked

(* It changes no black height, as it is red; its parent may be red.        *)
LEMMA GrownRest ==
  ASSUME NEW t, NEW N, NEW D, NEW h, RedBlack(t, N, D, h), NEW k, NEW p, NEW d, Room(t, N, D, k, p, d),
         NEW r, Grown(r, t, k, p, d)
  PROVE  \E h1 : Balanced(r, N \cup {k}, h1) /\ Reds(r, N \cup {k}, r.red, k)
<1>1. Linked(t, N, D) /\ Balanced(t, N, h) /\ Reds(t, N, t.red, NULL)
  BY DEF RedBlack
<1>2. /\ k \in Node /\ k \notin N /\ p \in N /\ d \in Side /\ t[d][p] = NULL
      /\ N \subseteq Node /\ NULL \notin N /\ NULL \notin Node
  BY <1>1, LinkedIs DEF Room
<1>3. \A a \in Side : \A m \in N : r[a][m] = IF m = p /\ a = d THEN k ELSE t[a][m]
  BY <1>2 DEF Grown
<1>4. r.red = t.red \cup {k} /\ \A a \in Side : r[a][k] = NULL
  BY <1>2 DEF Grown
<1>5. h \in [Node \cup {NULL} -> Nat] /\ h[NULL] = 0
  BY <1>1 DEF Balanced, Levels
<1>6. PICK h1 : h1 = [h EXCEPT ![k] = 0]
  OBVIOUS
<1>7. h1 \in [Node \cup {NULL} -> Nat] /\ h1[NULL] = 0 /\ h1[k] = 0 /\ \A m \in N \cup {NULL} : h1[m] = h[m]
  BY <1>2, <1>5, <1>6
<1>8. \A m \in N : \A s \in Side : t[s][m] \in N \cup {NULL}
  BY <1>1, HangsIs
<1>9. \A m, a : \A s : Lack(NULL, a, m, s) = IF m = NULL /\ s = a THEN 1 ELSE 0
  BY DEF Lack
<1>10. ASSUME NEW m \in N, NEW s \in Side
       PROVE  h1[m] = h1[r[s][m]] + Black(r.red, m) + Lack(NULL, "left", m, s)
  <2>1. h[m] = h[t[s][m]] + Black(t.red, m) + Lack(NULL, "left", m, s)
    BY <1>1 DEF Balanced, Levels, Level
  <2>2. Black(r.red, m) = Black(t.red, m)
    BY <1>2, <1>4 DEF Black
  <2>3. h1[r[s][m]] = h[t[s][m]]
    BY <1>2, <1>3, <1>5, <1>7, <1>8
  <2> QED
    BY <1>7, <2>1, <2>2, <2>3
<1>11. ASSUME NEW s \in Side
       PROVE  h1[k] = h1[r[s][k]] + Black(r.red, k) + Lack(NULL, "left", k, s)
  <2>1. Black(r.red, k) = 0 /\ Lack(NULL, "left", k, s) = 0 /\ r[s][k] = NULL
    BY <1>2, <1>4 DEF Black, Lack
  <2> QED
    BY <1>7, <2>1
<1>12. Balanced(r, N \cup {k}, h1)
  BY <1>7, <1>10, <1>11 DEF Balanced, Levels, Level
<1>13. Reds(r, N \cup {k}, r.red, k)
  <2>1. t.red \subseteq N /\ \A n \in N : \A s \in Side : n \in t.red /\ t[s][n] \in t.red => t[s][n] = NULL
    BY <1>1 DEF Reds
  <2>2. NULL \notin r.red
    BY <1>2, <1>4, <2>1
  <2>3. ASSUME NEW n \in N, NEW s \in Side, n \in r.red, r[s][n] \in r.red, r[s][n] # k
        PROVE  FALSE
    BY <1>2, <1>3, <1>4, <2>1, <2>3
  <2>4. \A s \in Side : r[s][k] \notin r.red
    BY <1>4, <2>2
  <2> QED
    BY <1>4, <2>1, <2>3, <2>4 DEF Reds
<1> QED
  BY <1>12, <1>13

LEMMA FirstInserted ==
  ASSUME NEW t, NEW D, NEW h, RedBlack(t, {}, D, h), NEW k \in Node, NEW d, NEW r, Grown(r, t, k, NULL, d)
  PROVE  \E E, h1 : Inserting(r, {k}, E, h1, k)
<1>1. Linked(t, {}, D) /\ Balanced(t, {}, h) /\ t.red = {}
  BY DEF RedBlack, Reds
<1>2. NULL \notin Node /\ k # NULL
  BY NodeAssumption
<1>3. /\ r \in Trees /\ r.red = {k} /\ r.root = k /\ r.parent[k] = NULL
      /\ \A a \in Side : r[a][k] = NULL
  BY <1>1 DEF Grown
<1>4. PICK E : E = [z \in {k} |-> {k}]
  OBVIOUS
<1>5. Below(r, E, "left", k) = {} /\ Below(r, E, "right", k) = {}
  BY <1>3 DEF Below, Side
<1>6. Hangs(r, {k}, E, k)
  BY <1>2, <1>3, <1>4, <1>5 DEF Hangs
<1>7. IsFiniteSet({k})
  BY FS_Singleton
<1>8. Linked(r, {k}, E)
  BY <1>3, <1>4, <1>6, <1>7 DEF Linked
<1>9. h \in [Node \cup {NULL} -> Nat] /\ h[NULL] = 0
  BY <1>1 DEF Balanced, Levels
<1>10. PICK h1 : h1 = [h EXCEPT ![k] = 0]
  OBVIOUS
<1>11. h1 \in [Node \cup {NULL} -> Nat] /\ h1[NULL] = 0 /\ h1[k] = 0
  BY <1>2, <1>9, <1>10
<1>12. Black(r.red, k) = 0 /\ \A s \in Side : Lack(NULL, "left", k, s) = 0
  BY <1>2, <1>3 DEF Black, Lack
<1>13. Balanced(r, {k}, h1)
  BY <1>3, <1>11, <1>12 DEF Balanced, Levels, Level
<1>14. Reds(r, {k}, r.red, k)
  BY <1>2, <1>3 DEF Reds
<1> QED
  BY <1>3, <1>8, <1>13, <1>14 DEF Inserting

(* INSERT() up to INSERT_COLOR(): only the new node may be red below a red *)
(* one.                                                                    *)
LEMMA InsertKeeps ==
  ASSUME NEW t, NEW N, NEW D, NEW h, RedBlack(t, N, D, h), Outlying(t, N), NEW k \in Node, k \notin N,
         NEW r, r = Insert(t, k)
  PROVE  (\E E, h1 : Inserting(r, N \cup {k}, E, h1, k)) /\ SameOutside(r, t, N \cup {k})
<1>1. Linked(t, N, D) /\ t \in Trees /\ N \subseteq Node /\ NULL \notin Node /\ Node \subseteq Int /\ t.root \notin t.red
  BY LinkedIs DEF RedBlack
<1>2. PICK p : p = Last(t, k)
  OBVIOUS
<1>3. CASE N = {}
  <2>1. t.root = NULL
    BY <1>1, <1>3 DEF Linked
  <2>2. p = NULL
    BY <1>2, <2>1 DEF Last
  <2>3. Grown(r, t, k, NULL, Step(NULL, k))
    BY <1>1, <1>2, <2>2, InsertIs
  <2>4. \E E, h1 : Inserting(r, {k}, E, h1, k)
    BY <1>3, <2>3, FirstInserted
  <2>5. {k} = N \cup {k}
    BY <1>3
  <2>6. SameOutside(r, t, N \cup {k})
    BY <1>1, <2>3 DEF Grown, SameOutside
  <2> QED
    BY <2>4, <2>5, <2>6
<1>4. CASE N # {}
  <2>1. IsLast(t, D, t.root, k, p) /\ D[t.root] = N
    BY <1>1, <1>2, <1>4, WalksLast
  <2>2. p \in N /\ p # k /\ p # NULL
    BY <1>1, <2>1 DEF IsLast
  <2>3. PICK d : d = Step(p, k)
    OBVIOUS
  <2>4. d \in Side /\ Toward(d, p, k)
    BY <1>1, <2>2, <2>3, StepIs
  <2>5. Room(t, N, D, k, p, d)
    BY <1>1, <2>1, <2>2, <2>3, <2>4 DEF IsLast, Room
  <2>6. Grown(r, t, k, p, d)
    BY <1>1, <1>2, <2>2, <2>3, InsertIs
  <2>7. Linked(r, N \cup {k}, Grow(N, D, k, p))
    BY <1>1, <2>5, <2>6, GrownLinked
  <2>8. PICK h1 : Balanced(r, N \cup {k}, h1) /\ Reds(r, N \cup {k}, r.red, k)
    BY <2>5, <2>6, GrownRest
  <2>9. k \in r.red /\ (r.root \in r.red => r.root = k)
    BY <1>1, <2>2, <2>6 DEF Grown
  <2>10. SameOutside(r, t, N \cup {k})
    BY <1>1, <2>2, <2>6 DEF Grown, SameOutside
  <2> QED
    BY <2>7, <2>8, <2>9, <2>10 DEF Inserting
<1> QED
  BY <1>3, <1>4

-----------------------------------------------------------------------------
(* r is t without n, whose place its only child takes, but for the colour. *)
IsCut(r, t, n, c) ==
  /\ r \in Trees /\ r.root = IF n = t.root THEN c ELSE t.root
  /\ \A m \in Node : r.parent[m] = IF m = c THEN t.parent[n] ELSE t.parent[m]
  /\ \A a \in Side : \A m \in Node : r[a][m] = IF m = t.parent[n] /\ t[a][m] = n THEN c ELSE t[a][m]

Cut(t, n, c) == Relink(SetParent(t, c, t.parent[n]), n, c)

(* n has at most the child c. *)
OnlyChild(t, N, n, s, c) == n \in N /\ s \in Side /\ t[s][n] = NULL /\ t[Other(s)][n] = c

Less(N, D, n) == [m \in N \ {n} |-> D[m] \ {n}]

(* The only child of a node without two.                                   *)
LEMMA OnlyChildIs ==
  ASSUME NEW t, NEW N, NEW D, Linked(t, N, D), NEW n, NEW s, NEW c, OnlyChild(t, N, n, s, c)
  PROVE  /\ n \in N /\ n \in Node /\ n # NULL /\ c \in N \cup {NULL} /\ c # n /\ (c = NULL \/ c # t.root)
         /\ (c # NULL => t.parent[c] = n /\ D[c] \subseteq D[n] /\ n \notin D[c] /\ c \in D[c])
         /\ \A a \in Side : t[a][n] \in {NULL, c}
         /\ D[n] = {n} \cup (IF c = NULL THEN {} ELSE D[c])
         /\ IF n = t.root THEN t.parent[n] = NULL
            ELSE t.parent[n] \in N /\ t.parent[n] # n
                 /\ \E a \in Side : t[a][t.parent[n]] = n /\ t[Other(a)][t.parent[n]] # n
<1>1. n \in N /\ s \in Side /\ t[s][n] = NULL /\ t[Other(s)][n] = c /\ Other(s) \in Side /\ Side = {s, Other(s)}
  BY SideIs DEF OnlyChild
<1>2. n \in Node /\ n # NULL /\ n \in D[n] /\ c \in N \cup {NULL}
  BY <1>1, LinkedIs, HangsIs
<1>3. c # NULL => t.parent[c] = n /\ D[c] \subseteq D[n] /\ n \notin D[c] /\ c \in D[c] /\ c # n /\ c # t.root
  BY <1>1, KidIs DEF IsKid
<1>4. \A a \in Side : t[a][n] \in {NULL, c}
  BY <1>1
<1>5. D[n] = {n} \cup (IF c = NULL THEN {} ELSE D[c])
  <2>1. D[n] = {n} \cup Below(t, D, s, n) \cup Below(t, D, Other(s), n)
    BY <1>1, BelowIs
  <2> QED
    BY <1>1, <2>1 DEF Below
<1>6. IF n = t.root THEN t.parent[n] = NULL
      ELSE t.parent[n] \in N /\ t.parent[n] # n
           /\ \E a \in Side : t[a][t.parent[n]] = n /\ t[Other(a)][t.parent[n]] # n
  BY <1>1, HangsIs, UpIs
<1> QED
  BY <1>1, <1>2, <1>3, <1>4, <1>5, <1>6

LEMMA CutIs ==
  ASSUME NEW t, NEW N, NEW D, Linked(t, N, D), NEW n, NEW s, NEW c, OnlyChild(t, N, n, s, c),
         NEW r, r = Cut(t, n, c)
  PROVE  IsCut(r, t, n, c) /\ r.red = t.red
<1>1. t \in Trees /\ N \subseteq Node /\ NULL \notin Node
  BY LinkedIs
<1>2. n \in Node /\ c \in Node \cup {NULL} /\ c # n
  BY <1>1, OnlyChildIs
<1>3. PICK p : p = t.parent[n]
  OBVIOUS
<1>4. IF n = t.root THEN p = NULL
      ELSE p \in Node /\ \E a \in Side : t[a][p] = n /\ t[Other(a)][p] # n
  BY <1>1, <1>3, OnlyChildIs
<1>5. PICK u : u = SetParent(t, c, p)
  OBVIOUS
<1>6. IsPutUp(u, t, c, p)
  BY <1>1, <1>2, <1>4, <1>5, SetParentIs
<1>7. /\ u \in Trees /\ u.red = t.red /\ u.root = t.root
      /\ \A a \in Side : \A m \in Node : u[a][m] = t[a][m]
      /\ \A m \in Node : u.parent[m] = IF m = c THEN p ELSE t.parent[m]
  BY <1>6 DEF IsPutUp
<1>8. u.parent[n] = p
  BY <1>2, <1>3, <1>7
<1>9. u.parent[n] # NULL => \E a \in Side : u[a][u.parent[n]] = n /\ u[Other(a)][u.parent[n]] # n
  BY <1>4, <1>7, <1>8, SideIs
<1>10. IsRelinked(Relink(u, n, c), u, n, c)
  BY <1>2, <1>7, <1>9, RelinkIs
<1>11. r = Relink(u, n, c)
  BY <1>3, <1>5 DEF Cut
<1>12. /\ r \in Trees /\ r.parent = u.parent /\ r.red = u.red
       /\ r.root = IF u.parent[n] = NULL THEN c ELSE u.root
       /\ \A a \in Side : \A k \in Node : r[a][k] = IF u.parent[n] = k /\ u[a][k] = n THEN c ELSE u[a][k]
  BY <1>10, <1>11 DEF IsRelinked
<1>13. r.root = IF n = t.root THEN c ELSE t.root
  BY <1>1, <1>4, <1>7, <1>8, <1>12
<1> QED
  BY <1>3, <1>7, <1>8, <1>12, <1>13 DEF IsCut

(* The tree hangs together without n, and is in order.                     *)
LEMMA CutHangs ==
  ASSUME NEW t, NEW N, NEW D, Linked(t, N, D), NEW n, NEW s, NEW c, OnlyChild(t, N, n, s, c),
         NEW r, IsCut(r, t, n, c), NEW E, E = Less(N, D, n), NEW m \in N \ {n}
  PROVE  Hangs(r, N \ {n}, E, m)
<1>1. PICK q : q = t.parent[n]
  OBVIOUS
<1>2. /\ N \subseteq Node /\ NULL \notin N /\ NULL \notin Node
      /\ n \in N /\ n # NULL /\ c \in N \cup {NULL} /\ c # n /\ m \in N /\ m # n
  BY LinkedIs, OnlyChildIs
<1>3. /\ r.root = IF n = t.root THEN c ELSE t.root
      /\ \A k \in N : r.parent[k] = IF k = c THEN q ELSE t.parent[k]
      /\ \A a \in Side : \A k \in N : r[a][k] = IF k = q /\ t[a][k] = n THEN c ELSE t[a][k]
  BY <1>1, <1>2 DEF IsCut
<1>4. \A k \in N \ {n} : E[k] = D[k] \ {n}
  BY DEF Less
<1>5. c # NULL => t.parent[c] = n /\ D[c] \subseteq D[n] /\ n \notin D[c]
  BY OnlyChildIs
<1>6. D[n] = {n} \cup (IF c = NULL THEN {} ELSE D[c])
  BY OnlyChildIs
<1>7. ASSUME NEW a \in Side
      PROVE  /\ r[a][m] # NULL =>
                  /\ r[a][m] \in N \ {n} /\ r.parent[r[a][m]] = m
                  /\ \A x \in E[r[a][m]] : Toward(a, m, x)
             /\ Below(r, E, a, m) = Below(t, D, a, m) \ {n}
  <2>1. PICK k : k = t[a][m]
    OBVIOUS
  <2>2. k # NULL => k \in N /\ t.parent[k] = m /\ \A x \in D[k] : Toward(a, m, x)
    BY <1>2, <2>1, HangsIs
  <2>3. CASE k = n
    <3>1. m = q /\ r[a][m] = c
      BY <1>1, <1>2, <1>3, <2>1, <2>2, <2>3, ZenonT(60)
    <3>2. CASE c = NULL
      BY <1>2, <1>6, <2>1, <2>3, <3>1, <3>2 DEF Below
    <3>3. CASE c # NULL
      <4>1. c \in N \ {n} /\ r.parent[c] = m
        BY <1>2, <1>3, <3>1, <3>3
      <4>2. E[c] = D[c] /\ D[n] \ {n} = D[c]
        BY <1>4, <1>5, <1>6, <3>3, <4>1
      <4>3. \A x \in E[c] : Toward(a, m, x)
        BY <1>2, <1>5, <2>2, <2>3, <3>3, <4>2
      <4>4. Below(r, E, a, m) = E[c] /\ Below(t, D, a, m) = D[n]
        BY <1>2, <2>1, <2>3, <3>1, <3>3 DEF Below
      <4> QED
        BY <3>1, <4>1, <4>2, <4>3, <4>4
    <3> QED
      BY <3>2, <3>3
  <2>4. CASE k # n
    <3>1. r[a][m] = k
      BY <1>2, <1>3, <2>1, <2>4
    <3>2. CASE k = NULL
      BY <2>1, <3>1, <3>2 DEF Below
    <3>3. CASE k # NULL
      <4>1. k \in N \ {n} /\ t.parent[k] = m /\ \A x \in D[k] : Toward(a, m, x)
        BY <2>2, <2>4, <3>3
      <4>2. k # c
        BY <1>2, <1>5, <3>3, <4>1
      <4>3. r.parent[k] = m
        BY <1>3, <4>1, <4>2
      <4>4. Below(r, E, a, m) = E[k] /\ Below(t, D, a, m) = D[k] /\ E[k] = D[k] \ {n}
        BY <1>4, <2>1, <3>1, <3>3, <4>1 DEF Below
      <4> QED
        BY <3>1, <4>1, <4>3, <4>4
    <3> QED
      BY <3>2, <3>3
  <2> QED
    BY <2>3, <2>4
<1>8. ASSUME m # r.root
      PROVE  r.parent[m] \in N \ {n} /\ \E a \in Side : r[a][r.parent[m]] = m
  <2>1. CASE m = c
    <3>1. n # t.root
      BY <1>3, <1>8, <2>1
    <3>2. q \in N /\ q # n
      BY <1>1, <3>1, OnlyChildIs
    <3>3. PICK a \in Side : t[a][q] = n
      BY <1>1, <3>1, OnlyChildIs
    <3>4. r[a][q] = c /\ r.parent[m] = q
      BY <1>2, <1>3, <2>1, <3>2, <3>3
    <3> QED
      BY <2>1, <3>2, <3>4
  <2>2. CASE m # c
    <3>1. m # t.root
      BY <1>2, <1>3, <1>8
    <3>2. PICK p : p = t.parent[m]
      OBVIOUS
    <3>3. p \in N
      BY <1>2, <3>1, <3>2, UpIs
    <3>4. PICK a \in Side : t[a][p] = m
      BY <1>2, <3>1, <3>2, UpIs
    <3>5. p # n
      BY <1>2, <2>2, <3>4, OnlyChildIs
    <3>6. r.parent[m] = p /\ r[a][p] = m
      BY <1>2, <1>3, <2>2, <3>2, <3>3, <3>4
    <3> QED
      BY <3>3, <3>5, <3>6
  <2> QED
    BY <2>1, <2>2
<1>9. E[m] = {m} \cup Below(r, E, "left", m) \cup Below(r, E, "right", m)
  <2>1. D[m] = {m} \cup Below(t, D, "left", m) \cup Below(t, D, "right", m)
    BY <1>2 DEF Linked, Hangs
  <2>2. /\ Below(r, E, "left", m) = Below(t, D, "left", m) \ {n}
        /\ Below(r, E, "right", m) = Below(t, D, "right", m) \ {n}
    BY <1>7 DEF Side
  <2> QED
    BY <1>2, <1>4, <2>1, <2>2
<1> QED
  BY <1>7, <1>8, <1>9 DEF Hangs

LEMMA CutLinked ==
  ASSUME NEW t, NEW N, NEW D, Linked(t, N, D), NEW n, NEW s, NEW c, OnlyChild(t, N, n, s, c),
         NEW r, IsCut(r, t, n, c)
  PROVE  Linked(r, N \ {n}, Less(N, D, n))
<1>1. PICK E : E = Less(N, D, n)
  OBVIOUS
<1>2. PICK M : M = N \ {n}
  OBVIOUS
<1>3. /\ t \in Trees /\ N \subseteq Node /\ NULL \notin N /\ NULL \notin Node
      /\ n \in N /\ n # NULL /\ c \in N \cup {NULL} /\ c # n
  BY LinkedIs, OnlyChildIs
<1>4. r \in Trees /\ M \in SUBSET Node /\ IsFiniteSet(M)
  <2>1. IsFiniteSet(N) /\ M \in SUBSET N
    BY <1>2, LinkedIs
  <2>2. IsFiniteSet(M)
    BY <2>1, FS_Subset
  <2> QED
    BY <1>2, <1>3, <2>2 DEF IsCut
<1>5. E \in [M -> SUBSET M]
  <2>1. D \in [N -> SUBSET N]
    BY DEF Linked
  <2> QED
    BY <1>1, <1>2, <2>1 DEF Less
<1>6. t.root \in N /\ t.parent[t.root] = NULL /\ D[t.root] = N
  BY <1>3 DEF Linked
<1>7. IF M = {} THEN r.root = NULL ELSE r.root \in M /\ r.parent[r.root] = NULL /\ E[r.root] = M
  <2>1. CASE n = t.root
    <3>1. r.root = c /\ N = {n} \cup (IF c = NULL THEN {} ELSE D[c])
      BY <1>6, <2>1, OnlyChildIs DEF IsCut
    <3>2. CASE c = NULL
      BY <1>2, <3>1, <3>2
    <3>3. CASE c # NULL
      <4>1. c \in M /\ n \notin D[c] /\ M = D[c]
        BY <1>2, <1>3, <3>1, <3>3, OnlyChildIs
      <4>2. r.parent[c] = NULL
        BY <1>3, <1>6, <2>1, <3>3 DEF IsCut
      <4>3. E[c] = M
        BY <1>1, <1>2, <4>1 DEF Less
      <4> QED
        BY <3>1, <4>1, <4>2, <4>3
    <3> QED
      BY <3>2, <3>3
  <2>2. CASE n # t.root
    <3>1. r.root = t.root /\ t.root \in M
      BY <1>2, <1>6, <2>2 DEF IsCut
    <3>2. t.root # c
      BY <1>3, <1>6, OnlyChildIs
    <3>3. r.parent[t.root] = NULL
      BY <1>3, <1>6, <3>2 DEF IsCut
    <3>4. E[t.root] = M
      BY <1>1, <1>2, <1>6, <3>1 DEF Less
    <3> QED
      BY <3>1, <3>3, <3>4
  <2> QED
    BY <2>1, <2>2
<1>8. \A m \in M : Hangs(r, M, E, m)
  BY <1>1, <1>2, CutHangs
<1> QED
  BY <1>1, <1>2, <1>4, <1>5, <1>7, <1>8 DEF Linked

(* What the cut leaves to be put right. *)
Cutting(r, N, D, h, p, e, black) ==
  IF ~black THEN RedBlack(r, N, D, h)
  ELSE IF p = NULL THEN e = r.root /\ Whole(r, N, D, h)
  ELSE \E d : Lacking(r, N, D, h, p, e, d)

-----------------------------------------------------------------------------
Heights(t, N, h) ==
  /\ h \in [Node \cup {NULL} -> Nat] /\ h[NULL] = 0
  /\ \A m \in N : \A a \in Side : h[m] = h[t[a][m]] + Black(t.red, m) + 0

(* Heights are naturals.                                                   *)
LEMMA HeightsIs ==
  ASSUME NEW t, NEW N, NEW h, Balanced(t, N, h), NULL \notin N
  PROVE  Heights(t, N, h)
<1>1. /\ h \in [Node \cup {NULL} -> Nat] /\ h[NULL] = 0
      /\ \A m \in N : \A a \in Side : h[m] = h[t[a][m]] + Black(t.red, m) + Lack(NULL, "left", m, a)
  BY DEF Balanced, Levels, Level
<1>2. \A m \in N : \A a \in Side : Lack(NULL, "left", m, a) = 0
  BY DEF Lack
<1> QED
  BY <1>1, <1>2 DEF Heights

(* Where a black node is cut out, a black node is missing.                 *)
LEMMA CutLevels ==
  ASSUME NEW t, NEW N, NEW D, NEW h, Linked(t, N, D), Balanced(t, N, h),
         NEW n, NEW s, NEW c, OnlyChild(t, N, n, s, c),
         NEW r, IsCut(r, t, n, c), r.red = t.red \ {n},
         NEW q, q = IF n \in t.red THEN NULL ELSE t.parent[n],
         NEW d, d \in Side, n # t.root => t[d][t.parent[n]] = n /\ t[Other(d)][t.parent[n]] # n
  PROVE  Levels(r, N \ {n}, r.red, h, q, d)
<1>1. /\ N \subseteq Node /\ NULL \notin N /\ NULL \notin Node
      /\ n \in N /\ n # NULL /\ c \in N \cup {NULL} /\ c # n
  BY LinkedIs, OnlyChildIs
<1>2. /\ h \in [Node \cup {NULL} -> Nat] /\ h[NULL] = 0
      /\ \A m \in N : \A a \in Side : h[m] = h[t[a][m]] + Black(t.red, m) + 0
  <2>1. Heights(t, N, h)
    BY <1>1, HeightsIs
  <2> QED
    BY <2>1 DEF Heights
<1>3. h[n] = h[c] + Black(t.red, n) /\ h[c] \in Nat /\ h[n] \in Nat
  <2>1. Other(s) \in Side /\ t[Other(s)][n] = c
    BY SideIs DEF OnlyChild
  <2>2. h[n] = h[c] + Black(t.red, n) + 0
    BY <1>1, <1>2, <2>1
  <2>3. h[c] \in Nat /\ h[n] \in Nat /\ Black(t.red, n) \in Nat
    BY <1>1, <1>2 DEF Black
  <2> QED
    BY <2>2, <2>3
<1>4. ASSUME NEW m \in N \ {n}, NEW a \in Side
      PROVE  h[m] = h[r[a][m]] + Black(r.red, m) + Lack(q, d, m, a)
  <2>1. Black(r.red, m) = Black(t.red, m) /\ Black(t.red, m) \in Nat
    BY DEF Black
  <2>2. h[m] = h[t[a][m]] + Black(t.red, m) + 0
    BY <1>2
  <2>3. r[a][m] = IF m = t.parent[n] /\ t[a][m] = n THEN c ELSE t[a][m]
    BY <1>1 DEF IsCut
  <2>4. t[a][m] = n <=> (m = t.parent[n] /\ a = d /\ n # t.root)
    <3>1. t[a][m] = n => t.parent[n] = m /\ n # t.root
      BY <1>1, HangsIs
    <3>2. a = d \/ a = Other(d)
      BY SideIs
    <3> QED
      BY <3>1, <3>2
  <2>5. t[a][m] \in N \cup {NULL}
    BY HangsIs
  <2>6. CASE t[a][m] = n
    <3>1. r[a][m] = c /\ m = t.parent[n] /\ a = d
      BY <2>3, <2>4, <2>6
    <3>2. Lack(q, d, m, a) = Black(t.red, n)
      BY <1>1, <3>1 DEF Lack, Black
    <3>3. Black(t.red, n) \in Nat
      BY DEF Black
    <3> QED
      BY <1>3, <2>1, <2>2, <2>6, <3>1, <3>2, <3>3
  <2>7. CASE t[a][m] # n
    <3>1. r[a][m] = t[a][m]
      BY <2>3, <2>7
    <3>2. q = m /\ a = d => n = t.root
      BY <1>1, <2>4, <2>7
    <3>3. n = t.root => t.parent[n] = NULL
      BY OnlyChildIs
    <3>4. ~(q = m /\ a = d)
      BY <1>1, <3>2, <3>3
    <3>5. Lack(q, d, m, a) = 0
      BY <3>4 DEF Lack
    <3> QED
      BY <2>1, <2>2, <3>1, <3>5
  <2> QED
    BY <2>6, <2>7
<1> QED
  BY <1>2, <1>4 DEF Levels, Level

(* Where a red one is, or a black one, red follows red only at the child.  *)
LEMMA CutReds ==
  ASSUME NEW t, NEW N, NEW D, Linked(t, N, D), Reds(t, N, t.red, NULL),
         NEW n, NEW s, NEW c, OnlyChild(t, N, n, s, c),
         NEW r, IsCut(r, t, n, c), r.red = t.red \ {n}
  PROVE  RedsBut(r, N \ {n}, r.red, c) /\ (n \in t.red => Reds(r, N \ {n}, r.red, NULL))
<1>1. /\ N \subseteq Node /\ NULL \notin N /\ n \in N /\ n # NULL /\ c \in N \cup {NULL} /\ c # n
  BY LinkedIs, OnlyChildIs
<1>2. t.red \subseteq N /\ \A m \in N : \A a \in Side : m \in t.red /\ t[a][m] \in t.red => t[a][m] = NULL
  BY DEF Reds
<1>3. n \in t.red => c \notin t.red
  <2>1. Other(s) \in Side /\ t[Other(s)][n] = c
    BY SideIs DEF OnlyChild
  <2> QED
    BY <1>1, <1>2, <2>1
<1>4. r.red \subseteq N \ {n}
  BY <1>2
<1>5. ASSUME NEW m \in N \ {n}, NEW a \in Side, m \in r.red, r[a][m] \in r.red
      PROVE  r[a][m] = c /\ n \notin t.red
  <2>1. r[a][m] = IF m = t.parent[n] /\ t[a][m] = n THEN c ELSE t[a][m]
    BY <1>1 DEF IsCut
  <2>2. m \in t.red /\ r[a][m] \in t.red /\ r[a][m] \in N
    BY <1>2, <1>5
  <2> QED
    BY <1>1, <1>2, <1>3, <2>1, <2>2
<1> QED
  BY <1>4, <1>5 DEF RedsBut, Reds

(* A cut leaves a red-black tree, or one that REMOVE_COLOR() can start     *)
(* from.                                                                   *)
LEMMA CutKeeps ==
  ASSUME NEW t, NEW N, NEW D, NEW h, RedBlack(t, N, D, h),
         NEW n, NEW s, NEW c, OnlyChild(t, N, n, s, c),
         NEW r, IsCut(r, t, n, c), r.red = t.red \ {n}
  PROVE  Cutting(r, N \ {n}, Less(N, D, n), h, t.parent[n], c, n \notin t.red)
<1>1. Linked(t, N, D) /\ Balanced(t, N, h) /\ Reds(t, N, t.red, NULL) /\ t.root \notin t.red
  BY DEF RedBlack
<1>2. /\ N \subseteq Node /\ NULL \notin N /\ n \in N /\ n # NULL /\ c \in N \cup {NULL} /\ c # n
  BY <1>1, LinkedIs, OnlyChildIs
<1>3. PICK M : M = N \ {n}
  OBVIOUS
<1>4. PICK E : E = Less(N, D, n)
  OBVIOUS
<1>5. Linked(r, M, E)
  BY <1>1, <1>3, <1>4, CutLinked
<1>6. RedsBut(r, M, r.red, c) /\ (n \in t.red => Reds(r, M, r.red, NULL))
  BY <1>1, <1>3, CutReds
<1>7. PICK d \in Side : n # t.root => t[d][t.parent[n]] = n /\ t[Other(d)][t.parent[n]] # n
  <2>1. "left" \in Side
    BY DEF Side
  <2> QED
    BY <1>1, <2>1, OnlyChildIs
<1>8. PICK q : q = IF n \in t.red THEN NULL ELSE t.parent[n]
  OBVIOUS
<1>9. Levels(r, M, r.red, h, q, d)
  BY <1>1, <1>3, <1>7, <1>8, CutLevels
<1>10. NULL \notin M /\ r.root = IF n = t.root THEN c ELSE t.root
  BY <1>2, <1>3 DEF IsCut
<1>11. IF n = t.root THEN t.parent[n] = NULL ELSE t.parent[n] \in N /\ t.parent[n] # n
  BY <1>1, OnlyChildIs
<1>12. CASE n \in t.red
  <2>1. Balanced(r, M, h)
    BY <1>8, <1>9, <1>10, <1>12, NothingLacks DEF Balanced
  <2>2. r.root \notin r.red
    BY <1>1, <1>10, <1>12
  <2> QED
    BY <1>3, <1>4, <1>5, <1>6, <1>12, <2>1, <2>2 DEF Cutting, RedBlack
<1>13. CASE n \notin t.red /\ n = t.root
  <2>1. t.parent[n] = NULL /\ q = NULL /\ r.root = c
    BY <1>8, <1>10, <1>11, <1>13
  <2>2. Balanced(r, M, h)
    BY <1>9, <1>10, <2>1, NothingLacks DEF Balanced
  <2>3. Whole(r, M, E, h)
    BY <1>5, <1>6, <2>1, <2>2 DEF Whole
  <2> QED
    BY <1>3, <1>4, <1>13, <2>1, <2>3 DEF Cutting
<1>14. CASE n \notin t.red /\ n # t.root
  <2>1. q = t.parent[n] /\ q \in M /\ q # NULL /\ r.root = t.root
    BY <1>2, <1>3, <1>8, <1>10, <1>11, <1>14
  <2>2. r[d][q] = c
    <3>1. q \in Node
      BY <1>2, <1>3, <2>1
    <3> QED
      BY <1>7, <1>14, <2>1, <3>1 DEF IsCut
  <2>3. r.root \notin r.red
    BY <1>1, <2>1
  <2>4. Lacking(r, M, E, h, q, c, d)
    BY <1>5, <1>6, <1>7, <1>9, <2>1, <2>2, <2>3 DEF Lacking
  <2> QED
    BY <1>3, <1>4, <1>14, <2>1, <2>4 DEF Cutting
<1> QED
  BY <1>12, <1>13, <1>14

-----------------------------------------------------------------------------
(* u is r with x in the place of n. *)
Sub(n, x, m) == IF m = n THEN x ELSE m
IsRenamed(u, r, M, n, x) ==
  /\ n \in M /\ x \in Node /\ x \notin M
  /\ u \in Trees /\ u.root = Sub(n, x, r.root)
  /\ u.red = IF n \in r.red THEN (r.red \cup {x}) \ {n} ELSE r.red
  /\ \A a \in Side : u[a][x] = r[a][n] /\ \A m \in M : m # n => u[a][m] = Sub(n, x, r[a][m])
  /\ u.parent[x] = r.parent[n] /\ \A m \in M : m # n => u.parent[m] = Sub(n, x, r.parent[m])

(* x fits in there. *)
Fits(M, n, x) ==
  \A y \in M : y # n => \A a \in Side : (Toward(a, n, y) <=> Toward(a, x, y)) /\ (Toward(a, y, n) <=> Toward(a, y, x))

Put(S, n, x) == IF n \in S THEN (S \ {n}) \cup {x} ELSE S
Rename(M, D, n, x) == [m \in Put(M, n, x) |-> Put(D[IF m = x THEN n ELSE m], n, x)]

(* What is renamed hangs together as before.                               *)
LEMMA RenamedDown ==
  ASSUME NEW r, NEW M, NEW D, Linked(r, M, D), NEW n, NEW x, NEW u, IsRenamed(u, r, M, n, x),
         NEW m \in M, NEW a \in Side, NEW k, k = r[a][m]
  PROVE  /\ u[a][Sub(n, x, m)] = Sub(n, x, k)
         /\ k \in M \cup {NULL} /\ (k = NULL <=> Sub(n, x, k) = NULL)
         /\ (k # NULL => u.parent[Sub(n, x, k)] = Sub(n, x, m))
<1>1. n \in M /\ x \in Node /\ x \notin M /\ M \subseteq Node /\ NULL \notin M /\ NULL \notin Node
  BY LinkedIs DEF IsRenamed
<1>2. /\ \A b \in Side : u[b][x] = r[b][n] /\ \A j \in M : j # n => u[b][j] = Sub(n, x, r[b][j])
      /\ u.parent[x] = r.parent[n] /\ \A j \in M : j # n => u.parent[j] = Sub(n, x, r.parent[j])
  BY DEF IsRenamed
<1>3. k \in M \cup {NULL} /\ (k # NULL => k # m /\ r.parent[k] = m)
  BY HangsIs
<1>4. u[a][Sub(n, x, m)] = Sub(n, x, k)
  BY <1>1, <1>2, <1>3 DEF Sub
<1>5. k # NULL => u.parent[Sub(n, x, k)] = Sub(n, x, m)
  BY <1>1, <1>2, <1>3 DEF Sub
<1>6. k = NULL <=> Sub(n, x, k) = NULL
  BY <1>1 DEF Sub
<1> QED
  BY <1>3, <1>4, <1>5, <1>6

LEMMA RenamedHangs ==
  ASSUME NEW r, NEW M, NEW D, Linked(r, M, D), NEW n, NEW x, NEW u, IsRenamed(u, r, M, n, x), Fits(M, n, x),
         NEW E, E = Rename(M, D, n, x), NEW m \in M, NEW w, w = Sub(n, x, m)
  PROVE  Hangs(u, Put(M, n, x), E, w)
<1>1. n \in M /\ x \in Node /\ x \notin M /\ M \subseteq Node /\ NULL \notin M /\ NULL \notin Node
  BY LinkedIs DEF IsRenamed
<1>2. \A j \in M : Sub(n, x, j) \in Put(M, n, x)
  BY <1>1 DEF Sub, Put
<1>3. \A j \in M : E[Sub(n, x, j)] = Put(D[j], n, x)
  BY <1>1, <1>2 DEF Sub, Rename
<1>4. \A j \in M : D[j] \in SUBSET M
  BY HangsIs
<1>5. u.root = Sub(n, x, r.root)
  BY DEF IsRenamed
<1>6. ASSUME NEW a \in Side
      PROVE  /\ u[a][w] # NULL => /\ u[a][w] \in Put(M, n, x) /\ u.parent[u[a][w]] = w
                                  /\ \A y \in E[u[a][w]] : Toward(a, w, y)
             /\ Below(u, E, a, w) = Put(Below(r, D, a, m), n, x)
  <2>1. PICK k : k = r[a][m]
    OBVIOUS
  <2>2. /\ u[a][w] = Sub(n, x, k) /\ k \in M \cup {NULL} /\ (k = NULL <=> Sub(n, x, k) = NULL)
        /\ (k # NULL => u.parent[Sub(n, x, k)] = w)
    BY <2>1, RenamedDown
  <2>3. CASE k = NULL
    <3>1. Below(u, E, a, w) = {} /\ Below(r, D, a, m) = {}
      BY <2>1, <2>2, <2>3 DEF Below
    <3> QED
      BY <2>2, <2>3, <3>1 DEF Put
  <2>4. CASE k # NULL
    <3>1. k \in M /\ E[u[a][w]] = Put(D[k], n, x)
      BY <1>3, <2>2, <2>4
    <3>2. Below(u, E, a, w) = E[u[a][w]] /\ Below(r, D, a, m) = D[k]
      BY <2>1, <2>2, <2>4 DEF Below
    <3>3. m \notin D[k] /\ \A y \in D[k] : Toward(a, m, y)
      BY <2>1, <2>4, HangsIs
    <3>4. ASSUME NEW y \in Put(D[k], n, x)
          PROVE  Toward(a, w, y)
      <4>1. CASE m = n
        <5>1. y \in D[k] /\ y # n /\ y \in M /\ w = x
          BY <1>4, <3>1, <3>3, <3>4, <4>1 DEF Put, Sub
        <5> QED
          BY <3>3, <4>1, <5>1 DEF Fits
      <4>2. CASE m # n /\ y = x /\ n \in D[k]
        <5>1. w = m /\ Toward(a, m, n)
          BY <3>3, <4>2 DEF Sub
        <5> QED
          BY <4>2, <5>1 DEF Fits
      <4>3. CASE m # n /\ ~(y = x /\ n \in D[k])
        <5>1. w = m /\ y \in D[k]
          BY <3>4, <4>3 DEF Sub, Put
        <5> QED
          BY <3>3, <5>1
      <4> QED
        BY <4>1, <4>2, <4>3
    <3>5. Sub(n, x, k) \in Put(M, n, x)
      BY <1>2, <3>1
    <3> QED
      BY <2>2, <2>4, <3>1, <3>2, <3>4, <3>5
  <2> QED
    BY <2>3, <2>4
<1>7. ASSUME w # u.root
      PROVE  u.parent[w] \in Put(M, n, x) /\ \E a \in Side : u[a][u.parent[w]] = w
  <2>1. m # r.root
    BY <1>5, <1>7
  <2>2. PICK q : q = r.parent[m]
    OBVIOUS
  <2>3. q \in M
    BY <2>1, <2>2, UpIs
  <2>4. PICK a \in Side : r[a][q] = m
    BY <2>1, <2>2, UpIs
  <2>5. u[a][Sub(n, x, q)] = w /\ u.parent[w] = Sub(n, x, q)
    BY <1>1, <2>3, <2>4, RenamedDown
  <2> QED
    BY <1>2, <2>3, <2>5
<1>8. E[w] = {w} \cup Below(u, E, "left", w) \cup Below(u, E, "right", w)
  <2>1. D[m] = {m} \cup Below(r, D, "left", m) \cup Below(r, D, "right", m)
    BY DEF Linked, Hangs
  <2>2. /\ Below(u, E, "left", w) = Put(Below(r, D, "left", m), n, x)
        /\ Below(u, E, "right", w) = Put(Below(r, D, "right", m), n, x)
    BY <1>6 DEF Side
  <2>3. E[w] = Put(D[m], n, x)
    BY <1>3
  <2>4. x \notin D[m]
    BY <1>1, <1>4
  <2>5. Put({m} \cup Below(r, D, "left", m) \cup Below(r, D, "right", m), n, x)
          = {w} \cup Put(Below(r, D, "left", m), n, x) \cup Put(Below(r, D, "right", m), n, x)
    <3>1. \A j \in Side : Below(r, D, j, m) \subseteq D[m]
      BY <2>1 DEF Side
    <3> HIDE DEF Below
    <3> QED
      BY <2>4, <3>1 DEF Put, Sub, Side
  <2> QED
    BY <2>1, <2>2, <2>3, <2>5
<1>9. \A s \in Side : u[s][w] # NULL =>
        /\ u[s][w] \in Put(M, n, x) /\ u.parent[u[s][w]] = w
        /\ \A y \in E[u[s][w]] : Toward(s, w, y)
  BY <1>6
<1> QED
  BY <1>7, <1>8, <1>9 DEF Hangs

LEMMA RenamedLinked ==
  ASSUME NEW r, NEW M, NEW D, Linked(r, M, D), NEW n, NEW x, NEW u, IsRenamed(u, r, M, n, x), Fits(M, n, x)
  PROVE  Linked(u, Put(M, n, x), Rename(M, D, n, x))
<1>1. /\ n \in M /\ x \in Node /\ x \notin M /\ M \subseteq Node /\ NULL \notin M /\ NULL \notin Node
      /\ u \in Trees /\ u.root = Sub(n, x, r.root)
  BY LinkedIs DEF IsRenamed
<1>2. PICK E : E = Rename(M, D, n, x)
  OBVIOUS
<1>3. PICK P : P = Put(M, n, x)
  OBVIOUS
<1>4. P = (M \ {n}) \cup {x} /\ P # {} /\ P \in SUBSET Node
  BY <1>1, <1>3 DEF Put
<1>5. IsFiniteSet(P)
  <2>1. IsFiniteSet(M) /\ M \ {n} \in SUBSET M
    BY LinkedIs
  <2>2. IsFiniteSet(M \ {n})
    BY <2>1, FS_Subset
  <2>3. IsFiniteSet((M \ {n}) \cup {x})
    BY <2>2, FS_AddElement
  <2> QED
    BY <1>4, <2>3
<1>6. \A j \in M : D[j] \in SUBSET M
  BY HangsIs
<1>7. E \in [P -> SUBSET P]
  <2>1. ASSUME NEW m \in P
        PROVE  Put(D[IF m = x THEN n ELSE m], n, x) \in SUBSET P
    <3>1. (IF m = x THEN n ELSE m) \in M
      BY <1>1, <1>4
    <3> QED
      BY <1>4, <1>6, <3>1 DEF Put
  <2> QED
    BY <1>2, <1>3, <2>1 DEF Rename
<1>8. u.root \in P /\ u.parent[u.root] = NULL /\ E[u.root] = P
  <2>1. r.root \in M /\ r.parent[r.root] = NULL /\ D[r.root] = M
    BY <1>1 DEF Linked
  <2>2. u.root \in P
    BY <1>1, <1>4, <2>1 DEF Sub
  <2>3. E[u.root] = Put(M, n, x)
    BY <1>1, <1>2, <1>3, <2>1, <2>2 DEF Sub, Rename
  <2>4. u.parent[u.root] = NULL
    BY <1>1, <2>1 DEF Sub, IsRenamed
  <2> QED
    BY <1>3, <2>2, <2>3, <2>4
<1>9. ASSUME NEW w \in P
      PROVE  Hangs(u, P, E, w)
  <2>1. PICK m \in M : w = Sub(n, x, m)
    BY <1>1, <1>4 DEF Sub
  <2> QED
    BY <1>2, <1>3, <2>1, RenamedHangs
<1> QED
  BY <1>1, <1>2, <1>3, <1>4, <1>5, <1>7, <1>8, <1>9 DEF Linked

LEMMA RenamedLevels ==
  ASSUME NEW r, NEW M, NEW D, Linked(r, M, D), NEW n, NEW x, NEW u, IsRenamed(u, r, M, n, x),
         r.red \subseteq M, NEW h, NEW q, q \in M \cup {NULL}, NEW d, Levels(r, M, r.red, h, q, d)
  PROVE  \E h1 : Levels(u, Put(M, n, x), u.red, h1, Sub(n, x, q), d)
<1>1. n \in M /\ x \in Node /\ x \notin M /\ M \subseteq Node /\ NULL \notin M /\ NULL \notin Node
  BY LinkedIs DEF IsRenamed
<1>2. /\ h \in [Node \cup {NULL} -> Nat] /\ h[NULL] = 0
      /\ \A m \in M : \A a \in Side : h[m] = h[r[a][m]] + Black(r.red, m) + Lack(q, d, m, a)
  BY DEF Levels, Level
<1>3. PICK h1 : h1 = [h EXCEPT ![x] = h[n]]
  OBVIOUS
<1>4. /\ h1 \in [Node \cup {NULL} -> Nat] /\ h1[NULL] = 0
      /\ \A m \in M \cup {NULL} : h1[Sub(n, x, m)] = h[m]
  BY <1>1, <1>2, <1>3 DEF Sub
<1>5. \A m \in M : Black(u.red, Sub(n, x, m)) = Black(r.red, m)
  BY <1>1 DEF IsRenamed, Sub, Black
<1>6. \A m \in M, a \in Side : Lack(Sub(n, x, q), d, Sub(n, x, m), a) = Lack(q, d, m, a)
  BY <1>1 DEF Lack, Sub
<1>7. ASSUME NEW m \in M, NEW a \in Side
      PROVE  h1[Sub(n, x, m)] = h1[u[a][Sub(n, x, m)]] + Black(u.red, Sub(n, x, m))
                                  + Lack(Sub(n, x, q), d, Sub(n, x, m), a)
  <2>1. PICK k : k = r[a][m]
    OBVIOUS
  <2>2. u[a][Sub(n, x, m)] = Sub(n, x, k) /\ k \in M \cup {NULL}
    BY <2>1, RenamedDown
  <2>3. h1[Sub(n, x, m)] = h[m] /\ h1[u[a][Sub(n, x, m)]] = h[k]
    BY <1>4, <2>2
  <2> QED
    BY <1>2, <1>5, <1>6, <2>1, <2>3
<1>8. ASSUME NEW w \in Put(M, n, x)
      PROVE  \E m \in M : w = Sub(n, x, m)
  BY <1>1 DEF Sub, Put
<1>9. \A w \in Put(M, n, x) : \A a \in Side :
        h1[w] = h1[u[a][w]] + Black(u.red, w) + Lack(Sub(n, x, q), d, w, a)
  BY <1>7, <1>8
<1> QED
  BY <1>4, <1>9 DEF Levels, Level

LEMMA RenamedReds ==
  ASSUME NEW r, NEW M, NEW D, Linked(r, M, D), NEW n, NEW x, NEW u, IsRenamed(u, r, M, n, x),
         NEW e, e # n, e # x
  PROVE  /\ RedsBut(r, M, r.red, e) => RedsBut(u, Put(M, n, x), u.red, e)
         /\ Reds(r, M, r.red, e) => Reds(u, Put(M, n, x), u.red, e)
         /\ r.red \subseteq M /\ r.root \in M \cup {NULL} /\ r.root \notin r.red => u.root \notin u.red
<1>1. n \in M /\ x \in Node /\ x \notin M /\ M \subseteq Node /\ NULL \notin M /\ NULL \notin Node
  BY LinkedIs DEF IsRenamed
<1>2. u.red = IF n \in r.red THEN (r.red \cup {x}) \ {n} ELSE r.red
  BY DEF IsRenamed
<1>3. ASSUME r.red \subseteq M
      PROVE  u.red \subseteq Put(M, n, x) /\ \A k \in M \cup {NULL} : Sub(n, x, k) \in u.red => k \in r.red
  BY <1>1, <1>2, <1>3 DEF Put, Sub
<1>4. ASSUME NEW w \in Put(M, n, x), NEW a \in Side, r.red \subseteq M, w \in u.red, u[a][w] \in u.red
      PROVE  \E m \in M : w = Sub(n, x, m) /\ m \in r.red /\ r[a][m] \in r.red /\ u[a][w] = Sub(n, x, r[a][m])
  <2>1. PICK m \in M : w = Sub(n, x, m)
    BY <1>1 DEF Sub, Put
  <2>2. u[a][w] = Sub(n, x, r[a][m]) /\ r[a][m] \in M \cup {NULL}
    BY <2>1, RenamedDown
  <2>3. m \in r.red /\ r[a][m] \in r.red
    BY <1>3, <1>4, <2>1, <2>2
  <2> QED
    BY <2>1, <2>2, <2>3
<1>5. ASSUME RedsBut(r, M, r.red, e)
      PROVE  RedsBut(u, Put(M, n, x), u.red, e)
  <2>1. r.red \subseteq M /\ \A m \in M : \A a \in Side : m \in r.red /\ r[a][m] \in r.red => m = e \/ r[a][m] = e
    BY <1>5 DEF RedsBut
  <2>2. ASSUME NEW w \in Put(M, n, x), NEW a \in Side, w \in u.red, u[a][w] \in u.red
        PROVE  w = e \/ u[a][w] = e
    <3>1. PICK m \in M : w = Sub(n, x, m) /\ m \in r.red /\ r[a][m] \in r.red /\ u[a][w] = Sub(n, x, r[a][m])
      BY <1>4, <2>1, <2>2
    <3> QED
      BY <2>1, <3>1 DEF Sub
  <2> QED
    BY <1>3, <2>1, <2>2 DEF RedsBut
<1>6. ASSUME Reds(r, M, r.red, e)
      PROVE  Reds(u, Put(M, n, x), u.red, e)
  <2>1. r.red \subseteq M /\ \A m \in M : \A a \in Side : m \in r.red /\ r[a][m] \in r.red => r[a][m] = e
    BY <1>6 DEF Reds
  <2>2. ASSUME NEW w \in Put(M, n, x), NEW a \in Side, w \in u.red, u[a][w] \in u.red
        PROVE  u[a][w] = e
    <3>1. PICK m \in M : w = Sub(n, x, m) /\ m \in r.red /\ r[a][m] \in r.red /\ u[a][w] = Sub(n, x, r[a][m])
      BY <1>4, <2>1, <2>2
    <3> QED
      BY <2>1, <3>1 DEF Sub
  <2> QED
    BY <1>3, <2>1, <2>2 DEF Reds
<1>7. ASSUME r.red \subseteq M /\ r.root \in M \cup {NULL} /\ r.root \notin r.red
      PROVE  u.root \notin u.red
  BY <1>3, <1>7 DEF IsRenamed
<1> QED
  BY <1>5, <1>6, <1>7

(* What a cut leaves to be put right is the same when a node is renamed.   *)
LEMMA RenamedKeeps ==
  ASSUME NEW r, NEW M, NEW D, NEW h, NEW p, NEW e, NEW black, Cutting(r, M, D, h, p, e, black),
         NEW n, NEW x, NEW u, IsRenamed(u, r, M, n, x), Fits(M, n, x), p \in M, e # n, e # x
  PROVE  \E E, h1 : Cutting(u, Put(M, n, x), E, h1, Sub(n, x, p), e, black)
<1>1. Linked(r, M, D)
  <2>1. p # NULL \/ Linked(r, M, D)
    BY LinkedIs DEF Cutting, RedBlack, Whole
  <2> QED
    BY <2>1 DEF Cutting, RedBlack, Lacking
<1>2. n \in M /\ x \in Node /\ x \notin M /\ M \subseteq Node /\ NULL \notin M /\ NULL \notin Node
  BY <1>1, LinkedIs DEF IsRenamed
<1>3. p # NULL /\ Sub(n, x, p) # NULL /\ r.root \in M \cup {NULL} /\ Sub(n, x, NULL) = NULL
      /\ Sub(n, x, p) \in Put(M, n, x)
  BY <1>1, <1>2 DEF Sub, Put, Linked
<1>4. Linked(u, Put(M, n, x), Rename(M, D, n, x))
  BY <1>1, RenamedLinked
<1>5. CASE ~black
  <2>1. Balanced(r, M, h) /\ Reds(r, M, r.red, NULL) /\ r.root \notin r.red /\ r.red \subseteq M
    BY <1>5 DEF Cutting, RedBlack, Reds
  <2>2. PICK h1 : Levels(u, Put(M, n, x), u.red, h1, Sub(n, x, NULL), "left")
    BY <1>1, <2>1, RenamedLevels DEF Balanced
  <2>3. Balanced(u, Put(M, n, x), h1)
    BY <1>3, <2>2 DEF Balanced
  <2>4. NULL # n /\ NULL # x
    BY <1>2
  <2>5. Reds(u, Put(M, n, x), u.red, NULL) /\ u.root \notin u.red
    BY <1>1, <1>3, <2>1, <2>4, RenamedReds
  <2> QED
    BY <1>4, <1>5, <2>3, <2>5 DEF Cutting, RedBlack
<1>6. CASE black
  <2>1. PICK d : Lacking(r, M, D, h, p, e, d)
    BY <1>3, <1>6 DEF Cutting
  <2>2. /\ Levels(r, M, r.red, h, p, d) /\ RedsBut(r, M, r.red, e) /\ r.root \notin r.red /\ r.red \subseteq M
        /\ d \in Side /\ r[d][p] = e
    BY <2>1 DEF Lacking, RedsBut
  <2>3. PICK h1 : Levels(u, Put(M, n, x), u.red, h1, Sub(n, x, p), d)
    BY <1>1, <2>2, RenamedLevels
  <2>4. RedsBut(u, Put(M, n, x), u.red, e) /\ u.root \notin u.red
    BY <1>1, <1>3, <2>2, RenamedReds
  <2>5. u[d][Sub(n, x, p)] = Sub(n, x, e) /\ Sub(n, x, e) = e
    BY <1>1, <2>2, RenamedDown DEF Sub
  <2>6. Lacking(u, Put(M, n, x), Rename(M, D, n, x), h1, Sub(n, x, p), e, d)
    BY <1>3, <1>4, <2>2, <2>3, <2>4, <2>5 DEF Lacking
  <2> QED
    BY <1>3, <1>6, <2>6 DEF Cutting
<1> QED
  BY <1>5, <1>6

-----------------------------------------------------------------------------
(* Nothing else changed, and what is taken out points into the tree, or    *)
(* nowhere.                                                                *)
Taken(u, t, N, n) ==
  /\ SameOutside(u, t, N)
  /\ u.parent[n] \in (N \ {n}) \cup {NULL} /\ \A a \in Side : u[a][n] \in (N \ {n}) \cup {NULL}

LEMMA CutTaken ==
  ASSUME NEW t, NEW N, NEW D, Linked(t, N, D), NEW n, NEW s, NEW c, OnlyChild(t, N, n, s, c),
         NEW r, IsCut(r, t, n, c)
  PROVE  Taken(r, t, N, n)
<1>1. /\ N \subseteq Node /\ NULL \notin N /\ NULL \notin Node
      /\ n \in N /\ n # NULL /\ c \in N \cup {NULL} /\ c # n
  BY LinkedIs, OnlyChildIs
<1>2. t.parent[n] \in (N \ {n}) \cup {NULL}
  BY OnlyChildIs
<1>3. /\ \A m \in Node : r.parent[m] = IF m = c THEN t.parent[n] ELSE t.parent[m]
      /\ \A a \in Side : \A m \in Node : r[a][m] = IF m = t.parent[n] /\ t[a][m] = n THEN c ELSE t[a][m]
  BY DEF IsCut
<1>4. SameOutside(r, t, N)
  BY <1>1, <1>2, <1>3 DEF SameOutside
<1>5. r.parent[n] = t.parent[n]
  BY <1>1, <1>3
<1>6. \A a \in Side : r[a][n] = t[a][n] /\ t[a][n] \in {NULL, c}
  BY <1>1, <1>2, <1>3, OnlyChildIs
<1> QED
  BY <1>1, <1>2, <1>4, <1>5, <1>6 DEF Taken

-----------------------------------------------------------------------------
Copied(u, x, n, red) ==
  [u EXCEPT !.left[x] = u.left[n], !.right[x] = u.right[n], !.parent[x] = u.parent[n], !.red = red]

IsCopied(v, u, x, n, red) ==
  /\ v \in Trees /\ v.red = red /\ v.root = u.root
  /\ \A m \in Node : v.parent[m] = IF m = x THEN u.parent[n] ELSE u.parent[m]
  /\ \A a \in Side : \A m \in Node : v[a][m] = IF m = x THEN u[a][n] ELSE u[a][m]

(* The copy of the fields of a node to the one that takes its place.       *)
LEMMA CopiedIs ==
  ASSUME NEW u \in Trees, NEW x \in Node, NEW n \in Node, NEW red \in SUBSET Node
  PROVE  IsCopied(Copied(u, x, n, red), u, x, n, red)
<1>0. PICK v : v = Copied(u, x, n, red)
  OBVIOUS
<1>1. /\ u.left \in [Node -> Node \cup {NULL}] /\ u.right \in [Node -> Node \cup {NULL}]
      /\ u.parent \in [Node -> Node \cup {NULL}]
  BY DEF Trees
<1>2. v = [left |-> [u.left EXCEPT ![x] = u.left[n]], right |-> [u.right EXCEPT ![x] = u.right[n]],
           parent |-> [u.parent EXCEPT ![x] = u.parent[n]], red |-> red, root |-> u.root]
  BY <1>0 DEF Copied, Trees
<1>3. v \in Trees
  BY <1>1, <1>2 DEF Trees
<1>4. v.red = red /\ v.root = u.root
  BY <1>2
<1>5. v.parent = [u.parent EXCEPT ![x] = u.parent[n]] /\ v["left"] = [u.left EXCEPT ![x] = u.left[n]]
      /\ v["right"] = [u.right EXCEPT ![x] = u.right[n]]
  BY <1>2
<1>6. u["left"] = u.left /\ u["right"] = u.right
  OBVIOUS
<1>7. \A m \in Node : v.parent[m] = IF m = x THEN u.parent[n] ELSE u.parent[m]
  BY <1>1, <1>5
<1>8. \A m \in Node : v["left"][m] = IF m = x THEN u["left"][n] ELSE u["left"][m]
  BY <1>1, <1>5, <1>6
<1>9. \A m \in Node : v["right"][m] = IF m = x THEN u["right"][n] ELSE u["right"][m]
  BY <1>1, <1>5, <1>6
<1> QED
  BY <1>0, <1>3, <1>4, <1>7, <1>8, <1>9 DEF Side, IsCopied

(* What REMOVE() does once next is taken out. *)
Instated(u, n, x, red) ==
  LET t3 == Relink(Copied(u, x, n, red), n, x)
  IN  SetParent(SetParent(t3, t3.left[n], x), t3.right[n], x)

LEMMA InstatedSteps ==
  ASSUME NEW u, NEW n, NEW x, NEW red, NEW t2, t2 = Copied(u, x, n, red), NEW t3, t3 = Relink(t2, n, x)
  PROVE  Instated(u, n, x, red) = SetParent(SetParent(t3, t3.left[n], x), t3.right[n], x)
BY DEF Instated

SameLinks(u, r) == u \in Trees /\ u.root = r.root /\ u.parent = r.parent /\ \A a \in Side : u[a] = r[a]

Placed(v, r, M, n, x) ==
  /\ IsRenamed(v, r, M, n, x)
  /\ \A m \in Node : m \notin M /\ m # x => v.parent[m] = r.parent[m] /\ \A a \in Side : v[a][m] = r[a][m]
  /\ v.parent[n] = r.parent[n] /\ \A a \in Side : v[a][n] = r[a][n]

(* In the end this one has taken the place of n.                           *)
LEMMA InstatedIs ==
  ASSUME NEW r, NEW M, NEW D, Linked(r, M, D), NEW n \in M, NEW x \in Node, x \notin M, r.red \subseteq M,
         NEW u, SameLinks(u, r),
         NEW red, red = IF n \in r.red THEN (r.red \cup {x}) \ {n} ELSE r.red,
         NEW v, v = Instated(u, n, x, red)
  PROVE  Placed(v, r, M, n, x)
<1>0. u \in Trees /\ u.root = r.root /\ u.parent = r.parent /\ \A a \in Side : u[a] = r[a]
  BY DEF SameLinks
<1>1. r \in Trees /\ M \subseteq Node /\ NULL \notin M /\ NULL \notin Node /\ n \in Node /\ n # x
  BY LinkedIs
<1>2. PICK q : q = r.parent[n]
  OBVIOUS
<1>3. IF n = r.root THEN q = NULL
      ELSE q \in M /\ q # n /\ \E a \in Side : r[a][q] = n /\ r[Other(a)][q] # n
  BY <1>2, HangsIs, UpIs
<1>4. red \in SUBSET Node
  BY <1>1
<1>5. PICK t2 : t2 = Copied(u, x, n, red)
  OBVIOUS
<1>6. IsCopied(Copied(u, x, n, red), u, x, n, red)
  BY <1>0, <1>1, <1>4, CopiedIs
<1>7. /\ t2 \in Trees /\ t2.red = red /\ t2.root = r.root
      /\ \A m \in Node : t2.parent[m] = IF m = x THEN q ELSE r.parent[m]
      /\ \A a \in Side : \A m \in Node : t2[a][m] = IF m = x THEN r[a][n] ELSE r[a][m]
  <2>1. /\ t2 \in Trees /\ t2.red = red /\ t2.root = u.root
        /\ \A m \in Node : t2.parent[m] = IF m = x THEN u.parent[n] ELSE u.parent[m]
        /\ \A a \in Side : \A m \in Node : t2[a][m] = IF m = x THEN u[a][n] ELSE u[a][m]
    BY <1>5, <1>6 DEF IsCopied
  <2>2. \A m \in Node : t2.parent[m] = IF m = x THEN q ELSE r.parent[m]
    BY <1>0, <1>2, <2>1
  <2>3. \A a \in Side : \A m \in Node : t2[a][m] = IF m = x THEN r[a][n] ELSE r[a][m]
    BY <1>0, <2>1
  <2> QED
    BY <1>0, <2>1, <2>2, <2>3
<1>8. t2.parent[n] = q
  BY <1>1, <1>2, <1>7
<1>9. t2.parent[n] # NULL => \E a \in Side : t2[a][t2.parent[n]] = n /\ t2[Other(a)][t2.parent[n]] # n
  <2>1. q # NULL => q \in Node /\ q # x
    BY <1>1, <1>3
  <2> QED
    BY <1>1, <1>3, <1>7, <1>8, <2>1, SideIs
<1>10. PICK t3 : t3 = Relink(t2, n, x)
  OBVIOUS
<1>11. IsRelinked(t3, t2, n, x)
  BY <1>1, <1>7, <1>9, <1>10, RelinkIs
<1>12. /\ t3 \in Trees /\ t3.parent = t2.parent /\ t3.red = red
       /\ t3.root = IF q = NULL THEN x ELSE r.root
       /\ \A a \in Side : \A k \in Node : t3[a][k] = IF q = k /\ t2[a][k] = n THEN x ELSE t2[a][k]
  BY <1>7, <1>8, <1>11 DEF IsRelinked
<1>13. \A a \in Side : t3[a][n] = r[a][n] /\ t3[a][x] = r[a][n]
  BY <1>1, <1>3, <1>7, <1>12
<1>14. PICK lc, rc : lc = r["left"][n] /\ rc = r["right"][n]
  OBVIOUS
<1>15. lc \in M \cup {NULL} /\ rc \in M \cup {NULL} /\ t3.left[n] = lc /\ t3.right[n] = rc
  <2>1. t3["left"] = t3.left /\ t3["right"] = t3.right
    OBVIOUS
  <2> QED
    BY <1>13, <1>14, <2>1, HangsIs DEF Side
<1>16. PICK t4 : t4 = SetParent(t3, lc, x)
  OBVIOUS
<1>17. IsPutUp(t4, t3, lc, x)
  BY <1>1, <1>12, <1>15, <1>16, SetParentIs
<1>18. t4 \in Trees
  BY <1>17 DEF IsPutUp
<1>19. v = SetParent(t4, rc, x)
  BY <1>5, <1>10, <1>15, <1>16, InstatedSteps
<1>20. IsPutUp(v, t4, rc, x)
  BY <1>1, <1>15, <1>18, <1>19, SetParentIs
<1>21. /\ v \in Trees /\ v.red = red /\ v.root = t3.root
       /\ \A a \in Side : \A m \in Node : v[a][m] = t3[a][m]
       /\ \A m \in Node : v.parent[m] = IF m = rc \/ m = lc THEN x ELSE t2.parent[m]
  <2>1. /\ t4.red = red /\ t4.root = t3.root
        /\ \A a \in Side : \A m \in Node : t4[a][m] = t3[a][m]
        /\ \A m \in Node : t4.parent[m] = IF m = lc THEN x ELSE t2.parent[m]
    BY <1>12, <1>17 DEF IsPutUp
  <2>2. /\ v \in Trees /\ v.red = t4.red /\ v.root = t4.root
        /\ \A a \in Side : \A m \in Node : v[a][m] = t4[a][m]
        /\ \A m \in Node : v.parent[m] = IF m = rc THEN x ELSE t4.parent[m]
    BY <1>20 DEF IsPutUp
  <2>3. v \in Trees /\ v.red = red /\ v.root = t3.root
    BY <2>1, <2>2
  <2>4. \A a \in Side : \A m \in Node : v[a][m] = t3[a][m]
    BY <2>1, <2>2
  <2>5. \A m \in Node : v.parent[m] = IF m = rc \/ m = lc THEN x ELSE t2.parent[m]
    BY <2>1, <2>2
  <2> QED
    BY <2>3, <2>4, <2>5
<1>22. v.root = Sub(n, x, r.root)
  <2>1. r.root \in M
    BY DEF Linked
  <2> QED
    BY <1>1, <1>3, <1>12, <1>21 DEF Sub
<1>23. ASSUME NEW m \in M, m # n
       PROVE  v.parent[m] = Sub(n, x, r.parent[m]) /\ \A a \in Side : v[a][m] = Sub(n, x, r[a][m])
  <2>1. m \in Node /\ m # x
    BY <1>1
  <2>2. (m = rc \/ m = lc) <=> r.parent[m] = n
    <3>1. m = rc \/ m = lc => r.parent[m] = n
      BY <1>1, <1>14, HangsIs DEF Side
    <3>2. r.parent[m] = n => m # r.root
      BY <1>1, HangsIs
    <3>3. m # r.root => \E a \in Side : r[a][r.parent[m]] = m
      BY UpIs
    <3> QED
      BY <1>14, <3>1, <3>2, <3>3 DEF Side
  <2>3. v.parent[m] = Sub(n, x, r.parent[m])
    BY <1>7, <1>21, <2>1, <2>2 DEF Sub
  <2>4. ASSUME NEW a \in Side
        PROVE  v[a][m] = Sub(n, x, r[a][m])
    <3>1. v[a][m] = IF q = m /\ r[a][m] = n THEN x ELSE r[a][m]
      <4>1. v[a][m] = t3[a][m]
        BY <1>21, <2>1
      <4>2. t3[a][m] = IF q = m /\ t2[a][m] = n THEN x ELSE t2[a][m]
        BY <1>12, <2>1
      <4>3. t2[a][m] = r[a][m]
        BY <1>7, <2>1
      <4> QED
        BY <4>1, <4>2, <4>3
    <3>2. r[a][m] = n => q = m
      BY <1>1, <1>2, HangsIs
    <3> QED
      BY <3>1, <3>2 DEF Sub
  <2> QED
    BY <2>3, <2>4
<1>24. v.parent[x] = r.parent[n] /\ \A a \in Side : v[a][x] = r[a][n]
  <2>1. x # lc /\ x # rc
    BY <1>1, <1>15
  <2>2. v.parent[x] = t2.parent[x]
    BY <1>21, <2>1
  <2>3. t2.parent[x] = r.parent[n]
    BY <1>2, <1>7
  <2>4. \A a \in Side : v[a][x] = t3[a][x]
    BY <1>21
  <2> QED
    BY <1>13, <2>2, <2>3, <2>4
<1>25. n # lc /\ n # rc
  BY <1>1, <1>14, HangsIs DEF Side
<1>26. v.parent[n] = r.parent[n] /\ \A a \in Side : v[a][n] = r[a][n]
  BY <1>1, <1>7, <1>13, <1>21, <1>25
<1>27. ASSUME NEW m \in Node, m \notin M, m # x
       PROVE  v.parent[m] = r.parent[m] /\ \A a \in Side : v[a][m] = r[a][m]
  <2>1. m # lc /\ m # rc /\ m # q
    BY <1>1, <1>3, <1>15, <1>27
  <2> QED
    BY <1>7, <1>12, <1>21, <1>27, <2>1, ZenonT(60)
<1>28. IsRenamed(v, r, M, n, x)
  BY <1>21, <1>22, <1>23, <1>24 DEF IsRenamed
<1> QED
  BY <1>26, <1>27, <1>28 DEF Placed

-----------------------------------------------------------------------------
(* REMOVE() of a node with at most one child, and of one with two.         *)
LEMMA RemoveOneIs ==
  ASSUME NEW t, NEW n, t.left[n] = NULL \/ t.right[n] = NULL, NEW c, c = Child(t, n),
         NEW u, u = Cut(t, n, c)
  PROVE  Remove(t, n) = [tree |-> PutRed(u, u.red \ {n}),
                         parent |-> t.parent[n], child |-> c, black |-> ~IsRed(t, n)]
BY DEF Remove, Cut, PutRed

LEMMA RemoveTwoIs ==
  ASSUME NEW t, NEW n, ~(t.left[n] = NULL \/ t.right[n] = NULL),
         NEW x, x = Furthest(t, t.right[n], "left"), NEW c, c = t.right[x], NEW u, u = Cut(t, x, c),
         NEW red, red = IF n \in u.red THEN (u.red \cup {x}) \ {n} ELSE u.red \ {x}
  PROVE  Remove(t, n) = [tree |-> Instated(u, n, x, red),
                         parent |-> Instead(t, n, x), child |-> c, black |-> ~IsRed(t, x)]
BY DEF Remove, Cut, Instated, Copied

Recut(r, u, t, n, c) == IsCut(r, t, n, c) /\ r.red = t.red \ {n} /\ SameLinks(u, r)

(* The colour that was copied does not matter to what is put right.        *)
LEMMA RecoloredCut ==
  ASSUME NEW u \in Trees, NEW t, NEW n, NEW c, IsCut(u, t, n, c), u.red = t.red
  PROVE  Recut(PutRed(u, t.red \ {n}), u, t, n, c)
<1>0. PICK r : r = PutRed(u, t.red \ {n})
  OBVIOUS
<1>1. t.red \ {n} \in SUBSET Node
  BY TreesIs DEF Trees
<1>2. /\ r \in Trees /\ r.red = t.red \ {n} /\ r.root = u.root /\ r.parent = u.parent
      /\ r.left = u.left /\ r.right = u.right
  BY <1>0, <1>1 DEF PutRed, Trees
<1>3. \A a \in Side : r[a] = u[a]
  BY <1>2, TreesIs DEF Side
<1> QED
  BY <1>0, <1>2, <1>3, ZenonT(60) DEF IsCut, SameLinks, Recut

(* What a removal leaves. *)
Removed(r, t, N, n) ==
  /\ \E E, h1 : Cutting(r.tree, N \ {n}, E, h1, r.parent, r.child, r.black)
  /\ Taken(r.tree, t, N, n)

LEMMA IsRedIn ==
  ASSUME NEW t, NEW N, NEW D, NEW h, RedBlack(t, N, D, h), NEW n
  PROVE  ~IsRed(t, n) <=> n \notin t.red
BY LinkedIs DEF RedBlack, Reds, IsRed

(* A node with at most one child is cut out.                               *)
LEMMA RemoveOneKeeps ==
  ASSUME NEW t, NEW N, NEW D, NEW h, RedBlack(t, N, D, h), NEW n \in N,
         t.left[n] = NULL \/ t.right[n] = NULL, NEW r, r = Remove(t, n)
  PROVE  Removed(r, t, N, n)
<1>1. Linked(t, N, D) /\ t \in Trees
  BY LinkedIs DEF RedBlack
<1>2. PICK c : c = Child(t, n)
  OBVIOUS
<1>3. PICK s : OnlyChild(t, N, n, s, c)
  <2>1. t["left"] = t.left /\ t["right"] = t.right
    OBVIOUS
  <2>2. CASE t.left[n] = NULL
    <3>1. OnlyChild(t, N, n, "left", c)
      BY <1>2, <2>1, <2>2 DEF OnlyChild, Child, Side, Other
    <3> QED
      BY <3>1
  <2>3. CASE t.left[n] # NULL
    <3>1. OnlyChild(t, N, n, "right", c)
      BY <1>2, <2>1, <2>3 DEF OnlyChild, Child, Side, Other
    <3> QED
      BY <3>1
  <2> QED
    BY <2>2, <2>3
<1>4. PICK u : u = Cut(t, n, c)
  OBVIOUS
<1>5. IsCut(u, t, n, c) /\ u.red = t.red /\ u \in Trees
  <2>1. IsCut(u, t, n, c) /\ u.red = t.red
    BY <1>1, <1>3, <1>4, CutIs
  <2> QED
    BY <2>1 DEF IsCut
<1>6. PICK v : v = PutRed(u, t.red \ {n})
  OBVIOUS
<1>7. IsCut(v, t, n, c) /\ v.red = t.red \ {n}
  <2>1. Recut(PutRed(u, t.red \ {n}), u, t, n, c)
    BY <1>5, RecoloredCut
  <2> QED
    BY <1>6, <2>1 DEF Recut
<1>8. r = [tree |-> PutRed(u, u.red \ {n}), parent |-> t.parent[n], child |-> c, black |-> ~IsRed(t, n)]
  BY <1>2, <1>4, RemoveOneIs
<1>9. r.tree = v /\ r.parent = t.parent[n] /\ r.child = c /\ r.black = ~IsRed(t, n)
  BY <1>5, <1>6, <1>8
<1>10. Cutting(v, N \ {n}, Less(N, D, n), h, t.parent[n], c, n \notin t.red)
  BY <1>3, <1>7, CutKeeps
<1>11. Cutting(v, N \ {n}, Less(N, D, n), h, t.parent[n], c, ~IsRed(t, n))
  BY <1>10, IsRedIn DEF Cutting
<1>12. Taken(v, t, N, n)
  BY <1>1, <1>3, <1>7, CutTaken
<1> QED
  BY <1>9, <1>11, <1>12 DEF Removed

(* The next node in order fits in the place of n.                          *)
LEMMA SuccessorFits ==
  ASSUME NEW t, NEW N, NEW D, Linked(t, N, D), NEW n \in N, NEW c, c = t["right"][n], c # NULL,
         NEW x, IsFurthest(t, D, c, "left", x)
  PROVE  Fits(N \ {x}, n, x)
<1>1. "left" \in Side /\ "right" \in Side /\ Other("right") = "left" /\ Other("left") = "right" /\ N \subseteq Int
  BY LinkedIs DEF Side, Other
<1>2. c \in N /\ D[c] \subseteq D[n] /\ n \notin D[c] /\ \A y \in D[c] : Toward("right", n, y)
  BY <1>1, HangsIs
<1>3. x \in D[c] /\ x \in D[n] /\ x \in N /\ n \in D[n] /\ Toward("right", n, x)
  BY <1>2, HangsIs DEF IsFurthest
<1>4. ASSUME NEW y \in N \ {x}, y # n
      PROVE  \E b \in Side : Toward(b, n, y) /\ Toward(b, x, y)
  <2>1. CASE y \in D[c]
    <3>1. Toward("left", y, x) /\ Toward("right", n, y)
      BY <1>2, <1>4, <2>1 DEF IsFurthest
    <3>2. Toward("right", x, y)
      BY <1>1, <1>3, <3>1, TowardIs
    <3> QED
      BY <1>1, <3>1, <3>2
  <2>2. CASE y \notin D[c] /\ y \in D[n]
    <3>1. Toward("left", n, y)
      BY <1>1, <1>4, <2>2, OnOneSide
    <3>2. Toward("left", x, n)
      BY <1>1, <1>3, TowardIs
    <3>3. Toward("left", x, y)
      BY <1>1, <1>3, <3>1, <3>2, TowardIs
    <3> QED
      BY <1>1, <3>1, <3>3
  <2>3. CASE y \notin D[n]
    <3>1. PICK b \in Side : \A w \in D[n] : Toward(b, w, y)
      BY <2>3, AsideIs DEF Aside
    <3> QED
      BY <1>3, <3>1
  <2> QED
    BY <2>1, <2>2, <2>3
<1>5. ASSUME NEW y \in N \ {x}, y # n, NEW a \in Side
      PROVE  (Toward(a, n, y) <=> Toward(a, x, y)) /\ (Toward(a, y, n) <=> Toward(a, y, x))
  <2>1. PICK b \in Side : Toward(b, n, y) /\ Toward(b, x, y)
    BY <1>4, <1>5
  <2>2. a = b \/ a = Other(b)
    BY SideIs
  <2>3. n \in Int /\ x \in Int /\ y \in Int
    BY <1>1, <1>3
  <2> QED
    BY <2>1, <2>2, <2>3 DEF Toward, Other, Side
<1> QED
  BY <1>5 DEF Fits

(* A node with two has the next one cut out, which then takes its place.   *)
LEMMA RemoveTwoKeeps ==
  ASSUME NEW t, NEW N, NEW D, NEW h, RedBlack(t, N, D, h), Outlying(t, N), NEW n \in N,
         ~(t.left[n] = NULL \/ t.right[n] = NULL), NEW r, r = Remove(t, n)
  PROVE  Removed(r, t, N, n)
<1>1. Linked(t, N, D) /\ t \in Trees /\ N \subseteq Node /\ NULL \notin N /\ t.red \subseteq N
  BY LinkedIs DEF RedBlack, Reds
<1>2. PICK k : k = t["right"][n]
  OBVIOUS
<1>3. "left" \in Side /\ "right" \in Side /\ Other("left") = "right" /\ t.right = t["right"]
  BY DEF Side, Other
<1>4. k # NULL /\ k \in N /\ D[k] \subseteq D[n] /\ n \notin D[k] /\ D[k] \in SUBSET N
  BY <1>1, <1>2, <1>3, HangsIs
<1>5. PICK x : x = Furthest(t, k, "left")
  OBVIOUS
<1>6. IsFurthest(t, D, k, "left", x)
  BY <1>1, <1>3, <1>4, <1>5, WalksFurthest
<1>7. x \in D[k] /\ x \in N /\ x # n /\ x \in Node /\ t["left"][x] = NULL
  BY <1>1, <1>4, <1>6 DEF IsFurthest
<1>8. PICK c : c = t.right[x]
  OBVIOUS
<1>9. OnlyChild(t, N, x, "left", c)
  BY <1>3, <1>7, <1>8 DEF OnlyChild
<1>10. n \notin D[x]
  <2>1. D[x] \subseteq D[k]
    BY <1>1, <1>4, <1>7, Within
  <2> QED
    BY <1>4, <2>1
<1>11. x # t.root
  <2>1. x = t.root => D[x] = N
    BY <1>7 DEF Linked, RedBlack
  <2> QED
    BY <1>10, <2>1
<1>12. c # x /\ c # n
  BY <1>1, <1>4, <1>9, <1>10, OnlyChildIs
<1>13. PICK p : p = t.parent[x]
  OBVIOUS
<1>14. PICK M : M = N \ {x}
  OBVIOUS
<1>15. p \in M
  BY <1>1, <1>9, <1>11, <1>13, <1>14, OnlyChildIs
<1>16. PICK u : u = Cut(t, x, c)
  OBVIOUS
<1>17. IsCut(u, t, x, c) /\ u.red = t.red /\ u \in Trees
  <2>1. IsCut(u, t, x, c) /\ u.red = t.red
    BY <1>1, <1>9, <1>16, CutIs
  <2> QED
    BY <2>1 DEF IsCut
<1>18. PICK v : v = PutRed(u, t.red \ {x})
  OBVIOUS
<1>19. IsCut(v, t, x, c) /\ v.red = t.red \ {x} /\ SameLinks(u, v)
  <2>1. Recut(PutRed(u, t.red \ {x}), u, t, x, c)
    BY <1>17, RecoloredCut
  <2> QED
    BY <1>18, <2>1 DEF Recut
<1>20. Cutting(v, M, Less(N, D, x), h, p, c, x \notin t.red)
  BY <1>9, <1>13, <1>14, <1>19, CutKeeps
<1>21. Linked(v, M, Less(N, D, x))
  BY <1>1, <1>9, <1>14, <1>19, CutLinked
<1>22. PICK red : red = IF n \in u.red THEN (u.red \cup {x}) \ {n} ELSE u.red \ {x}
  OBVIOUS
<1>23. red = IF n \in v.red THEN (v.red \cup {x}) \ {n} ELSE v.red
  BY <1>7, <1>17, <1>19, <1>22
<1>24. PICK w : w = Instated(u, n, x, red)
  OBVIOUS
<1>25. n \in M /\ x \notin M /\ v.red \subseteq M
  BY <1>1, <1>7, <1>14, <1>19
<1>26. /\ IsRenamed(w, v, M, n, x)
       /\ \A m \in Node : m \notin M /\ m # x => w.parent[m] = v.parent[m] /\ \A a \in Side : w[a][m] = v[a][m]
       /\ w.parent[n] = v.parent[n] /\ \A a \in Side : w[a][n] = v[a][n]
  <2>1. Placed(w, v, M, n, x)
    BY <1>7, <1>19, <1>21, <1>23, <1>24, <1>25, InstatedIs
  <2> QED
    BY <2>1 DEF Placed
<1>27. Fits(M, n, x)
  BY <1>1, <1>2, <1>4, <1>6, <1>14, SuccessorFits
<1>28. PICK E, h1 : Cutting(w, Put(M, n, x), E, h1, Sub(n, x, p), c, x \notin t.red)
  BY <1>12, <1>15, <1>20, <1>26, <1>27, RenamedKeeps
<1>29. Put(M, n, x) = N \ {n}
  BY <1>7, <1>14, <1>25 DEF Put
<1>30. Instead(t, n, x) = Sub(n, x, p)
  BY <1>13 DEF Instead, Sub
<1>31. r = [tree |-> w, parent |-> Sub(n, x, p), child |-> c, black |-> ~IsRed(t, x)]
  <2>1. x = Furthest(t, t.right[n], "left")
    BY <1>2, <1>3, <1>5
  <2> QED
    BY <1>8, <1>16, <1>22, <1>24, <1>30, <2>1, RemoveTwoIs
<1>32. r.tree = w /\ r.parent = Sub(n, x, p) /\ r.child = c /\ r.black = ~IsRed(t, x)
  BY <1>31
<1>33. Cutting(w, N \ {n}, E, h1, r.parent, r.child, ~IsRed(t, x))
  BY <1>28, <1>29, <1>32, IsRedIn DEF Cutting
<1>34. Taken(w, t, N, n)
  <2>1. Taken(v, t, N, x)
    BY <1>1, <1>9, <1>19, CutTaken
  <2>2. SameOutside(w, t, N)
    BY <1>7, <1>14, <1>26, <2>1 DEF Taken, SameOutside
  <2>3. v.parent[n] \in (N \ {n}) \cup {NULL}
    <3>1. IF n = v.root THEN v.parent[n] = NULL ELSE v.parent[n] \in M /\ v.parent[n] # n
      BY <1>21, <1>25, HangsIs
    <3> QED
      BY <1>14, <3>1
  <2>4. \A a \in Side : v[a][n] \in (N \ {n}) \cup {NULL}
    <3>1. \A a \in Side : v[a][n] \in M \cup {NULL} /\ v[a][n] # n
      BY <1>1, <1>21, <1>25, HangsIs
    <3> QED
      BY <1>14, <3>1
  <2> QED
    BY <1>26, <2>2, <2>3, <2>4 DEF Taken
<1> QED
  BY <1>32, <1>33, <1>34 DEF Removed

(* REMOVE() up to REMOVE_COLOR().                                          *)
LEMMA RemoveKeeps ==
  ASSUME NEW t, NEW N, NEW D, NEW h, RedBlack(t, N, D, h), Outlying(t, N), NEW n \in N
  PROVE  Removed(Remove(t, n), t, N, n)
BY RemoveOneKeeps, RemoveTwoKeeps

-----------------------------------------------------------------------------
(* Making the root black.                                                  *)
LEMMA WholeEnds ==
  ASSUME NEW t, NEW N, NEW D, NEW h, Whole(t, N, D, h), NEW u, u = Blacken(t, t.root)
  PROVE  (\E h1 : RedBlack(u, N, D, h1)) /\ SameOutside(u, t, N)
<1>0. Linked(t, N, D) /\ Balanced(t, N, h) /\ RedsBut(t, N, t.red, t.root)
  BY DEF Whole
<1>1. /\ t \in Trees /\ N \subseteq Node /\ NULL \notin N /\ t.red \subseteq N
      /\ Levels(t, N, t.red, h, NULL, "left")
  BY <1>0, LinkedIs DEF RedsBut, Balanced
<1>2. PICK c : c = t.root
  OBVIOUS
<1>3. c \in N \cup {NULL} /\ (c \in N => t.parent[c] = NULL)
  BY <1>0, <1>2 DEF Linked
<1>4. PICK red1 : red1 = t.red \ {c}
  OBVIOUS
<1>5. u = PutRed(t, red1)
  BY <1>2, <1>4 DEF PutRed, Blacken
<1>6. red1 \in SUBSET Node
  BY <1>1, <1>4
<1>7. /\ Linked(u, N, D) /\ u.red = red1 /\ u.root = t.root /\ u.parent = t.parent
      /\ \A x \in Side : u[x] = t[x]
  BY <1>0, <1>5, <1>6, Recolored
<1>8. \A n \in N : \A x \in Side : t[x][n] \in N \cup {NULL} /\ (t[x][n] # NULL => t.parent[t[x][n]] = n)
  BY <1>0, HangsIs
<1>9. Reds(t, N, red1, NULL)
  <2>1. ASSUME NEW m \in N, NEW x \in Side, NEW k, k = t[x][m], m \in red1, k \in red1
        PROVE  FALSE
    <3>1. m = c \/ k = c
      BY <1>0, <1>2, <1>4, <2>1 DEF RedsBut
    <3> QED
      BY <1>4, <2>1, <3>1
  <2>2. red1 \subseteq N
    BY <1>1, <1>4
  <2> QED
    BY <2>1, <2>2 DEF Reds
<1>10. \E h1 : Levels(t, N, red1, h1, NULL, "left")
  <2>1. CASE c \notin t.red
    BY <1>1, <1>4, <2>1
  <2>2. CASE c \in t.red
    <3>1. h \in [Node \cup {NULL} -> Nat] /\ h[NULL] = 0 /\ c \in N /\ c \in Node /\ c # NULL
      BY <1>1, <2>2 DEF Levels
    <3>2. PICK h1 : h1 = [h EXCEPT ![c] = h[c] + 1]
      OBVIOUS
    <3>3. /\ h1 \in [Node \cup {NULL} -> Nat] /\ h1[NULL] = 0 /\ h1[c] = h[c] + 1
          /\ \A n \in Node \cup {NULL} : n # c => h1[n] = h[n]
      BY <3>1, <3>2
    <3>4. \A n \in N : \A x \in Side : h1[t[x][n]] = h[t[x][n]]
      <4>1. ASSUME NEW n \in N, NEW x \in Side, NEW k, k = t[x][n]
            PROVE  h1[k] = h[k]
        <5>1. k \in N \cup {NULL} /\ (k # NULL => t.parent[k] = n)
          BY <1>8, <4>1
        <5>2. k # c
          BY <1>1, <1>3, <3>1, <5>1
        <5> QED
          BY <1>1, <3>3, <5>1, <5>2
      <4> QED
        BY <4>1
    <3>5. Level(t, red1, h1, NULL, "left", c)
      <4> SUFFICES ASSUME NEW x \in Side, NEW k, k = t[x][c]
                   PROVE  h1[c] = h1[k] + Black(red1, c) + Lack(NULL, "left", c, x)
        BY DEF Level
      <4>1. h[c] = h[k] + Black(t.red, c) + Lack(NULL, "left", c, x)
        BY <1>1, <3>1 DEF Levels, Level
      <4>2. Black(t.red, c) = 0 /\ Black(red1, c) = 1 /\ Lack(NULL, "left", c, x) = 0
        BY <1>4, <2>2, <3>1 DEF Black, Lack
      <4>3. h1[k] = h[k] /\ h[k] \in Nat
        BY <1>1, <1>8, <3>1, <3>4
      <4> QED
        BY <3>3, <4>1, <4>2, <4>3
    <3>6. PICK C : C = {c}
      OBVIOUS
    <3>7. OnlyAt(t, N, C, t.red, h, NULL, "left", red1, h1, NULL, "left")
      <4>1. \A n \in C : Level(t, red1, h1, NULL, "left", n)
        BY <3>5, <3>6
      <4>2. \A n \in N : n \notin C =>
              /\ h1[n] = h[n] /\ (n \in red1 <=> n \in t.red)
              /\ \A s \in Side : h1[t[s][n]] + Lack(NULL, "left", n, s) = h[t[s][n]] + Lack(NULL, "left", n, s)
        BY <1>1, <1>4, <3>3, <3>4, <3>6
      <4> QED
        BY <1>1, <3>3, <4>1, <4>2 DEF OnlyAt
    <3> QED
      BY <1>0, <3>7, RecoloredLevels
  <2> QED
    BY <2>1, <2>2
<1>11. PICK h1 : Levels(u, N, red1, h1, NULL, "left")
  BY <1>7, <1>10, RecoloredRest
<1>12. Reds(u, N, red1, NULL)
  BY <1>7, <1>9, RecoloredRest
<1>13. u.root \notin u.red
  BY <1>2, <1>4, <1>7
<1>14. SameOutside(u, t, N)
  BY <1>7 DEF SameOutside
<1> QED
  BY <1>7, <1>11, <1>12, <1>13, <1>14 DEF RedBlack, Balanced

(* When the loop of INSERT_COLOR() ends, only the root may be wrong.       *)
LEMMA InsertEnds ==
  ASSUME NEW t, NEW N, NEW D, NEW h, NEW e, Inserting(t, N, D, h, e), InsertColored(t, e)
  PROVE  Whole(t, N, D, h)
<1>1. /\ Linked(t, N, D) /\ Balanced(t, N, h) /\ Reds(t, N, t.red, e) /\ e \in t.red
      /\ t.red \subseteq N
  BY DEF Inserting, Reds
<1>2. NULL \notin N /\ e \in N
  BY <1>1, LinkedIs
<1>3. t.parent[e] \notin t.red
  BY <1>1, <1>2 DEF InsertColored, IsRed
<1>4. ASSUME NEW m \in N, NEW s \in Side, m \in t.red, t[s][m] \in t.red
      PROVE  FALSE
  <2>1. t[s][m] = e /\ e # NULL
    BY <1>1, <1>2, <1>4 DEF Reds
  <2>2. t.parent[e] = m
    BY <1>1, <2>1, HangsIs, SMTT(30)
  <2> QED
    BY <1>3, <1>4, <2>2
<1>5. RedsBut(t, N, t.red, t.root)
  BY <1>1, <1>4 DEF RedsBut
<1> QED
  BY <1>1, <1>5 DEF Whole

-----------------------------------------------------------------------------
(* The tree between two calls, while a node is coloured that was inserted, *)
(* and where a black one was removed.                                      *)
Shaped(t, N) == \E D, h : RedBlack(t, N, D, h)
Growing(t, N, e) == \E D, h : Inserting(t, N, D, h, e)
Shrinking(t, N, p, e) ==
  (\E D, h, d : Lacking(t, N, D, h, p, e, d)) \/ (e = t.root /\ \E D, h : Whole(t, N, D, h))

(* No node but those of the tree, and k, points anywhere. *)
Apart(t, N, k) ==
  /\ Outlying(t, N)
  /\ \A m \in Node : m \notin N /\ m # k => t.parent[m] = NULL /\ \A s \in Side : t[s][m] = NULL

(* What does not change outside stays apart.                               *)
LEMMA ApartKept ==
  ASSUME NEW t, NEW N, NEW k, Apart(t, N, k), NEW u, SameOutside(u, t, N)
  PROVE  Apart(u, N, k)
<1>1. \A n \in Node : n \notin N => u.parent[n] = t.parent[n] /\ \A s \in Side : u[s][n] = t[s][n]
  BY DEF SameOutside
<1>2. Outlying(u, N)
  BY <1>1 DEF Apart, Outlying
<1> QED
  BY <1>1, <1>2 DEF Apart

(* What such a tree is made of.                                            *)
LEMMA ShapedIs ==
  ASSUME NEW t, NEW N, Shaped(t, N)
  PROVE  t \in Trees /\ N \in SUBSET Node /\ IsFiniteSet(N) /\ NULL \notin N /\ NULL \notin Node /\ (N = {} => t.root = NULL)
<1>1. PICK D, h : RedBlack(t, N, D, h)
  BY DEF Shaped
<1> QED
  BY <1>1, LinkedIs DEF RedBlack, Linked

(* FIND() finds its keys, and it is a red-black tree.                      *)
LEMMA ShapedReached ==
  ASSUME NEW t, NEW N, NEW k, Shaped(t, N), Apart(t, N, k)
  PROVE  /\ Reached(t) = N /\ IsRedBlack(t)
         /\ \A n \in Node : Find(t, n) = IF n \in N THEN n ELSE NULL
<1>1. PICK D, h : RedBlack(t, N, D, h)
  BY DEF Shaped
<1>2. Outlying(t, N) /\ Linked(t, N, D)
  BY <1>1 DEF Apart, RedBlack
<1> QED
  BY <1>1, <1>2, ReachedIs, RedBlackIs

(* RB_INSERT() of a new key, up to RB_INSERT_COLOR(): it is in the tree,   *)
(* which is in order and as high in black nodes on every way down, and     *)
(* only the new node may be red below a red one.                           *)
THEOREM InsertsInto ==
  ASSUME NEW t, NEW N, Shaped(t, N), Apart(t, N, NULL), NEW k \in Node, k \notin N
  PROVE  Growing(Insert(t, k), N \cup {k}, k) /\ Apart(Insert(t, k), N \cup {k}, NULL)
<1>1. PICK D, h : RedBlack(t, N, D, h)
  BY DEF Shaped
<1>2. PICK r : r = Insert(t, k)
  OBVIOUS
<1>3. Outlying(t, N)
  BY DEF Apart
<1>4. (\E E, h1 : Inserting(r, N \cup {k}, E, h1, k)) /\ SameOutside(r, t, N \cup {k})
  BY <1>1, <1>2, <1>3, InsertKeeps
<1>5. \A m \in Node : m \notin N \cup {k} => t.parent[m] = NULL /\ \A s \in Side : t[s][m] = NULL
  BY NodeAssumption DEF Apart
<1>6. \A m \in Node : m \notin N \cup {k} => r.parent[m] = NULL /\ \A s \in Side : r[s][m] = NULL
  BY <1>4, <1>5 DEF SameOutside
<1>7. Apart(r, N \cup {k}, NULL)
  BY <1>6 DEF Apart, Outlying
<1> QED
  BY <1>2, <1>4, <1>7 DEF Growing

(* A turn of RB_INSERT_COLOR() keeps all of that and moves the one         *)
(* doubtful node, or ends with a red-black tree of the same keys.          *)
THEOREM Grows ==
  ASSUME NEW t, NEW N, NEW e, NEW k, Growing(t, N, e), Apart(t, N, k)
  PROVE  IF InsertColored(t, e) THEN Shaped(Blacken(t, t.root), N) /\ Apart(Blacken(t, t.root), N, k)
         ELSE Growing(InsertColor(t, e).tree, N, InsertColor(t, e).node) /\ Apart(InsertColor(t, e).tree, N, k)
<1>1. PICK D, h : Inserting(t, N, D, h, e)
  BY DEF Growing
<1>2. CASE InsertColored(t, e)
  <2>1. Whole(t, N, D, h)
    BY <1>1, <1>2, InsertEnds
  <2>2. PICK u : u = Blacken(t, t.root)
    OBVIOUS
  <2>3. (\E h1 : RedBlack(u, N, D, h1)) /\ SameOutside(u, t, N)
    BY <2>1, <2>2, WholeEnds
  <2> QED
    BY <1>2, <2>2, <2>3, ApartKept DEF Shaped
<1>3. CASE ~InsertColored(t, e)
  <2>1. PICK r : r = InsertColor(t, e)
    OBVIOUS
  <2>2. (\E E, h1 : Inserting(r.tree, N, E, h1, r.node)) /\ SameOutside(r.tree, t, N)
    BY <1>1, <1>3, <2>1, InsertColorKeeps
  <2>3. Apart(r.tree, N, k)
    BY <2>2, ApartKept
  <2> QED
    BY <1>3, <2>1, <2>2, <2>3 DEF Growing
<1> QED
  BY <1>2, <1>3

(* RB_REMOVE() of any node, up to RB_REMOVE_COLOR(): the tree has the      *)
(* other keys, in order, and is a red-black tree, or a black node is       *)
(* missing just where the macro goes on to put colours right; the removed  *)
(* node is out of it.                                                      *)
THEOREM RemovesFrom ==
  ASSUME NEW t, NEW N, Shaped(t, N), Apart(t, N, NULL), NEW n \in N, NEW r, r = Remove(t, n)
  PROVE  /\ IF r.black THEN Shrinking(r.tree, N \ {n}, r.parent, r.child) ELSE Shaped(r.tree, N \ {n})
         /\ Apart(r.tree, N \ {n}, n)
<1>1. PICK D, h : RedBlack(t, N, D, h)
  BY DEF Shaped
<1>2. Outlying(t, N) /\ NULL \notin Node
  BY NodeAssumption DEF Apart
<1>3. Removed(r, t, N, n)
  BY <1>1, <1>2, RemoveKeeps
<1>4. PICK E, h1 : Cutting(r.tree, N \ {n}, E, h1, r.parent, r.child, r.black)
  BY <1>3 DEF Removed
<1>5. IF r.black THEN Shrinking(r.tree, N \ {n}, r.parent, r.child) ELSE Shaped(r.tree, N \ {n})
  BY <1>4 DEF Cutting, Shrinking, Shaped
<1>6. /\ SameOutside(r.tree, t, N)
      /\ r.tree.parent[n] \in (N \ {n}) \cup {NULL} /\ \A a \in Side : r.tree[a][n] \in (N \ {n}) \cup {NULL}
  BY <1>3 DEF Removed, Taken
<1>7. \A m \in Node : m \notin N => r.tree.parent[m] = NULL /\ \A s \in Side : r.tree[s][m] = NULL
  BY <1>2, <1>6 DEF Apart, SameOutside
<1>8. Apart(r.tree, N \ {n}, n)
  BY <1>6, <1>7 DEF Apart, Outlying
<1> QED
  BY <1>5, <1>8

(* A turn of RB_REMOVE_COLOR() moves the place where a black node is       *)
(* missing or makes up for it, and the loop ends with a red-black tree of  *)
(* the same keys.                                                          *)
THEOREM Shrinks ==
  ASSUME NEW t, NEW N, NEW p, NEW e, NEW k, Shrinking(t, N, p, e), Apart(t, N, k), NEW r, r = RemoveColor(t, p, e)
  PROVE  IF RemoveColored(t, e) THEN Shaped(Blacken(t, e), N) /\ Apart(Blacken(t, e), N, k)
         ELSE Shrinking(r.tree, N, r.parent, r.node) /\ Apart(r.tree, N, k)
<1>1. CASE \E D, h, d : Lacking(t, N, D, h, p, e, d)
  <2>1. PICK D, h, d : Lacking(t, N, D, h, p, e, d)
    BY <1>1
  <2>2. CASE RemoveColored(t, e)
    <3>1. e # t.root
      BY <2>1, SiblingIs
    <3>2. e \in t.red
      BY <2>2, <3>1 DEF RemoveColored, IsRed
    <3>3. PICK u : u = Blacken(t, e)
      OBVIOUS
    <3>4. (\E h1 : RedBlack(u, N, D, h1)) /\ SameOutside(u, t, N)
      BY <2>1, <3>2, <3>3, LackEnds
    <3> QED
      BY <2>2, <3>3, <3>4, ApartKept DEF Shaped
  <2>3. CASE ~RemoveColored(t, e)
    <3>1. Mended(r, t, N)
      BY <2>1, <2>3, RemoveColorKeeps
    <3>2. Apart(r.tree, N, k)
      BY <3>1, ApartKept DEF Mended
    <3>3. Shrinking(r.tree, N, r.parent, r.node)
      BY <3>1 DEF Mended, Shrinking
    <3> QED
      BY <2>3, <3>2, <3>3
  <2> QED
    BY <2>2, <2>3
<1>2. CASE e = t.root /\ \E D, h : Whole(t, N, D, h)
  <2>1. PICK D, h : Whole(t, N, D, h)
    BY <1>2
  <2>2. RemoveColored(t, e)
    BY <1>2 DEF RemoveColored
  <2>3. PICK u : u = Blacken(t, e)
    OBVIOUS
  <2>4. (\E h1 : RedBlack(u, N, D, h1)) /\ SameOutside(u, t, N)
    BY <1>2, <2>1, <2>3, WholeEnds
  <2> QED
    BY <2>2, <2>3, <2>4, ApartKept DEF Shaped
<1> QED
  BY <1>1, <1>2 DEF Shrinking

-----------------------------------------------------------------------------
(* What a freed node pointed to is forgotten, all else stays.              *)
Forgotten(u, t, k) ==
  /\ u \in Trees /\ u.red = t.red /\ u.root = t.root
  /\ \A m \in Node : u.parent[m] = IF m = k THEN NULL ELSE t.parent[m]
  /\ \A s \in Side : \A m \in Node : u[s][m] = IF m = k THEN NULL ELSE t[s][m]

LEMMA ForgetIs ==
  ASSUME NEW t \in Trees, NEW k \in Node
  PROVE  Forgotten(Forget(t, k), t, k)
<1>1. PICK u : u = Forget(t, k)
  OBVIOUS
<1>2. u = [left |-> [t.left EXCEPT ![k] = NULL], right |-> [t.right EXCEPT ![k] = NULL],
           parent |-> [t.parent EXCEPT ![k] = NULL], red |-> t.red, root |-> t.root]
  BY <1>1 DEF Forget, Trees
<1>3. /\ t.left \in [Node -> Node \cup {NULL}] /\ t.right \in [Node -> Node \cup {NULL}]
      /\ t.parent \in [Node -> Node \cup {NULL}] /\ t.red \in SUBSET Node /\ t.root \in Node \cup {NULL}
  BY DEF Trees
<1>4. u \in Trees /\ u.red = t.red /\ u.root = t.root
  BY <1>2, <1>3 DEF Trees
<1>5. \A m \in Node : u.parent[m] = IF m = k THEN NULL ELSE t.parent[m]
  BY <1>2, <1>3
<1>6. \A m \in Node : u.left[m] = IF m = k THEN NULL ELSE t.left[m]
  BY <1>2, <1>3
<1>7. \A m \in Node : u.right[m] = IF m = k THEN NULL ELSE t.right[m]
  BY <1>2, <1>3
<1>8. \A s \in Side : \A m \in Node : u[s][m] = IF m = k THEN NULL ELSE t[s][m]
  BY <1>6, <1>7 DEF Side
<1> QED
  BY <1>1, <1>4, <1>5, <1>8 DEF Forgotten

LEMMA ForgetLinked ==
  ASSUME NEW t, NEW N, NEW D, Linked(t, N, D), NEW k \in Node, k \notin N, NEW u, Forgotten(u, t, k)
  PROVE  Linked(u, N, D)
<1>1. /\ t \in Trees /\ N \in SUBSET Node /\ IsFiniteSet(N) /\ D \in [N -> SUBSET N]
      /\ IF N = {} THEN t.root = NULL ELSE t.root \in N /\ t.parent[t.root] = NULL /\ D[t.root] = N
  BY DEF Linked
<1>2. \A m \in N : u.parent[m] = t.parent[m] /\ \A s \in Side : u[s][m] = t[s][m]
  BY <1>1 DEF Forgotten
<1>3. u \in Trees /\ u.root = t.root
  BY DEF Forgotten
<1>4. ASSUME NEW n \in N
      PROVE  Hangs(u, N, D, n)
  <2>1. Hangs(t, N, D, n)
    BY DEF Linked
  <2>2. \A s \in Side : u[s][n] = t[s][n]
    BY <1>2
  <2>3. \A s \in Side : u[s][n] # NULL =>
          u[s][n] \in N /\ u.parent[u[s][n]] = n /\ \A x \in D[u[s][n]] : Toward(s, n, x)
    BY <1>2, <2>1, <2>2 DEF Hangs
  <2>4. n # u.root => u.parent[n] \in N /\ \E s \in Side : u[s][u.parent[n]] = n
    BY <1>2, <1>3, <2>1 DEF Hangs
  <2>5. D[n] = {n} \cup Below(u, D, "left", n) \cup Below(u, D, "right", n)
    <3>1. D[n] = {n} \cup Below(t, D, "left", n) \cup Below(t, D, "right", n)
      BY <2>1 DEF Hangs
    <3>2. "left" \in Side /\ "right" \in Side
      BY DEF Side
    <3>3. Below(u, D, "left", n) = Below(t, D, "left", n) /\ Below(u, D, "right", n) = Below(t, D, "right", n)
      BY <2>2, <3>2 DEF Below
    <3> QED
      BY <3>1, <3>3
  <2> QED
    BY <2>3, <2>4, <2>5 DEF Hangs
<1>5. IF N = {} THEN u.root = NULL ELSE u.root \in N /\ u.parent[u.root] = NULL /\ D[u.root] = N
  BY <1>1, <1>2, <1>3
<1> QED
  BY <1>1, <1>3, <1>4, <1>5 DEF Linked

(* A freed node is outside the tree.                                       *)
LEMMA ForgetKeeps ==
  ASSUME NEW t, NEW N, Shaped(t, N), NEW k \in Node, k \notin N, Apart(t, N, k)
  PROVE  Shaped(Forget(t, k), N) /\ Apart(Forget(t, k), N, NULL)
<1>1. PICK D, h : RedBlack(t, N, D, h)
  BY DEF Shaped
<1>2. Linked(t, N, D) /\ Balanced(t, N, h) /\ Reds(t, N, t.red, NULL) /\ t.root \notin t.red
  BY <1>1 DEF RedBlack
<1>3. t \in Trees /\ N \in SUBSET Node
  BY <1>2 DEF Linked
<1>4. PICK u : u = Forget(t, k)
  OBVIOUS
<1>5. Forgotten(u, t, k)
  BY <1>3, <1>4, ForgetIs
<1>6. Linked(u, N, D)
  BY <1>2, <1>5, ForgetLinked
<1>7. u.red = t.red /\ u.root = t.root /\ \A m \in N : \A s \in Side : u[s][m] = t[s][m]
  BY <1>3, <1>5 DEF Forgotten
<1>8. Levels(u, N, u.red, h, NULL, "left")
  BY <1>2, <1>7 DEF Balanced, Levels, Level
<1>9. Reds(u, N, u.red, NULL)
  BY <1>2, <1>7 DEF Reds
<1>10. RedBlack(u, N, D, h)
  BY <1>2, <1>6, <1>7, <1>8, <1>9 DEF RedBlack, Balanced
<1>11. Apart(u, N, NULL)
  <2>1. \A m \in Node : m \notin N => u.parent[m] = NULL /\ \A s \in Side : u[s][m] = NULL
    BY <1>5 DEF Forgotten, Apart
  <2> QED
    BY <2>1 DEF Apart, Outlying
<1> QED
  BY <1>4, <1>10, <1>11 DEF Shaped

-----------------------------------------------------------------------------
(* The key of N that is the furthest on a side, if there is one.           *)
IsEnd(N, side, x) == IF x = NULL THEN N = {} ELSE x \in N /\ \A y \in N : y = x \/ Toward(side, y, x)

(* RB_MIN() and RB_MAX() find the ends.                                    *)
LEMMA ShapedEnds ==
  ASSUME NEW t, NEW N, NEW k, Shaped(t, N), Apart(t, N, k), NEW side \in Side
  PROVE  IsEnd(N, side, MinMax(t, side))
<1>1. PICK D, h : RedBlack(t, N, D, h)
  BY DEF Shaped
<1>2. Outlying(t, N) /\ Linked(t, N, D)
  BY <1>1 DEF Apart, RedBlack
<1>3. N \subseteq Node /\ NULL \notin N
  BY <1>2, LinkedIs
<1>4. CASE N = {}
  BY <1>2, <1>4 DEF Linked, MinMax, IsEnd
<1>5. CASE N # {}
  <2>1. t.root \in N /\ D[t.root] = N
    BY <1>2, <1>5 DEF Linked
  <2>2. IsFurthest(t, D, t.root, side, Furthest(t, t.root, side))
    BY <1>2, <2>1, WalksFurthest
  <2>3. MinMax(t, side) = Furthest(t, t.root, side)
    BY <1>3, <2>1 DEF MinMax
  <2>4. PICK x : x = MinMax(t, side)
    OBVIOUS
  <2>5. x \in N /\ \A y \in N : y = x \/ Toward(side, y, x)
    BY <2>1, <2>2, <2>3, <2>4 DEF IsFurthest
  <2> QED
    BY <1>3, <2>4, <2>5 DEF IsEnd
<1> QED
  BY <1>4, <1>5

(* RB_NEXT() and RB_PREV() find the neighbours.                            *)
LEMMA ShapedNext ==
  ASSUME NEW t, NEW N, NEW k, Shaped(t, N), Apart(t, N, k), NEW n \in N, NEW side \in Side
  PROVE  IsNext(N, n, side, Neighbour(t, n, side))
<1>1. PICK D, h : RedBlack(t, N, D, h)
  BY DEF Shaped
<1>2. Outlying(t, N) /\ Linked(t, N, D)
  BY <1>1 DEF Apart, RedBlack
<1> QED
  BY <1>2, WalksNext

-----------------------------------------------------------------------------
Still(t, K) == Shaped(t, K) /\ Apart(t, K, NULL)

(* The nodes that destroy() has freed, in the order of their keys, and     *)
(* before all others.                                                      *)
Freed(f) == {f[j] : j \in 1..Len(f)}
Ascending(f) == \A j, k \in 1..Len(f) : j < k => f[j] < f[k]
InOrder(f, K) == Ascending(f) /\ Freed(f) \subseteq K /\ \A x \in Freed(f) : \A y \in K \ Freed(f) : x < y

Place ==
  {"idle", "insert_color", "inserted", "remove_color", "free_node", "broken",
   "destroy", "destroy_color", "destroy_free", "destroyed"}

Taking(f, K, n, x) ==
  /\ n \in K \ Freed(f) /\ IsEnd(K \ Freed(f), "left", n)
  /\ IsEnd((K \ Freed(f)) \ {n}, "left", x)

(* TreeOfKeys is not inductive: between its turns the tree is none of its  *)
(* keys, and destroy() walks on from a node that it has just removed.      *)
CallInv ==
  /\ tree_pc \in {"idle", "inserted"} => Still(tree, keys)
  /\ tree_pc = "insert_color" => Growing(tree, keys, elm) /\ Apart(tree, keys, NULL)
  /\ tree_pc = "remove_color" => Shrinking(tree, keys, parent, elm) /\ Apart(tree, keys, node) /\ node \in Node \ keys
  /\ tree_pc = "free_node" => Shaped(tree, keys) /\ Apart(tree, keys, node) /\ node \in Node \ keys

DestroyInv ==
  /\ tree_pc \in {"destroy", "destroy_color", "destroy_free", "destroyed"} => InOrder(freed, keys)
  /\ tree_pc = "destroy" => Still(tree, keys \ Freed(freed)) /\ IsEnd(keys \ Freed(freed), "left", next)
  /\ tree_pc \in {"destroy_color", "destroy_free"} =>
       Taking(freed, keys, node, next) /\ Apart(tree, (keys \ Freed(freed)) \ {node}, node)
  /\ tree_pc = "destroy_color" => Shrinking(tree, (keys \ Freed(freed)) \ {node}, parent, elm)
  /\ tree_pc = "destroy_free" => Shaped(tree, (keys \ Freed(freed)) \ {node})
  /\ tree_pc = "destroyed" => keys = Freed(freed) /\ tree.root = NULL

TreeInv ==
  /\ tree_pc \in Place /\ keys \in SUBSET Node /\ freed \in Seq(Node)
  /\ tree_pc \in {"idle", "insert_color", "inserted", "remove_color", "free_node", "broken"} => freed = <<>>
  /\ CallInv /\ DestroyInv

-----------------------------------------------------------------------------
(* What is in ascending order is there once.                               *)
LEMMA OrderedCount ==
  ASSUME NEW f \in Seq(Node), Ascending(f)
  PROVE  Cardinality(Freed(f)) = Len(f)
<1>1. Len(f) \in Nat /\ \A j \in 1..Len(f) : f[j] \in Int
  <2>1. Len(f) \in Nat /\ \A j \in 1..Len(f) : f[j] \in Node
    OBVIOUS
  <2> QED
    BY <2>1, NodeAssumption
<1>2. PICK g : g = [j \in 1..Len(f) |-> f[j]]
  OBVIOUS
<1>3. g \in Bijection(1..Len(f), Freed(f))
  <2>1. g \in [1..Len(f) -> Freed(f)]
    BY <1>2 DEF Freed
  <2>2. \A j, k \in 1..Len(f) : g[j] = g[k] => j = k
    <3>1. ASSUME NEW j \in 1..Len(f), NEW k \in 1..Len(f), f[j] = f[k]
          PROVE  j = k
      BY <1>1, <3>1 DEF Ascending
    <3> QED
      BY <1>2, <3>1
  <2>3. \A y \in Freed(f) : \E j \in 1..Len(f) : g[j] = y
    BY <1>2 DEF Freed
  <2> QED
    BY <2>1, <2>2, <2>3 DEF Bijection, Injection, Surjection, IsInjective
<1>4. ExistsBijection(1..Len(f), Freed(f))
  BY <1>3 DEF ExistsBijection
<1> QED
  BY <1>1, <1>4, FS_CountingElements

(* The least of what is left is freed next.                                *)
LEMMA OrderedAppend ==
  ASSUME NEW f \in Seq(Node), NEW K \in SUBSET Node, InOrder(f, K), NEW n \in K \ Freed(f),
         IsEnd(K \ Freed(f), "left", n)
  PROVE  /\ Append(f, n) \in Seq(Node) /\ InOrder(Append(f, n), K)
         /\ K \ Freed(Append(f, n)) = (K \ Freed(f)) \ {n}
<1>1. PICK g : g = Append(f, n)
  OBVIOUS
<1>2. /\ n \in Node /\ n # NULL /\ g \in Seq(Node) /\ Len(f) \in Nat /\ Len(g) = Len(f) + 1
      /\ g[Len(g)] = n /\ \A j \in 1..Len(f) : g[j] = f[j]
  BY <1>1, NodeAssumption
<1>3. Freed(g) = Freed(f) \cup {n}
  <2>1. \A y \in Freed(g) : y \in Freed(f) \cup {n}
    <3> TAKE y \in Freed(g)
    <3>1. PICK j \in 1..Len(g) : y = g[j]
      BY DEF Freed
    <3>2. j \in 1..Len(f) \/ j = Len(g)
      BY <1>2
    <3> QED
      BY <1>2, <3>1, <3>2 DEF Freed
  <2>2. \A y \in Freed(f) : y \in Freed(g)
    <3> TAKE y \in Freed(f)
    <3>1. PICK j \in 1..Len(f) : y = f[j]
      BY DEF Freed
    <3>2. j \in 1..Len(g) /\ y = g[j]
      BY <1>2, <3>1
    <3> QED
      BY <3>2 DEF Freed
  <2>3. n \in Freed(g)
    <3>1. Len(g) \in 1..Len(g)
      BY <1>2
    <3> QED
      BY <1>2, <3>1 DEF Freed
  <2> QED
    BY <2>1, <2>2, <2>3
<1>4. \A y \in K \ Freed(f) : y = n \/ n < y
  BY <1>2 DEF IsEnd, Toward
<1>5. Ascending(g)
  <2> SUFFICES ASSUME NEW j \in 1..Len(g), NEW k \in 1..Len(g), j < k
               PROVE  g[j] < g[k]
    BY DEF Ascending
  <2>1. j \in 1..Len(f) /\ (k \in 1..Len(f) \/ k = Len(g))
    BY <1>2
  <2>2. CASE k \in 1..Len(f)
    BY <1>2, <2>1, <2>2 DEF InOrder, Ascending
  <2>3. CASE k = Len(g)
    <3>1. f[j] \in Freed(f)
      BY <2>1 DEF Freed
    <3>2. f[j] < n
      BY <3>1 DEF InOrder
    <3> QED
      BY <1>2, <2>1, <2>3, <3>2
  <2> QED
    BY <2>1, <2>2, <2>3
<1>6. \A x \in Freed(g) : \A y \in K \ Freed(g) : x < y
  BY <1>3, <1>4 DEF InOrder
<1>7. Freed(g) \subseteq K
  BY <1>3 DEF InOrder
<1> QED
  BY <1>1, <1>2, <1>3, <1>5, <1>6, <1>7 DEF InOrder

(* Between two calls RB_NEXT() and RB_PREV() go through the keys in order, *)
(* one after the other, and RB_MIN() and RB_MAX() are the first and the    *)
(* last.                                                                   *)
THEOREM StillWalks ==
  ASSUME NEW t, NEW K, Still(t, K), K # {}
  PROVE  /\ \A n \in K :
              LET m == Neighbour(t, n, "right")
              IN  IF m = NULL THEN \A k \in K : k <= n
                  ELSE /\ m \in K /\ n < m /\ {k \in K : n < k /\ k < m} = {}
                       /\ Neighbour(t, m, "left") = n
         /\ \A k \in K : MinMax(t, "left") <= k /\ k <= MinMax(t, "right")
<1>1. K \in SUBSET Int /\ NULL \notin K /\ Shaped(t, K) /\ Apart(t, K, NULL)
  BY ShapedIs, NodeAssumption DEF Still
<1>2. "left" \in Side /\ "right" \in Side
  BY DEF Side
<1>3. \A k \in K : MinMax(t, "left") <= k /\ k <= MinMax(t, "right")
  <2>1. PICK x : x = MinMax(t, "left")
    OBVIOUS
  <2>2. PICK y : y = MinMax(t, "right")
    OBVIOUS
  <2>3. IsEnd(K, "left", x) /\ IsEnd(K, "right", y)
    BY <1>1, <1>2, <2>1, <2>2, ShapedEnds
  <2>4. x \in K /\ y \in K /\ \A k \in K : (k = x \/ x < k) /\ (k = y \/ k < y)
    BY <2>3 DEF IsEnd, Toward
  <2>5. \A k \in K : x <= k /\ k <= y
    BY <1>1, <2>4
  <2> QED
    BY <2>1, <2>2, <2>5
<1>4. ASSUME NEW n \in K, NEW m, m = Neighbour(t, n, "right")
      PROVE  IF m = NULL THEN \A k \in K : k <= n
             ELSE m \in K /\ n < m /\ {k \in K : n < k /\ k < m} = {} /\ Neighbour(t, m, "left") = n
  <2>1. IsNext(K, n, "right", m)
    BY <1>1, <1>2, <1>4, ShapedNext
  <2>2. CASE m = NULL
    <3>1. \A k \in K : k = n \/ k < n
      BY <2>1, <2>2 DEF IsNext, Toward
    <3> QED
      BY <1>1, <2>2, <3>1
  <2>3. CASE m # NULL
    <3>1. m \in K /\ n < m /\ \A k \in K : k = n \/ k = m \/ k < n \/ m < k
      BY <2>1, <2>3 DEF IsNext, Toward
    <3>2. {k \in K : n < k /\ k < m} = {}
      <4> SUFFICES ASSUME NEW k \in K, n < k, k < m
                   PROVE  FALSE
        OBVIOUS
      <4>1. k \in Int /\ n \in Int /\ m \in Int
        BY <1>1, <3>1
      <4>2. k = n \/ k = m \/ k < n \/ m < k
        BY <3>1
      <4> QED
        BY <4>1, <4>2
    <3>3. PICK p : p = Neighbour(t, m, "left")
      OBVIOUS
    <3>4. IsNext(K, m, "left", p)
      BY <1>1, <1>2, <3>1, <3>3, ShapedNext
    <3>5. p # NULL
      <4> SUFFICES ASSUME p = NULL PROVE FALSE
        OBVIOUS
      <4>1. n = m \/ m < n
        BY <3>4 DEF IsNext, Toward
      <4> QED
        BY <1>1, <3>1, <4>1
    <3>6. p \in K /\ p < m /\ \A k \in K : k = m \/ k = p \/ m < k \/ k < p
      BY <3>4, <3>5 DEF IsNext, Toward
    <3>7. p = n
      BY <1>1, <3>1, <3>6
    <3> QED
      BY <2>3, <3>1, <3>2, <3>3, <3>7
  <2> QED
    BY <2>2, <2>3
<1> QED
  BY <1>3, <1>4

(* The invariant implies the property.                                     *)
LEMMA TreeInvIs == TreeInv => TreeOfKeys
<1> SUFFICES ASSUME TreeInv
             PROVE  TreeOfKeys
  OBVIOUS
<1>1. IsTreeOfKeys
  BY ShapedReached DEF TreeInv, CallInv, Still, IsTreeOfKeys
<1>2. WalksInOrder
  BY StillWalks DEF TreeInv, CallInv, WalksInOrder, Between
<1>3. DestroyedOnce
  <2>1. freed \in Seq(Node) /\ Ascending(freed)
    <3>1. Ascending(<<>>)
      BY DEF Ascending
    <3> QED
      BY <3>1 DEF TreeInv, DestroyInv, InOrder, Place
  <2>2. Cardinality(Freed(freed)) = Len(freed)
    BY <2>1, OrderedCount
  <2> QED
    BY <2>1, <2>2 DEF TreeInv, DestroyInv, DestroyedOnce, Ascending
<1> QED
  BY <1>1, <1>2, <1>3 DEF TreeOfKeys

-----------------------------------------------------------------------------
(* It holds of the empty tree.                                             *)
LEMMA TreeInvInit == TreeInit => TreeInv
<1> SUFFICES ASSUME TreeInit PROVE TreeInv
  OBVIOUS
<1>1. tree = Empty /\ tree_pc = "idle" /\ freed = <<>> /\ keys = {}
  BY DEF TreeInit
<1>2. Still(Empty, {})
  <2>1. Shaped(Empty, {})
    <3>1. Empty \in Trees /\ Empty.root = NULL /\ Empty.red = {}
      BY DEF Empty, Trees
    <3>2. PICK D : D = [n \in {} |-> {}]
      OBVIOUS
    <3>3. PICK h : h = [n \in Node \cup {NULL} |-> 0]
      OBVIOUS
    <3>4. Linked(Empty, {}, D)
      <4>1. IsFiniteSet({}) /\ D \in [{} -> SUBSET {}]
        BY <3>2, FS_EmptySet
      <4> QED
        BY <3>1, <4>1 DEF Linked
    <3>5. Levels(Empty, {}, {}, h, NULL, "left")
      BY <3>3 DEF Levels
    <3>6. Reds(Empty, {}, {}, NULL)
      BY DEF Reds
    <3>7. RedBlack(Empty, {}, D, h)
      BY <3>1, <3>4, <3>5, <3>6 DEF RedBlack, Balanced
    <3> QED
      BY <3>7 DEF Shaped
  <2>2. Apart(Empty, {}, NULL)
    <3>1. \A m \in Node : Empty.parent[m] = NULL /\ \A s \in Side : Empty[s][m] = NULL
      BY DEF Empty, Side
    <3> QED
      BY <3>1 DEF Apart, Outlying
  <2> QED
    BY <2>1, <2>2 DEF Still
<1>3. CallInv
  BY <1>1, <1>2 DEF CallInv
<1>4. DestroyInv
  BY <1>1 DEF DestroyInv
<1> QED
  BY <1>1, <1>3, <1>4 DEF TreeInv, Place

(* What a step of set() keeps, and what one of destroy() keeps.            *)
LEMMA CallStep ==
  ASSUME tree_pc' \in {"idle", "insert_color", "inserted", "remove_color", "free_node", "broken"},
         keys' \in SUBSET Node, freed' = <<>>, CallInv'
  PROVE  TreeInv'
<1>1. DestroyInv'
  BY DEF DestroyInv
<1> QED
  BY <1>1 DEF TreeInv, Place

LEMMA DestroyStep ==
  ASSUME tree_pc' \in {"destroy", "destroy_color", "destroy_free", "destroyed"},
         keys' \in SUBSET Node, freed' \in Seq(Node), DestroyInv'
  PROVE  TreeInv'
<1>1. CallInv'
  BY DEF CallInv
<1> QED
  BY <1>1 DEF TreeInv, Place

(* Every step keeps it.                                                    *)
LEMMA InsertNodeKeeps ==
  ASSUME TreeInv, NEW k \in Node, insert_node(k)
  PROVE  TreeInv'
<1>1. Still(tree, keys) /\ keys \in SUBSET Node /\ freed = <<>>
  BY DEF TreeInv, CallInv, insert_node
<1>2. /\ tree_pc' = "insert_color" /\ tree' = Insert(tree, k) /\ elm' = k
      /\ keys' = keys \cup {k} /\ freed' = freed /\ Find(tree, k) = NULL
  BY DEF insert_node
<1>3. k \notin keys
  BY <1>1, <1>2, ShapedReached, NodeAssumption DEF Still
<1>4. Growing(Insert(tree, k), keys \cup {k}, k) /\ Apart(Insert(tree, k), keys \cup {k}, NULL)
  BY <1>1, <1>3, InsertsInto DEF Still
<1>5. CallInv'
  BY <1>2, <1>4 DEF CallInv
<1> QED
  BY <1>1, <1>2, <1>5, CallStep

LEMMA InsertTurnKeeps ==
  ASSUME TreeInv, insert_color
  PROVE  TreeInv'
<1>1. Growing(tree, keys, elm) /\ Apart(tree, keys, NULL) /\ keys \in SUBSET Node /\ freed = <<>>
  BY DEF TreeInv, CallInv, insert_color
<1>2. keys' = keys /\ freed' = freed /\ tree_pc = "insert_color"
  BY DEF insert_color
<1>3. CASE InsertColored(tree, elm)
  <2>1. tree' = Blacken(tree, tree.root) /\ tree_pc' = "inserted"
    BY <1>3 DEF insert_color
  <2>2. Still(Blacken(tree, tree.root), keys)
    BY <1>1, <1>3, Grows DEF Still
  <2>3. CallInv'
    BY <1>2, <2>1, <2>2 DEF CallInv
  <2> QED
    BY <1>1, <1>2, <2>1, <2>3, CallStep
<1>4. CASE ~InsertColored(tree, elm)
  <2>1. tree' = InsertColor(tree, elm).tree /\ elm' = InsertColor(tree, elm).node /\ tree_pc' = "insert_color"
    BY <1>2, <1>4 DEF insert_color
  <2>2. /\ Growing(InsertColor(tree, elm).tree, keys, InsertColor(tree, elm).node)
        /\ Apart(InsertColor(tree, elm).tree, keys, NULL)
    BY <1>1, <1>4, Grows
  <2>3. CallInv'
    BY <1>2, <2>1, <2>2 DEF CallInv
  <2> QED
    BY <1>1, <1>2, <2>1, <2>3, CallStep
<1> QED
  BY <1>3, <1>4

LEMMA DropNodeKeeps ==
  ASSUME TreeInv, NEW k \in Node, drop_node(k)
  PROVE  TreeInv'
<1>1. Still(tree, keys) /\ keys \in SUBSET Node /\ freed = <<>>
  BY DEF TreeInv, CallInv, drop_node
<1>2. PICK r : r = Remove(tree, k)
  OBVIOUS
<1>3. /\ tree' = r.tree /\ node' = k /\ elm' = r.child /\ parent' = r.parent
      /\ tree_pc' = (IF r.black THEN "remove_color" ELSE "free_node")
      /\ keys' = keys \ {k} /\ freed' = freed /\ Find(tree, k) = k
  BY <1>2 DEF drop_node, remove
<1>4. k \in keys
  BY <1>1, <1>3, ShapedReached, NodeAssumption DEF Still
<1>5. /\ IF r.black THEN Shrinking(r.tree, keys \ {k}, r.parent, r.child) ELSE Shaped(r.tree, keys \ {k})
      /\ Apart(r.tree, keys \ {k}, k)
  BY <1>1, <1>2, <1>4, RemovesFrom DEF Still
<1>6. CallInv'
  BY <1>3, <1>5 DEF CallInv
<1>7. tree_pc' \in {"remove_color", "free_node"}
  BY <1>3
<1> QED
  BY <1>1, <1>3, <1>6, <1>7, CallStep

LEMMA RemoveTurnKeeps ==
  ASSUME TreeInv, remove_color
  PROVE  TreeInv'
<1>1. keys \in SUBSET Node /\ freed \in Seq(Node) /\ tree_pc \in {"remove_color", "destroy_color"}
  BY DEF TreeInv, remove_color
<1>2. keys' = keys /\ freed' = freed /\ node' = node /\ next' = next
  BY DEF remove_color
<1>3. PICK K : K = IF tree_pc = "remove_color" THEN keys ELSE (keys \ Freed(freed)) \ {node}
  OBVIOUS
<1>4. Shrinking(tree, K, parent, elm) /\ Apart(tree, K, node)
  BY <1>1, <1>3 DEF TreeInv, CallInv, DestroyInv
<1>5. PICK r : r = RemoveColor(tree, parent, elm)
  OBVIOUS
<1>6. /\ IF RemoveColored(tree, elm)
         THEN Shaped(Blacken(tree, elm), K) /\ Apart(Blacken(tree, elm), K, node)
         ELSE Shrinking(r.tree, K, r.parent, r.node) /\ Apart(r.tree, K, node)
  BY <1>4, <1>5, Shrinks
<1>7. IF RemoveColored(tree, elm)
      THEN Shaped(tree', K) /\ Apart(tree', K, node)
           /\ tree_pc' = IF tree_pc = "remove_color" THEN "free_node" ELSE "destroy_free"
      ELSE Shrinking(tree', K, parent', elm') /\ Apart(tree', K, node) /\ tree_pc' = tree_pc
  <2>1. CASE RemoveColored(tree, elm)
    <3>1. tree' = Blacken(tree, elm) /\ tree_pc' = IF tree_pc = "remove_color" THEN "free_node" ELSE "destroy_free"
      BY <2>1 DEF remove_color
    <3> QED
      BY <1>6, <2>1, <3>1
  <2>2. CASE ~RemoveColored(tree, elm)
    <3>1. tree' = r.tree /\ elm' = r.node /\ parent' = r.parent /\ tree_pc' = tree_pc
      BY <1>5, <2>2 DEF remove_color
    <3> QED
      BY <1>6, <2>2, <3>1
  <2> QED
    BY <2>1, <2>2
<1>8. CASE tree_pc = "remove_color"
  <2>1. K = keys /\ freed = <<>> /\ node \in Node \ keys
    BY <1>3, <1>8 DEF TreeInv, CallInv
  <2>2. tree_pc' \in {"remove_color", "free_node"}
    BY <1>7, <1>8
  <2>3. CallInv'
    BY <1>2, <1>7, <1>8, <2>1 DEF CallInv
  <2> QED
    BY <1>1, <1>2, <2>1, <2>2, <2>3, CallStep
<1>9. CASE tree_pc = "destroy_color"
  <2>1. K = (keys \ Freed(freed)) \ {node} /\ InOrder(freed, keys) /\ Taking(freed, keys, node, next)
    BY <1>3, <1>9 DEF TreeInv, DestroyInv
  <2>2. tree_pc' \in {"destroy_color", "destroy_free"}
    BY <1>7, <1>9
  <2>3. DestroyInv'
    BY <1>2, <1>7, <1>9, <2>1, <2>2 DEF DestroyInv
  <2> QED
    BY <1>1, <1>2, <2>2, <2>3, DestroyStep
<1> QED
  BY <1>1, <1>8, <1>9

LEMMA FreeNodeKeeps ==
  ASSUME TreeInv, free_node
  PROVE  TreeInv'
<1>1. /\ Shaped(tree, keys) /\ Apart(tree, keys, node) /\ node \in Node \ keys
      /\ keys \in SUBSET Node /\ freed = <<>>
  BY DEF TreeInv, CallInv, free_node
<1>2. tree_pc' = "idle" /\ tree' = Forget(tree, node) /\ keys' = keys /\ freed' = freed
  BY DEF free_node
<1>3. Still(Forget(tree, node), keys)
  BY <1>1, ForgetKeeps DEF Still
<1>4. CallInv'
  BY <1>2, <1>3 DEF CallInv
<1> QED
  BY <1>1, <1>2, <1>4, CallStep

LEMMA DestroyKeeps ==
  ASSUME TreeInv, destroy
  PROVE  TreeInv'
<1>1. Still(tree, keys) /\ keys \in SUBSET Node
  BY DEF TreeInv, CallInv, destroy
<1>2. tree_pc' = "destroy" /\ next' = MinMax(tree, "left") /\ freed' = <<>> /\ tree' = tree /\ keys' = keys
  BY DEF destroy
<1>3. Freed(<<>>) = {} /\ Ascending(<<>>) /\ <<>> \in Seq(Node)
  BY DEF Freed, Ascending
<1>4. keys \ Freed(<<>>) = keys /\ InOrder(<<>>, keys)
  BY <1>3 DEF InOrder
<1>5. IsEnd(keys, "left", MinMax(tree, "left"))
  BY <1>1, ShapedEnds DEF Still, Side
<1>6. DestroyInv'
  BY <1>1, <1>2, <1>4, <1>5 DEF DestroyInv
<1> QED
  BY <1>1, <1>2, <1>3, <1>6, DestroyStep

LEMMA DestroyNodeKeeps ==
  ASSUME TreeInv, destroy_node
  PROVE  TreeInv'
<1>1. PICK K : K = keys \ Freed(freed)
  OBVIOUS
<1>2. PICK n : n = next
  OBVIOUS
<1>3. /\ Still(tree, K) /\ IsEnd(K, "left", n) /\ n # NULL /\ InOrder(freed, keys)
      /\ keys \in SUBSET Node /\ freed \in Seq(Node)
  BY <1>1, <1>2 DEF TreeInv, DestroyInv, destroy_node
<1>4. PICK r : r = Remove(tree, n)
  OBVIOUS
<1>5. PICK m : m = Neighbour(tree, n, "right")
  OBVIOUS
<1>6. /\ tree' = r.tree /\ node' = n /\ elm' = r.child /\ parent' = r.parent
      /\ tree_pc' = (IF r.black THEN "destroy_color" ELSE "destroy_free")
      /\ next' = m /\ keys' = keys /\ freed' = freed
  BY <1>2, <1>4, <1>5 DEF destroy_node, remove
<1>7. n \in K /\ \A y \in K : y = n \/ n < y
  BY <1>3 DEF IsEnd, Toward
<1>8. /\ IF r.black THEN Shrinking(r.tree, K \ {n}, r.parent, r.child) ELSE Shaped(r.tree, K \ {n})
      /\ Apart(r.tree, K \ {n}, n)
  BY <1>3, <1>4, <1>7, RemovesFrom DEF Still
<1>9. IsEnd(K \ {n}, "left", m)
  <2>1. IsNext(K, n, "right", m)
    BY <1>3, <1>5, <1>7, ShapedNext DEF Still, Side
  <2>2. K \in SUBSET Int
    BY <1>1, <1>3, NodeAssumption
  <2>3. CASE m = NULL
    <3>1. \A y \in K : y = n \/ y < n
      BY <2>1, <2>3 DEF IsNext, Toward
    <3>2. K \ {n} = {}
      BY <1>7, <2>2, <3>1
    <3> QED
      BY <2>3, <3>2 DEF IsEnd
  <2>4. CASE m # NULL
    <3>1. m \in K /\ n < m /\ \A y \in K : y = n \/ y = m \/ y < n \/ m < y
      BY <2>1, <2>4 DEF IsNext, Toward
    <3>2. m \in K \ {n} /\ \A y \in K \ {n} : y = m \/ m < y
      BY <1>7, <2>2, <3>1
    <3> QED
      BY <2>4, <3>2 DEF IsEnd, Toward
  <2> QED
    BY <2>3, <2>4
<1>10. Taking(freed, keys, n, m)
  BY <1>1, <1>3, <1>7, <1>9 DEF Taking
<1>11. tree_pc' \in {"destroy_color", "destroy_free"}
  BY <1>6
<1>12. DestroyInv'
  BY <1>1, <1>3, <1>6, <1>8, <1>10, <1>11 DEF DestroyInv
<1> QED
  BY <1>3, <1>6, <1>11, <1>12, DestroyStep

LEMMA DestroyFreeKeeps ==
  ASSUME TreeInv, destroy_free
  PROVE  TreeInv'
<1>1. PICK n : n = node
  OBVIOUS
<1>2. PICK K : K = (keys \ Freed(freed)) \ {n}
  OBVIOUS
<1>3. /\ Shaped(tree, K) /\ Apart(tree, K, n) /\ InOrder(freed, keys)
      /\ n \in keys \ Freed(freed) /\ IsEnd(keys \ Freed(freed), "left", n) /\ IsEnd(K, "left", next)
      /\ keys \in SUBSET Node /\ freed \in Seq(Node)
  BY <1>1, <1>2 DEF TreeInv, DestroyInv, destroy_free, Taking
<1>4. /\ tree_pc' = "destroy" /\ freed' = Append(freed, n) /\ tree' = Forget(tree, n)
      /\ next' = next /\ keys' = keys
  BY <1>1 DEF destroy_free
<1>5. Still(Forget(tree, n), K)
  BY <1>2, <1>3, ForgetKeeps DEF Still
<1>6. /\ Append(freed, n) \in Seq(Node) /\ InOrder(Append(freed, n), keys)
      /\ keys \ Freed(Append(freed, n)) = K
  BY <1>2, <1>3, OrderedAppend
<1>7. DestroyInv'
  BY <1>3, <1>4, <1>5, <1>6 DEF DestroyInv
<1> QED
  BY <1>3, <1>4, <1>6, <1>7, DestroyStep

LEMMA DestroyedKeeps ==
  ASSUME TreeInv, destroyed
  PROVE  TreeInv'
<1>1. /\ Still(tree, keys \ Freed(freed)) /\ IsEnd(keys \ Freed(freed), "left", NULL) /\ InOrder(freed, keys)
      /\ keys \in SUBSET Node /\ freed \in Seq(Node)
  BY DEF TreeInv, DestroyInv, destroyed
<1>2. tree_pc' = "destroyed" /\ freed' = freed /\ tree' = tree /\ keys' = keys
  BY DEF destroyed
<1>3. keys \ Freed(freed) = {}
  BY <1>1 DEF IsEnd
<1>4. keys = Freed(freed)
  BY <1>1, <1>3 DEF InOrder
<1>5. tree.root = NULL
  BY <1>1, <1>3, ShapedIs DEF Still
<1>6. DestroyInv'
  BY <1>1, <1>2, <1>4, <1>5 DEF DestroyInv
<1> QED
  BY <1>1, <1>2, <1>6, DestroyStep

(* So does the whole.                                                      *)
LEMMA TreeInvNext == TreeInv /\ [TreeNext]_tree_vars => TreeInv'
<1> SUFFICES ASSUME TreeInv, [TreeNext]_tree_vars
             PROVE  TreeInv'
  OBVIOUS
<1>1. ASSUME NEW k \in Node, insert_node(k)
      PROVE  TreeInv'
  BY <1>1, InsertNodeKeeps
<1>2. ASSUME NEW k \in Node, drop_node(k)
      PROVE  TreeInv'
  BY <1>2, DropNodeKeeps
<1>3. CASE insert_color
  BY <1>3, InsertTurnKeeps
<1>4. CASE give_value
  <2>1. /\ Still(tree, keys) /\ keys \in SUBSET Node /\ freed = <<>>
        /\ tree_pc' = "idle" /\ tree' = tree /\ keys' = keys /\ freed' = freed
    BY <1>4 DEF TreeInv, CallInv, give_value
  <2>2. CallInv'
    BY <2>1 DEF CallInv
  <2> QED
    BY <2>1, <2>2, CallStep
<1>5. CASE strdup_fails
  <2>1. keys \in SUBSET Node /\ freed = <<>> /\ tree_pc' = "broken" /\ keys' = keys /\ freed' = freed
    BY <1>5 DEF TreeInv, strdup_fails
  <2>2. CallInv'
    BY <2>1 DEF CallInv
  <2> QED
    BY <2>1, <2>2, CallStep
<1>6. CASE remove_color
  BY <1>6, RemoveTurnKeeps
<1>7. CASE free_node
  BY <1>7, FreeNodeKeeps
<1>8. CASE destroy
  BY <1>8, DestroyKeeps
<1>9. CASE destroy_node
  BY <1>9, DestroyNodeKeeps
<1>10. CASE destroy_free
  BY <1>10, DestroyFreeKeeps
<1>11. CASE destroyed
  BY <1>11, DestroyedKeeps
<1>12. CASE UNCHANGED tree_vars
  BY <1>12 DEF tree_vars, TreeInv, CallInv, DestroyInv
<1> QED
  BY <1>1, <1>2, <1>3, <1>4, <1>5, <1>6, <1>7, <1>8, <1>9, <1>10, <1>11, <1>12 DEF TreeNext

(* Between two calls the tree of db_simple is a red-black tree of the keys *)
(* that are set, RB_NEXT(), RB_PREV(), RB_MIN() and RB_MAX() go by their   *)
(* order, and destroy() frees every node once: for any set of keys, and    *)
(* any sequence of set() and destroy().                                    *)
THEOREM TreeIsOfKeys == TreeSpec => []TreeOfKeys
<1>1. TreeInit => TreeInv
  BY TreeInvInit
<1>2. TreeInv /\ [TreeNext]_tree_vars => TreeInv'
  BY TreeInvNext
<1>3. TreeInv => TreeOfKeys
  BY TreeInvIs
<1> QED
  BY <1>1, <1>2, <1>3, PTL DEF TreeSpec
=============================================================================
