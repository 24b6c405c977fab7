------------------------------- MODULE RbTree -------------------------------
(***************************************************************************)
(* The red-black tree of struct_bsd/inc/tree.h: an operator for each turn  *)
(* of its loops.  A node is its key.  What the macros write twice, for the *)
(* left and for the right, is written once here, for a side.               *)
(***************************************************************************)
EXTENDS Integers, FiniteSets

CONSTANT Node   (* integers                                                *)

NULL == 0

ASSUME NodeAssumption == Node \in SUBSET Int /\ NULL \notin Node

Side == {"left", "right"}
Other(side) == IF side = "left" THEN "right" ELSE "left"

(* RB_INIT() *)
Empty ==
  [left |-> [n \in Node |-> NULL], right |-> [n \in Node |-> NULL],
   parent |-> [n \in Node |-> NULL], red |-> {}, root |-> NULL]

IsRed(t, n) == n # NULL /\ n \in t.red
SideOf(t, n) == IF t.left[t.parent[n]] = n THEN "left" ELSE "right"

SetChild(t, side, n, m) == [t EXCEPT ![side][n] = m]

(* RB_PARENT(n) = p, unless n is NULL. *)
SetParent(t, n, p) == IF n = NULL THEN t ELSE [t EXCEPT !.parent[n] = p]

(* What pointed to n points to m. *)
Relink(t, n, m) ==
  IF t.parent[n] = NULL THEN [t EXCEPT !.root = m] ELSE SetChild(t, SideOf(t, n), t.parent[n], m)

SetBlackRed(t, black, red) == [t EXCEPT !.red = (@ \ {black}) \cup {red}]

(* RB_ROTATE_LEFT() and RB_ROTATE_RIGHT(): n goes down on the side, up     *)
(* takes its place and gives its inner child to n.                         *)
TurnRound(t, n, up, inner, side) ==
  LET p == t.parent[n]
      t1 == SetParent(SetChild(t, Other(side), n, inner), inner, n)
      t2 == SetParent(Relink(t1, n, up), up, p)
  IN  SetChild(SetParent(t2, n, up), side, up, n)

Rotate(t, n, side) ==
  LET up == t[Other(side)][n] IN TurnRound(t, n, up, t[side][up], side)

-----------------------------------------------------------------------------
(* The walks down and up the tree. *)

(* MINMAX(), and the loops of NEXT(), PREV() and REMOVE(). *)
Furthest(t, n, side) ==
  LET down[m \in Node] == IF t[side][m] = NULL THEN m ELSE down[t[side][m]] IN down[n]

MinMax(t, side) == IF t.root = NULL THEN NULL ELSE Furthest(t, t.root, side)

(* NEXT() is towards the right, PREV() towards the left. *)
Neighbour(t, n, side) ==
  LET up[m \in Node] == IF t.parent[m] # NULL /\ SideOf(t, m) = side THEN up[t.parent[m]] ELSE t.parent[m]
  IN  IF t[side][n] # NULL THEN Furthest(t, t[side][n], Other(side)) ELSE up[n]

(* The nodes on the way to a key, in INSERT(), FIND() and NFIND(). *)
Step(n, k) == IF k < n THEN "left" ELSE "right"
Last(t, k) ==
  LET down[n \in Node] == IF n = k \/ t[Step(n, k)][n] = NULL THEN n ELSE down[t[Step(n, k)][n]]
  IN  IF t.root = NULL THEN NULL ELSE down[t.root]

Find(t, k) == IF Last(t, k) = k THEN k ELSE NULL

-----------------------------------------------------------------------------
(* INSERT() of a key that is not there, up to INSERT_COLOR(). *)
Insert(t, k) ==
  LET p == Last(t, k)
      t1 == [t EXCEPT !.parent[k] = p, !.left[k] = NULL, !.right[k] = NULL, !.red = @ \cup {k}]
  IN  IF p = NULL THEN [t1 EXCEPT !.root = k] ELSE SetChild(t1, Step(p, k), p, k)

InsertColored(t, n) == ~IsRed(t, t.parent[n])

(* A turn of INSERT_COLOR(): the tree, and elm. *)
InsertColor(t, n) ==
  LET p == t.parent[n]
      g == t.parent[p]
      side == SideOf(t, p)
      uncle == t[Other(side)][g]
      inner == t[Other(side)][p] = n
      t1 == IF inner THEN Rotate(t, p, side) ELSE t
      top == IF inner THEN n ELSE p
  IN  IF IsRed(t, uncle)
      THEN [tree |-> [SetBlackRed(t, p, g) EXCEPT !.red = @ \ {uncle}], node |-> g]
      ELSE [tree |-> Rotate(SetBlackRed(t1, top, g), g, Other(side)), node |-> IF inner THEN p ELSE n]

-----------------------------------------------------------------------------
(* Mutant of Instead: the parent of the node that is taken out, which may  *)
(* be the node that is removed.                                            *)
Instead_old(t, n, next) == t.parent[next]

(* Where colours have to be put right when next has taken the place of n. *)
Instead(t, n, next) == IF t.parent[next] = n THEN next ELSE t.parent[next]

(* The child of a node that has at most one. *)
Child(t, n) == IF t.left[n] = NULL THEN t.right[n] ELSE t.left[n]

(* REMOVE() up to REMOVE_COLOR(): the tree, and the parent and the child   *)
(* from which a black node was taken, if it was one.                       *)
Remove(t, n) ==
  IF t.left[n] = NULL \/ t.right[n] = NULL
  THEN LET child == Child(t, n)
       IN  [tree |-> [Relink(SetParent(t, child, t.parent[n]), n, child) EXCEPT !.red = @ \ {n}],
            parent |-> t.parent[n], child |-> child, black |-> ~IsRed(t, n)]
  ELSE LET next == Furthest(t, t.right[n], "left")
           child == t.right[next]
           t1 == Relink(SetParent(t, child, t.parent[next]), next, child)
           t2 == [t1 EXCEPT !.left[next] = t1.left[n], !.right[next] = t1.right[n],
                            !.parent[next] = t1.parent[n],
                            !.red = IF n \in @ THEN (@ \cup {next}) \ {n} ELSE @ \ {next}]
           t3 == Relink(t2, n, next)
       IN  [tree |-> SetParent(SetParent(t3, t3.left[n], next), t3.right[n], next),
            parent |-> Instead(t, n, next), child |-> child, black |-> ~IsRed(t, next)]

RemoveColored(t, n) == IsRed(t, n) \/ n = t.root

(* A turn of REMOVE_COLOR() below p, on whose side a black node is missing: *)
(* the sibling of what hangs there is made black, and its outer child red. *)
BlackSibling(t, p, side) ==
  LET s == t[Other(side)][p] IN IF IsRed(t, s) THEN Rotate(SetBlackRed(t, s, p), p, side) ELSE t

RedOuter(t, p, side) ==
  LET s == t[Other(side)][p]
  IN  IF IsRed(t, t[Other(side)][s]) THEN t
      ELSE Rotate(SetBlackRed(t, t[side][s], s), s, Other(side))

(* The rotation that makes up for it. *)
MakeUp(t, p, side) ==
  LET s == t[Other(side)][p]
      reds == (t.red \ {s, p, t[Other(side)][s]}) \cup (IF IsRed(t, p) THEN {s} ELSE {})
  IN  Rotate([t EXCEPT !.red = reds], p, side)

RemoveColor(t, p, n) ==
  LET side == IF t.left[p] = n THEN "left" ELSE "right"
      t1 == BlackSibling(t, p, side)
      s == t1[Other(side)][p]
      t2 == MakeUp(RedOuter(t1, p, side), p, side)
  IN  IF \A x \in Side : ~IsRed(t1, t1[x][s])
      THEN [tree |-> [t1 EXCEPT !.red = @ \cup {s}], parent |-> t1.parent[p], node |-> p]
      ELSE [tree |-> t2, parent |-> p, node |-> t2.root]

(* What both loops end with. *)
Blacken(t, n) == [t EXCEPT !.red = @ \ {n}]

-----------------------------------------------------------------------------
Reached(t) == {n \in Node : Last(t, n) = n}

(* Black nodes on the way from n to the root.                              *)
BlackHeight(t, n) ==
  LET up[m \in Node] ==
        (IF m \in t.red THEN 0 ELSE 1) + (IF t.parent[m] = NULL THEN 0 ELSE up[t.parent[m]])
  IN  up[n]

IsRedBlack(t) ==
  LET nodes == Reached(t)
      ends == {n \in nodes : t.left[n] = NULL \/ t.right[n] = NULL}
  IN  /\ t.red \subseteq nodes /\ t.root \notin t.red
      /\ \A n \in nodes : \A side \in Side :
           t[side][n] # NULL =>
             /\ t[side][n] \in nodes /\ t.parent[t[side][n]] = n
             /\ ~(n \in t.red /\ t[side][n] \in t.red)
      /\ t.root # NULL => t.parent[t.root] = NULL
      /\ \A m, n \in ends : BlackHeight(t, m) = BlackHeight(t, n)
=============================================================================
