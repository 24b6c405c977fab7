------------------------------ MODULE SimpleDb ------------------------------
(***************************************************************************)
(* db_simple, a database in a red-black tree: a call of set(), or destroy(),*)
(* is a step for each turn of the loops of the tree.                       *)
(***************************************************************************)
EXTENDS RbTree, Sequences

VARIABLES
  tree_pc, (* what the call is about to do; "idle" between calls           *)
  tree,
  elm,     (* the node that the loops are at                               *)
  parent,  (* and its parent, when a node was removed                      *)
  node,    (* the node that is inserted or removed                         *)
  next,    (* the node that destroy() removes after it                     *)
  freed,   (* nodes that destroy() has freed                               *)
  keys     (* the keys that are set                                        *)

tree_vars == <<tree_pc, tree, elm, parent, node, next, freed, keys>>

-----------------------------------------------------------------------------
(* set() of a value, or set_inst(). *)
insert_node(k) ==
  /\ tree_pc = "idle" /\ Find(tree, k) = NULL
  /\ tree' = Insert(tree, k)
  /\ elm' = k /\ node' = k /\ tree_pc' = "insert_color"
  /\ keys' = keys \cup {k}
  /\ UNCHANGED <<parent, next, freed>>

(* The value cannot be copied: an old value is freed and stays in the      *)
(* database, a new node is freed and stays in the tree.  What comes after  *)
(* is not defined.                                                         *)
strdup_fails ==
  /\ tree_pc \in {"idle", "inserted"}
  /\ tree_pc = "idle" => Reached(tree) # {}
  /\ tree_pc' = "broken"
  /\ UNCHANGED <<tree, elm, parent, node, next, freed, keys>>

insert_color ==
  /\ tree_pc = "insert_color"
  /\ IF InsertColored(tree, elm)
     THEN /\ tree' = Blacken(tree, tree.root) /\ tree_pc' = "inserted" /\ UNCHANGED elm
     ELSE /\ tree' = InsertColor(tree, elm).tree /\ elm' = InsertColor(tree, elm).node
          /\ UNCHANGED tree_pc
  /\ UNCHANGED <<parent, node, next, freed, keys>>

give_value ==
  /\ tree_pc = "inserted" /\ tree_pc' = "idle" /\ elm' = NULL /\ node' = NULL
  /\ UNCHANGED <<tree, parent, next, freed, keys>>

(* REMOVE(), and its colouring when a black node went. *)
remove(n, then) ==
  LET r == Remove(tree, n)
  IN  /\ tree' = r.tree /\ node' = n
      /\ elm' = r.child /\ parent' = r.parent
      /\ tree_pc' = IF r.black THEN then[1] ELSE then[2]

(* drop_node(): set() without a value *)
drop_node(k) ==
  /\ tree_pc = "idle" /\ Find(tree, k) = k
  /\ remove(k, <<"remove_color", "free_node">>)
  /\ keys' = keys \ {k}
  /\ UNCHANGED <<next, freed>>

(* Within set(), and within destroy(). *)
remove_color ==
  /\ tree_pc \in {"remove_color", "destroy_color"}
  /\ IF RemoveColored(tree, elm)
     THEN /\ tree' = Blacken(tree, elm)
          /\ tree_pc' = IF tree_pc = "remove_color" THEN "free_node" ELSE "destroy_free"
          /\ UNCHANGED <<elm, parent>>
     ELSE LET r == RemoveColor(tree, parent, elm)
          IN  tree' = r.tree /\ elm' = r.node /\ parent' = r.parent /\ UNCHANGED tree_pc
  /\ UNCHANGED <<node, next, freed, keys>>

(* What a freed node pointed to is forgotten. *)
Forget(t, n) == [t EXCEPT !.left[n] = NULL, !.right[n] = NULL, !.parent[n] = NULL]

free_node ==
  /\ tree_pc = "free_node" /\ tree_pc' = "idle"
  /\ tree' = Forget(tree, node)
  /\ elm' = NULL /\ parent' = NULL /\ node' = NULL
  /\ UNCHANGED <<next, freed, keys>>

destroy ==
  /\ tree_pc = "idle" /\ tree_pc' = "destroy"
  /\ next' = MinMax(tree, "left") /\ freed' = <<>>
  /\ UNCHANGED <<tree, elm, parent, node, keys>>

destroy_node ==
  /\ tree_pc = "destroy" /\ next # NULL
  /\ remove(next, <<"destroy_color", "destroy_free">>)
  /\ next' = Neighbour(tree, next, "right")
  /\ UNCHANGED <<freed, keys>>

destroy_free ==
  /\ tree_pc = "destroy_free" /\ tree_pc' = "destroy"
  /\ freed' = Append(freed, node)
  /\ tree' = Forget(tree, node)
  /\ elm' = NULL /\ parent' = NULL /\ node' = NULL
  /\ UNCHANGED <<next, keys>>

destroyed ==
  /\ tree_pc = "destroy" /\ next = NULL /\ tree_pc' = "destroyed"
  /\ UNCHANGED <<tree, elm, parent, node, next, freed, keys>>

TreeInit ==
  /\ tree_pc = "idle" /\ tree = Empty
  /\ elm = NULL /\ parent = NULL /\ node = NULL /\ next = NULL
  /\ freed = <<>> /\ keys = {}

TreeNext ==
  \/ \E k \in Node : insert_node(k) \/ drop_node(k)
  \/ insert_color \/ give_value \/ strdup_fails \/ remove_color \/ free_node
  \/ destroy \/ destroy_node \/ destroy_free \/ destroyed

TreeSpec == TreeInit /\ [][TreeNext]_tree_vars

-----------------------------------------------------------------------------
(* Between two calls the tree is a red-black tree of the keys that are set. *)
IsTreeOfKeys ==
  tree_pc \in {"idle", "inserted", "free_node"} => IsRedBlack(tree) /\ Reached(tree) = keys

(* The walks through it go through the keys in order.                      *)
Between(m, n) == {k \in keys : m < k /\ k < n}
WalksInOrder ==
  tree_pc = "idle" /\ keys # {} =>
    /\ \A n \in keys :
         LET m == Neighbour(tree, n, "right")
         IN  IF m = NULL THEN \A k \in keys : k <= n
             ELSE m \in keys /\ n < m /\ Between(n, m) = {} /\ Neighbour(tree, m, "left") = n
    /\ \A k \in keys : MinMax(tree, "left") <= k /\ k <= MinMax(tree, "right")

(* destroy() frees every node once, though it removes them from the tree   *)
(* that it walks through.                                                  *)
DestroyedOnce ==
  /\ \A j, k \in 1..Len(freed) : j < k => freed[j] < freed[k]
  /\ tree_pc = "destroyed" => Len(freed) = Cardinality(keys) /\ tree.root = NULL

(* Between two calls the tree of db_simple is a red-black tree of the keys *)
(* that are set, RB_NEXT(), RB_PREV(), RB_MIN() and RB_MAX() go by their   *)
(* order, and destroy() frees every node once.                             *)
TreeOfKeys == IsTreeOfKeys /\ WalksInOrder /\ DestroyedOnce
=============================================================================
