----------------------------- MODULE Mtemplate -----------------------------
(***************************************************************************)
(* libmtemplate: mtemplate_parse() makes a tree of a template, and         *)
(* mtemplate_run_nodes() writes the tree with the objects of a namespace.  *)
(*                                                                         *)
(* A template is a sequence of texts and directives.  Each activation of   *)
(* mtemplate_run_nodes() is an element of stack.                           *)
(***************************************************************************)
EXTENDS Integers, Sequences, SequencesExt

CONSTANTS
  Template,  (* the directives and texts of templates: see Token           *)
  Length,    (* bound: how many of them a template has, but for comments    *)
  LoopVar,   (* names of loop variables                                     *)
  Object,    (* the objects of the namespace, and those in them             *)
  Namespace  (* objects by name                                             *)

VARIABLES
  phase,   (* parsing, parsed (and running), done, failed                  *)
  parsed,  (* what was parsed, but for comments                            *)
  nodes,   (* the nodes; the first is the root                             *)
  parent,  (* the block that is open                                       *)
  activep, (* the list that grows: a node, and whether it is its else part *)
  stack,   (* activations of mtemplate_run_nodes()                         *)
  out,     (* what was written                                             *)
  starved  (* a loop ended early, without memory for a key                 *)

parse_vars == <<parsed, nodes, parent, activep>>
template_vars == <<phase, parse_vars, stack, out, starved>>

(* {{kind}} with what it refers to; a loop has a variable, too.  "error"   *)
(* is a directive that is not terminated, empty, or none.  classify_node() *)
(* compares the start of a directive only: {{elsewhere}} is an else.       *)
(* {{text...}}, a node that has no text to be written, is left out.        *)
NodeType ==
  {"text", "if", "else", "endif", "for", "endfor", "subst", "comment", "error"}
Token(kind) == [kind |-> kind, ref |-> <<>>, var |-> "none"]

(* A directive names a loop variable by its key or its value only: the     *)
(* dictionary of the two is not among the objects.                         *)
ASSUME TemplateAssumption ==
  /\ \A token \in Template :
       /\ token.kind \in NodeType
       /\ token.kind \in {"else", "endif", "endfor"} => token = Token(token.kind)
       /\ token.kind = "for" => token.var \in LoopVar
       /\ Len(token.ref) = 1 => token.ref[1] \notin LoopVar
  /\ \A name \in DOMAIN Namespace : Namespace[name] \in Object
  /\ \A o \in Object : o.type = "MARRAY" => o.items \in Seq(Object)

Node(token, p) ==
  [token |-> token, parent |-> p, in_else |-> FALSE, child_nodes |-> <<>>, child_nodes_else |-> <<>>]

-----------------------------------------------------------------------------
(* mtemplate_parse() *)

(* node_info[].parent *)
Expected(kind) ==
  CASE kind \in {"else", "endif"} -> "if" [] kind = "endfor" -> "for" [] OTHER -> "none"

kind_of(n) == nodes[n].token.kind

Refused(token) ==
  \/ token.kind = "error"
  \/ Expected(token.kind) \notin {"none", kind_of(parent)}
  \/ token.kind = "else" /\ nodes[parent].in_else

insert_tail(token) ==
  LET new == Len(nodes) + 1
      list == IF activep[2]
              THEN [nodes EXCEPT ![activep[1]].child_nodes_else = Append(@, new)]
              ELSE [nodes EXCEPT ![activep[1]].child_nodes = Append(@, new)]
  IN  nodes' = Append(list, Node(token, parent))

(* Mutant of ascend: the else part of the block around is forgotten.       *)
ascend_plain(p) == activep' = <<p, FALSE>>

(* After endif and endfor: back to the block around, and to its else part  *)
(* if that has begun.                                                      *)
ascend(p) == activep' = <<p, kind_of(p) = "if" /\ nodes[p].in_else>>

parse_directive(token) ==
  CASE token.kind = "else" ->
         /\ nodes' = [nodes EXCEPT ![parent].in_else = TRUE]
         /\ activep' = <<parent, TRUE>>
         /\ UNCHANGED parent
    [] token.kind \in {"endif", "endfor"} ->
         /\ ascend(nodes[parent].parent)
         /\ parent' = nodes[parent].parent
         /\ UNCHANGED nodes
    [] token.kind \in {"if", "for"} ->
         /\ insert_tail(token)
         /\ activep' = <<Len(nodes) + 1, FALSE>>
         /\ parent' = Len(nodes) + 1
    [] token.kind = "comment" ->
         UNCHANGED <<nodes, activep, parent>>
    [] OTHER ->
         insert_tail(token) /\ UNCHANGED <<activep, parent>>

mtemplate_parse(token) ==
  /\ phase = "parsing" /\ Len(parsed) < Length
  /\ IF Refused(token)
     THEN phase' = "failed" /\ UNCHANGED parse_vars
     ELSE /\ parse_directive(token)
          /\ parsed' = IF token.kind = "comment" THEN parsed ELSE Append(parsed, token)
          /\ UNCHANGED phase
  /\ UNCHANGED <<stack, out, starved>>

NoObject == [type |-> "NULL"]
IntKey(k) == [type |-> "MINT", value |-> k]

(* A local namespace has the key and the value of each loop variable, or   *)
(* neither yet.                                                            *)
Bindable == {NoObject} \cup [type : {"MINT"}, value : Nat] \cup Object
Locals == [LoopVar -> [key : Bindable, value : Bindable]]
NoLocals == [v \in LoopVar |-> [key |-> NoObject, value |-> NoObject]]

(* An activation: the nodes to be done, the local namespace, and for the   *)
(* body of a loop what its iterator has still to yield.                    *)
Activation(list, local) == [todo |-> list, local |-> local, loop |-> 0, items |-> <<>>, key |-> 0]

parse_end ==
  /\ phase = "parsing"
  /\ IF parent # 1
     THEN phase' = "failed" /\ UNCHANGED stack
     ELSE phase' = "parsed" /\ stack' = <<Activation(nodes[1].child_nodes, NoLocals)>>
  /\ UNCHANGED <<parse_vars, out, starved>>

-----------------------------------------------------------------------------
(* mtemplate_run_nodes() *)

LookupLocal(local, ref) ==
  IF Len(ref) = 1 \/ ref[1] \notin LoopVar THEN NoObject
  ELSE IF ref[2] = "key" THEN local[ref[1]].key ELSE local[ref[1]].value

(* fetch_var() *)
fetch_var(local, ref) ==
  IF LookupLocal(local, ref) # NoObject THEN LookupLocal(local, ref)
  ELSE IF Len(ref) = 1 /\ ref[1] \in DOMAIN Namespace THEN Namespace[ref[1]] ELSE NoObject

mobject_as_boolean(o) ==
  \/ o.type = "MARRAY" /\ o.items # <<>>
  \/ o.type = "MSTRING" /\ o.text # ""
  \/ o.type = "MINT" /\ o.value # 0

(* render_mobject(): a string is its text, anything else what              *)
(* mobject_to_string() says of it.                                         *)
render_mobject(o) == IF o.type = "MSTRING" THEN o.text ELSE o.type

(* The loop variable of a frame is set. *)
Bound(local, name, k, v) == [local EXCEPT ![name] = [key |-> k, value |-> v]]

top == Head(stack)
passed(a) == [a EXCEPT !.todo = Tail(@)]
Node1 == nodes[Head(top.todo)]

fails ==
  /\ phase' = "failed" /\ stack' = <<>>
  /\ UNCHANGED <<parse_vars, out, starved>>

text ==
  /\ Node1.token.kind = "text"
  /\ out' = Append(out, "text")
  /\ stack' = <<passed(top)>> \o Tail(stack)
  /\ UNCHANGED <<phase, parse_vars, starved>>

directive_if ==
  /\ Node1.token.kind = "if"
  /\ LET o == fetch_var(top.local, Node1.token.ref)
     IN  IF o = NoObject THEN fails
         ELSE /\ stack' = <<Activation(IF mobject_as_boolean(o) THEN Node1.child_nodes
                                       ELSE Node1.child_nodes_else, top.local),
                            passed(top)>> \o Tail(stack)
              /\ UNCHANGED <<phase, parse_vars, out, starved>>

(* The loop has a copy of the local namespace of its own. *)
directive_for ==
  /\ Node1.token.kind = "for"
  /\ LET o == fetch_var(top.local, Node1.token.ref)
     IN  IF o.type # "MARRAY" THEN fails
         ELSE /\ stack' = <<[Activation(<<>>, Bound(top.local, Node1.token.var, NoObject, NoObject)) EXCEPT
                               !.loop = Head(top.todo), !.items = o.items],
                            passed(top)>> \o Tail(stack)
              /\ UNCHANGED <<phase, parse_vars, out, starved>>

directive_subst ==
  /\ Node1.token.kind = "subst"
  /\ LET o == fetch_var(top.local, Node1.token.ref)
     IN  IF o = NoObject THEN fails
         ELSE /\ out' = Append(out, render_mobject(o))
              /\ stack' = <<passed(top)>> \o Tail(stack)
              /\ UNCHANGED <<phase, parse_vars, starved>>

(* do_loop(): the next item becomes the value of the variable. *)
do_loop(a) ==
  [a EXCEPT !.todo = nodes[a.loop].child_nodes,
            !.local = Bound(@, nodes[a.loop].token.var, IntKey(a.key), Head(a.items)),
            !.items = Tail(@), !.key = @ + 1]

run_next ==
  /\ phase = "parsed" /\ stack # <<>>
  /\ IF top.todo # <<>>
     THEN text \/ directive_if \/ directive_for \/ directive_subst
     ELSE /\ stack' = IF top.items # <<>> THEN <<do_loop(top)>> \o Tail(stack) ELSE Tail(stack)
          /\ UNCHANGED <<phase, parse_vars, out, starved>>

(* miterator_next() has no memory for the key of the next item: as far as  *)
(* the loop can see there is none.                                         *)
loop_starves ==
  /\ phase = "parsed" /\ stack # <<>> /\ top.todo = <<>> /\ top.items # <<>>
  /\ stack' = Tail(stack) /\ starved' = TRUE
  /\ UNCHANGED <<phase, parse_vars, out>>

(* No memory elsewhere, or out_cb() fails. *)
run_fails == phase = "parsed" /\ stack # <<>> /\ fails

run_end ==
  /\ phase = "parsed" /\ stack = <<>>
  /\ phase' = "done"
  /\ UNCHANGED <<parse_vars, stack, out, starved>>

-----------------------------------------------------------------------------
TemplateInit ==
  /\ phase = "parsing" /\ parsed = <<>>
  /\ nodes = <<Node(Token("root"), 0)>> /\ parent = 1 /\ activep = <<1, FALSE>>
  /\ stack = <<>> /\ out = <<>> /\ starved = FALSE

TemplateNext ==
  \/ (\E token \in Template : mtemplate_parse(token)) \/ parse_end
  \/ run_next \/ loop_starves \/ run_fails \/ run_end

TemplateSpec == TemplateInit /\ [][TemplateNext]_template_vars

-----------------------------------------------------------------------------
(* The blocks that are open: the least set that has parent, and the block  *)
(* around each of its blocks.                                              *)
Upward(S) == parent \in S /\ \A n \in S \ {1} : nodes[n].parent \in S
Open == {n \in DOMAIN nodes : \A S \in SUBSET DOMAIN nodes : Upward(S) => n \in S}

(* A node as a template again, if w are those below it; an open block has  *)
(* no end yet.                                                             *)
AsText(list, w) == FlattenSeq([i \in DOMAIN list |-> w[list[i]]])

Tag(n) == IF n = 1 THEN <<>> ELSE <<nodes[n].token>>
ElseTag(n) == IF nodes[n].in_else THEN <<Token("else")>> ELSE <<>>
EndTag(n) ==
  IF kind_of(n) \notin {"if", "for"} \/ n \in Open THEN <<>>
  ELSE <<Token(IF kind_of(n) = "if" THEN "endif" ELSE "endfor")>>

NodeText(w, n) ==
  Tag(n) \o AsText(nodes[n].child_nodes, w)
    \o (ElseTag(n) \o AsText(nodes[n].child_nodes_else, w) \o EndTag(n))

Rewritten == LET w[n \in DOMAIN nodes] == NodeText(w, n) IN w

(* The tree is the template that was parsed, but for comments: every part  *)
(* is in the block, and on the side of its else, where it was written.     *)
TreeIsTemplate == Rewritten[1] = parsed

(* What a node writes in a local namespace, if w is what those below it    *)
(* write: the nodes of a list write one after the other, and so do the     *)
(* turns of a loop.                                                        *)
InTurn(list, w, local) == FlattenSeq([i \in DOMAIN list |-> w[list[i]][local]])

TurnsOf(n, w, local, items, key) ==
  FlattenSeq([i \in DOMAIN items |->
                InTurn(nodes[n].child_nodes, w,
                       Bound(local, nodes[n].token.var, IntKey(key + i - 1), items[i]))])

Writes(w, n, local) ==
  LET o == fetch_var(local, nodes[n].token.ref)
  IN  CASE n = 1 -> InTurn(nodes[n].child_nodes, w, local)
        [] kind_of(n) = "text" -> <<"text">>
        [] kind_of(n) = "subst" -> <<render_mobject(o)>>
        [] kind_of(n) = "if" -> InTurn(IF mobject_as_boolean(o) THEN nodes[n].child_nodes
                                       ELSE nodes[n].child_nodes_else, w, local)
        [] kind_of(n) = "for" /\ o.type = "MARRAY" -> TurnsOf(n, w, local, o.items, 0)
        [] OTHER -> <<>>

Meaning == LET w[n \in DOMAIN nodes] == [local \in Locals |-> Writes(w, n, local)] IN w

(* The nodes that mtemplate_parse() makes are the template, and a run that *)
(* succeeds has written what they mean, if no loop ended for want of       *)
(* memory: each loop had its variable to itself, and the one around it had *)
(* its own again after.                                                    *)
Rendered ==
  /\ TreeIsTemplate
  /\ phase = "done" /\ ~starved => out = Meaning[1][NoLocals]
=============================================================================
