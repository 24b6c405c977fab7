------------------------------- MODULE LibsMC -------------------------------
(***************************************************************************)
(* Instances for TLC of the objects, the name space and the templates of   *)
(* cfsm_lib, of its programs, and of the server whose machine cfsm makes,  *)
(* one of them at a time: the others rest in an initial state.             *)
(***************************************************************************)
EXTENDS Session, Mobject, Mnamespace, Mtemplate, TemplateTools, TLC

VARIABLES
  part   (* the part that this behaviour is about; the others are those of  *)
         (* the modules                                                     *)

vars == <<part, object_vars, space_vars, template_vars, tool_vars, session_vars>>

-----------------------------------------------------------------------------
(* The bounds. *)

(* Nothing that is checked tells one object from another. *)
Symmetry == Permutations(Id)

ASSUME ObjectAssumption
ASSUME SpaceAssumption
ASSUME ToolAssumption

(* rows = [["a", "b"], ["c"]], and an array that is empty. *)
String(t) == [type |-> "MSTRING", text |-> t]
Array(items) == [type |-> "MARRAY", items |-> items]

Names ==
  [rows  |-> Array(<<Array(<<String("a"), String("b")>>), Array(<<String("c")>>)>>),
   empty |-> Array(<<>>)]

(* The objects and those in them.                                          *)
Objects ==
  LET rows == Range(Names.rows.items)
  IN  {Names.rows, Names.empty} \cup rows \cup UNION {Range(row.items) : row \in rows}

Plain(kind) == [kind |-> kind, ref |-> <<>>, var |-> "none"]
About(kind, ref, var) == [kind |-> kind, ref |-> ref, var |-> var]

Directive ==
  {Plain(kind) : kind \in {"text", "else", "endif", "endfor", "comment", "error"}}
    \cup {About("if", <<"rows">>, "none"), About("if", <<"empty">>, "none"),
          About("for", <<"rows">>, "v"), About("for", <<"v", "value">>, "v"),
          About("for", <<"v", "value">>, "w"), About("subst", <<"v", "value">>, "none")}

Part == {"object", "space", "template", "tool", "session"}

Init ==
  /\ part \in Part
  /\ ObjectInit /\ SpaceInit /\ TemplateInit /\ ToolInit /\ SessionInit
  /\ part = "tool" \/ program = "cfsm"

Next ==
  /\ UNCHANGED part
  /\ IF part = "object" THEN ObjectNext ELSE UNCHANGED object_vars
  /\ IF part = "space" THEN SpaceNext ELSE UNCHANGED space_vars
  /\ IF part = "template" THEN TemplateNext ELSE UNCHANGED template_vars
  /\ IF part = "tool" THEN ToolNext ELSE UNCHANGED tool_vars
  /\ IF part = "session" THEN SessionNext ELSE UNCHANGED session_vars

Spec == Init /\ [][Next]_vars
=============================================================================
