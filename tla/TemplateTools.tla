---------------------------- MODULE TemplateTools ----------------------------
(***************************************************************************)
(* The programs of cfsm_lib: cfsm compiles a state machine into a source,  *)
(* a header or a graph by templates, xtc renders one template.  What they  *)
(* have to keep right is which text goes to which file.                    *)
(***************************************************************************)
EXTENDS Integers, Sequences, FiniteSets, SequencesExt

CONSTANT Options   (* bound: options of a command line                     *)

ToolAssumption == Options \in Nat

(* The texts, each made by a template of its own.                          *)
Kind == {"dot", "src", "hdr", "man"}

(* Names for -o: "-" is the standard output. *)
Out == {"-", "x.c", "x.h"}
Path == {"x.c", "x.h", "fsm.c", "fsm.h", "fsm.dot"}

VARIABLES
  program,  (* cfsm or xtc                                                 *)
  doing,    (* what it is about to do                                      *)
  given,    (* the options so far                                          *)
  flag,     (* output_dot, output_src, output_header, manual_arg           *)
  out_arg,  (* the argument of -o                                          *)
  todo,     (* the texts that are still to be rendered, with their files   *)
  file,     (* what each file has: "old" before it is written              *)
  stdout,   (* whole texts on the standard output                          *)
  lost      (* the kinds of text whose end was lost at fclose()            *)

tool_vars == <<program, doing, given, flag, out_arg, todo, file, stdout, lost>>

NoName == "NULL"

-----------------------------------------------------------------------------

(* The options of cfsm.                                                    *)
set_flag(o) ==
  CASE o = "D" -> [flag EXCEPT !.src = FALSE, !.hdr = TRUE]
    [] o = "d" -> [flag EXCEPT !.hdr = TRUE]
    [] o = "g" -> [flag EXCEPT !.src = FALSE, !.dot = TRUE]
    [] o = "m" -> [flag EXCEPT !.src = FALSE, !.man = TRUE]

getopt ==
  /\ doing = "options" /\ Len(given) < Options
  /\ \/ \E o \in {"D", "d", "g", "m"} :
          /\ program = "cfsm"
          /\ flag' = set_flag(o) /\ given' = Append(given, o) /\ UNCHANGED out_arg
     \/ \E o \in Out : out_arg' = o /\ given' = Append(given, o) /\ UNCHANGED flag
  /\ UNCHANGED <<program, doing, todo, file, stdout, lost>>

GivesUp ==
  /\ doing' = "failed"
  /\ UNCHANGED <<program, given, flag, out_arg, todo, file, stdout, lost>>

(* An option that is unknown, or a definition of xtc that is refused.      *)
bad_option == doing = "options" /\ GivesUp

(* -h *)
help ==
  /\ doing = "options" /\ doing' = "helped"
  /\ UNCHANGED <<program, given, flag, out_arg, todo, file, stdout, lost>>

Usage ==
  \/ Cardinality({k \in {"dot", "hdr", "man"} : flag[k]}) > 1
  \/ flag.man /\ out_arg = NoName
  \/ flag.src /\ flag.hdr /\ out_arg = "-"

(* Mutant of Header: the header goes to the name that was given.           *)
Header_given == IF out_arg = NoName THEN "fsm.h" ELSE out_arg

(* The name of a source is changed into that of its header. *)
Header ==
  IF flag.src /\ out_arg = "x.c" THEN "x.h"
  ELSE IF out_arg = NoName THEN "fsm.h" ELSE out_arg

(* In the order in which main() renders them; one of dot and man is given  *)
(* alone.                                                                  *)
Jobs ==
  LET default(name) == IF out_arg = NoName THEN name ELSE out_arg
      job(kind, name) == IF flag[kind] THEN <<[kind |-> kind, path |-> name]>> ELSE <<>>
  IN  IF program = "xtc" THEN <<[kind |-> "man", path |-> default("-")]>>
      ELSE job("dot", default("fsm.dot")) \o job("src", default("fsm.c"))
           \o job("hdr", Header) \o job("man", out_arg)

(* The checks of the options, then the description of the machine, or the  *)
(* template of xtc, is read and parsed.                                    *)
options_end ==
  /\ doing = "options"
  /\ IF program = "cfsm" /\ Usage
     THEN GivesUp
     ELSE /\ doing' = "input"
          /\ UNCHANGED <<program, given, flag, out_arg, todo, file, stdout, lost>>

yyparse ==
  /\ doing = "input"
  /\ \/ GivesUp
     \/ /\ doing' = "template" /\ todo' = Jobs
        /\ UNCHANGED <<program, given, flag, out_arg, file, stdout, lost>>

-----------------------------------------------------------------------------
(* render_template() *)

Written(whole) ==
  IF todo[1].path = "-"
  THEN /\ stdout' = IF whole THEN Append(stdout, todo[1].kind) ELSE stdout
       /\ UNCHANGED file
  ELSE /\ file' = [file EXCEPT ![todo[1].path] = [kind |-> todo[1].kind, whole |-> whole]]
       /\ UNCHANGED stdout

(* The template is read and parsed; that of xtc already is. *)
read_template ==
  /\ doing = "template"
  /\ \/ program = "cfsm" /\ GivesUp
     \/ /\ doing' = "output"
        /\ UNCHANGED <<program, given, flag, out_arg, todo, file, stdout, lost>>

(* fopen(): the file is empty now. *)
fopen ==
  /\ doing = "output"
  /\ \/ todo[1].path # "-" /\ GivesUp
     \/ /\ doing' = "run" /\ Written(FALSE)
        /\ UNCHANGED <<program, given, flag, out_arg, todo, lost>>

(* The text is put into the buffer of the stream, whose end is written by  *)
(* fclose(), or by exit() for the standard output: nobody looks whether    *)
(* that fails, as it does when the disk is full, and the program goes on.  *)
mtemplate_run_stdio ==
  /\ doing = "run"
  /\ \/ GivesUp
     \/ /\ \E whole \in BOOLEAN :
             /\ Written(whole)
             /\ lost' = lost \cup (IF whole THEN {} ELSE {todo[1].kind})
        /\ todo' = Tail(todo)
        /\ doing' = IF Len(todo) = 1 THEN "done" ELSE "template"
        /\ UNCHANGED <<program, given, flag, out_arg>>

ToolInit ==
  /\ program \in {"cfsm", "xtc"} /\ doing = "options"
  /\ given = <<>> /\ out_arg = NoName /\ todo = <<>> /\ stdout = <<>> /\ lost = {}
  /\ flag = [k \in Kind |-> k = "src"]
  /\ file = [p \in Path |-> [kind |-> "old", whole |-> TRUE]]

ToolNext ==
  \/ getopt \/ bad_option \/ help \/ options_end \/ yyparse
  \/ read_template \/ fopen \/ mtemplate_run_stdio

ToolSpec == ToolInit /\ [][ToolNext]_tool_vars

-----------------------------------------------------------------------------
Text(kind) ==
  {p \in Path : file[p] = [kind |-> kind, whole |-> TRUE]}
    \cup {p \in {"-"} : kind \in ToSet(stdout)}

(* What the options ask for, in whatever order they are given.             *)
Asked ==
  LET gs == ToSet(given)
  IN  IF program = "xtc" THEN {"man"}
      ELSE (IF gs \cap {"D", "g", "m"} = {} THEN {"src"} ELSE {})
           \cup (IF gs \cap {"D", "d"} = {} THEN {} ELSE {"hdr"})
           \cup (IF "g" \in gs THEN {"dot"} ELSE {}) \cup (IF "m" \in gs THEN {"man"} ELSE {})

(* A header made with its source under a name that is not *.c replaces it. *)
Replaced == Asked = {"src", "hdr"} /\ out_arg = "x.h"

ToolTypeOK ==
  /\ program \in {"cfsm", "xtc"}
  /\ doing \in {"options", "input", "template", "output", "run", "done", "helped", "failed"}
  /\ given \in Seq({"D", "d", "g", "m"} \cup Out) /\ Len(given) <= Options
  /\ flag \in [Kind -> BOOLEAN] /\ out_arg \in Out \cup {NoName}
  /\ todo \in Seq([kind : Kind, path : Path \cup {"-"}]) /\ stdout \in Seq(Kind)
  /\ lost \subseteq Kind
  /\ file \in [Path -> [kind : Kind \cup {"old"}, whole : BOOLEAN]]

(* A program that ends well has made the texts that were asked for and no  *)
(* others, each in one place, and no two in the same.  A text whose end    *)
(* fclose() lost is nowhere whole, although the program ends well: it cuts *)
(* no file but its own.                                                    *)
TextsMade ==
  doing = "done" =>
    /\ Len(stdout) <= 1
    /\ \A k \in Kind : Cardinality(Text(k)) =
         IF k \in Asked \ lost /\ ~(k = "src" /\ Replaced) THEN 1 ELSE 0
    /\ \A p \in Path : file[p].whole \/ file[p].kind \in lost

(* A program that fails leaves no file broken, unless it is the rendering  *)
(* itself that fails: a template that is missing or cannot be parsed costs *)
(* neither the file that was there before nor what was made already, be it *)
(* whole or with its end lost.                                             *)
FailKeepsOld ==
  [][doing' = "failed" /\ doing # "run" =>
       \A p \in Path : file'[p].whole \/ file'[p].kind \in lost']_tool_vars

(* cfsm and xtc write the texts that their options ask for, each to its    *)
(* own place and no other, and fail without harm to the files unless they  *)
(* fail at writing.  It is no promise that a text is whole when the        *)
(* program ends well: the result of fclose() is ignored.                   *)
MadeWhatWasAsked == [](ToolTypeOK /\ TextsMade) /\ FailKeepsOld
=============================================================================
