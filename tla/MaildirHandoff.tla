--------------------------- MODULE MaildirHandoff ---------------------------
(***************************************************************************)
(* The directory of foreign mails between the server, whose to_file makes  *)
(* the files, and the clients, whose maildir_handler finds them, renames   *)
(* them to <name>_P so that no other call finds them, and returns them.    *)
(*                                                                         *)
(* to_file opens a file under the name the handler looks for, and writes   *)
(* to it afterwards; a rename does not disturb the writer.                 *)
(***************************************************************************)
CONSTANTS
  File,     (* the names uuid4() makes                                     *)
  Caller    (* processes that call maildir_handler in a loop               *)

VARIABLES
  name,     (* the name each file has in the directory                     *)
  caller_pc,(* where each caller is                                        *)
  files,    (* what os.walk() listed and is not yet renamed                *)
  taken,    (* files_in_process                                            *)
  missing,  (* the file whose rename failed                                *)
  handed    (* the files its calls have returned                           *)

handoff_vars == <<name, caller_pc, files, taken, missing, handed>>

(* plain -- the name to_file gave it    marked -- <name>_P                 *)
Name == {"none", "plain", "marked"}

-----------------------------------------------------------------------------
(* to_file in the server. *)

open(f) ==
  /\ name[f] = "none"
  /\ name' = [name EXCEPT ![f] = "plain"]
  /\ UNCHANGED <<caller_pc, files, taken, missing, handed>>

-----------------------------------------------------------------------------
(* maildir_handler in a client. *)

(* Mutant of walk: the files in process are not filtered out.              *)
walk_all(c) ==
  /\ caller_pc[c] = "call"
  /\ caller_pc' = [caller_pc EXCEPT ![c] = "rename"]
  /\ files' = [files EXCEPT ![c] = {f \in File : name[f] # "none"}]
  /\ UNCHANGED <<name, taken, missing, handed>>

(* os.walk() reads the whole directory before it yields its files.         *)
walk(c) ==
  /\ caller_pc[c] = "call"
  /\ caller_pc' = [caller_pc EXCEPT ![c] = "rename"]
  /\ files' = [files EXCEPT ![c] = {f \in File : name[f] = "plain"}]
  /\ UNCHANGED <<name, taken, missing, handed>>

(* Mutant of rename: the file is taken though its name is gone.            *)
rename_blind(c, f) ==
  /\ caller_pc[c] = "rename"
  /\ f \in files[c]
  /\ name' = [name EXCEPT ![f] = "marked"]
  /\ files' = [files EXCEPT ![c] = @ \ {f}]
  /\ taken' = [taken EXCEPT ![c] = @ \cup {f}]
  /\ UNCHANGED <<caller_pc, missing, handed>>

rename(c, f) ==
  /\ caller_pc[c] = "rename"
  /\ f \in files[c]
  /\ name[f] = "plain"
  /\ name' = [name EXCEPT ![f] = "marked"]
  /\ files' = [files EXCEPT ![c] = @ \ {f}]
  /\ taken' = [taken EXCEPT ![c] = @ \cup {f}]
  /\ UNCHANGED <<caller_pc, missing, handed>>

(* FileNotFoundError ends the caller, with the files it has taken.         *)
rename_fails(c, f) ==
  /\ caller_pc[c] = "rename"
  /\ f \in files[c]
  /\ name[f] # "plain"
  /\ caller_pc' = [caller_pc EXCEPT ![c] = "ended"]
  /\ missing' = [missing EXCEPT ![c] = {f}]
  /\ UNCHANGED <<name, files, taken, handed>>

(* Mutant of return: a call goes on until it has found a file, without     *)
(* looking at the directory again.                                         *)
return_found(c) ==
  /\ caller_pc[c] = "rename"
  /\ files[c] = {}
  /\ taken[c] # {}
  /\ caller_pc' = [caller_pc EXCEPT ![c] = "call"]
  /\ handed' = [handed EXCEPT ![c] = @ \cup taken[c]]
  /\ taken' = [taken EXCEPT ![c] = {}]
  /\ UNCHANGED <<name, files, missing>>

return(c) ==
  /\ caller_pc[c] = "rename"
  /\ files[c] = {}
  /\ caller_pc' = [caller_pc EXCEPT ![c] = "call"]
  /\ handed' = [handed EXCEPT ![c] = @ \cup taken[c]]
  /\ taken' = [taken EXCEPT ![c] = {}]
  /\ UNCHANGED <<name, files, missing>>

maildir_handler(c) ==
  walk(c) \/ return(c) \/ \E f \in File : rename(c, f) \/ rename_fails(c, f)

(* The client is killed or interrupted.                                    *)
Kill(c) ==
  /\ caller_pc[c] # "ended"
  /\ caller_pc' = [caller_pc EXCEPT ![c] = "ended"]
  /\ UNCHANGED <<name, files, taken, missing, handed>>

-----------------------------------------------------------------------------
HandoffInit ==
  /\ name = [f \in File |-> "none"]
  /\ caller_pc = [c \in Caller |-> "call"]
  /\ files = [c \in Caller |-> {}]
  /\ taken = [c \in Caller |-> {}]
  /\ missing = [c \in Caller |-> {}]
  /\ handed = [c \in Caller |-> {}]

HandoffNext ==
  \/ \E f \in File : open(f)
  \/ \E c \in Caller : maildir_handler(c) \/ Kill(c)

(* The callers call in a loop.                                             *)
HandoffSpec ==
  /\ HandoffInit /\ [][HandoffNext]_handoff_vars
  /\ \A c \in Caller : WF_handoff_vars(maildir_handler(c))

-----------------------------------------------------------------------------
(* The variables keep their types. *)
HandoffTypeOK ==
  /\ name \in [File -> Name]
  /\ caller_pc \in [Caller -> {"call", "rename", "ended"}]
  /\ files \in [Caller -> SUBSET File] /\ taken \in [Caller -> SUBSET File]
  /\ missing \in [Caller -> SUBSET File] /\ handed \in [Caller -> SUBSET File]

(* The comment on maildir_handler: "returns a list of files which are not  *)
(* in process yet".  No file is with two callers, and none that a call has *)
(* returned is taken again.                                                *)
HandedOnce ==
  /\ \A c \in Caller : taken[c] \cap handed[c] = {}
  /\ \A c, d \in Caller : c # d =>
       (taken[c] \cup handed[c]) \cap (taken[d] \cup handed[d]) = {}

(* A rename fails only because another caller was faster: a caller that is *)
(* alone is never ended by FileNotFoundError.                              *)
MissingIsElsewhere ==
  \A c \in Caller : \A f \in missing[c] :
    \E d \in Caller \ {c} : f \in taken[d] \cup handed[d]

(* A mail does not stay unseen: as long as a caller lives, a file that     *)
(* to_file made is taken in the end, whatever becomes of the other callers.*)
EveryFileTaken ==
  \A f \in File :
    name[f] = "plain" ~> (name[f] = "marked" \/ \A c \in Caller : caller_pc[c] = "ended")

=============================================================================
