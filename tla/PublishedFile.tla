---------------------------- MODULE PublishedFile ----------------------------
(***************************************************************************)
(* One file published by the secure-I/O helper process                     *)
(* (src/artifacts/secure-fs-helper.ts, publishFile): the helper creates a  *)
(* staging file, writes it, reports "prepared", waits for its parent's     *)
(* "commit", links the final name to the staging file, acknowledges with   *)
(* "committed" and unlinks the staging name.  The helper is a process of   *)
(* its own: it can be killed after any step, and it outlives its parent.   *)
(*                                                                         *)
(* A file is a record of its two directory entries, of whether its contents*)
(* are written and of the helper's place; the operators give the record    *)
(* after each of the helper's steps.                                       *)
(***************************************************************************)

Places == {"none", "writing", "prepared", "granted", "linked", "acknowledged", "done", "dead"}

File == [staging : BOOLEAN, final : BOOLEAN, whole : BOOLEAN, helper : Places]

NoFile == [staging |-> FALSE, final |-> FALSE, whole |-> FALSE, helper |-> "none"]

(* The staging name is created first and its contents are written later: a *)
(* helper that is killed or fails in between leaves a half-written file.   *)
Opened == [staging |-> TRUE, final |-> FALSE, whole |-> FALSE, helper |-> "writing"]
Prepared(f) == [f EXCEPT !.whole = TRUE, !.helper = "prepared"]

HalfWritten(f) == f.staging /\ ~f.whole

Running(f) == f.helper \in {"writing", "prepared", "granted", "linked", "acknowledged"}

(* The helper has reported "committed": its parent knows the file is there.*)
Acknowledged(f) == f.helper \in {"acknowledged", "done"}

(* The parent answers "prepared" with "commit".                            *)
Granted(f) == [f EXCEPT !.helper = "granted"]

(* link(temporaryName, finalName) fails when somebody removed the staging  *)
(* entry; the helper then gives up.                                        *)
Linked(f) ==
    IF f.staging THEN [f EXCEPT !.final = TRUE, !.helper = "linked"]
    ELSE [f EXCEPT !.helper = "dead"]

AcknowledgedFile(f) == [f EXCEPT !.helper = "acknowledged"]
Unstaged(f) == [f EXCEPT !.staging = FALSE, !.helper = "done"]

(* The helper is killed, or a check after its link fails.  A parent that   *)
(* was told "committed" has its answer all the same.                       *)
Killed(f) == [f EXCEPT !.helper = IF Acknowledged(f) THEN "done" ELSE "dead"]

(* The commit channel closes under a waiting helper: it takes its staging  *)
(* file away.                                                              *)
Disconnected(f) == [f EXCEPT !.staging = FALSE, !.helper = "dead"]

Removed(f) == [f EXCEPT !.staging = FALSE, !.final = FALSE]

(* What the helper may do next by itself; orphaned: its parent is dead.    *)
HelperSteps(f, orphaned) ==
    CASE f.helper = "writing"      -> {Prepared(f)}
      [] f.helper = "prepared"     -> IF orphaned THEN {Disconnected(f)} ELSE {}
      [] f.helper = "granted"      -> {Linked(f)}
      [] f.helper = "linked"       -> {AcknowledgedFile(f)}
      [] f.helper = "acknowledged" -> {Unstaged(f)}
      [] OTHER                     -> {}
=============================================================================
