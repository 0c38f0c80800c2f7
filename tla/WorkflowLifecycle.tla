-------------------------- MODULE WorkflowLifecycle --------------------------
(***************************************************************************)
(* What a durable workflow promises, whatever calls, crashes, deadlines    *)
(* and cancellations happen: its candidate changes only while work is done;*)
(* it succeeds only with a candidate that was put up for review and        *)
(* approved as it stands; once no work may follow it can only end; and the *)
(* first end is final.                                                     *)
(***************************************************************************)
EXTENDS Naturals

VARIABLES phase, candidate

Phases == {"working", "parked", "reviewing", "approved", "closing",
           "succeeded", "ended"}

Init == phase = "working" /\ candidate = 0

(* Stages run, are interrupted and run again.                              *)
Work == phase = "working" /\ phase' = "working" /\ candidate' \in Nat

(* A stage leads nowhere: the workflow will be given up.                   *)
GiveUp == phase = "working" /\ phase' = "closing" /\ UNCHANGED candidate

Park   == phase = "working" /\ phase' = "parked" /\ UNCHANGED candidate
Unpark == phase = "parked" /\ phase' = "working" /\ UNCHANGED candidate

RequestApproval ==
    phase = "working" /\ candidate # 0 /\ phase' = "reviewing" /\ UNCHANGED candidate

Approve == phase = "reviewing" /\ phase' = "approved" /\ UNCHANGED candidate
Reject  ==
    phase = "reviewing" /\ phase' \in {"working", "closing"} /\ UNCHANGED candidate

Succeed == phase = "approved" /\ phase' = "succeeded" /\ UNCHANGED candidate

End == /\ phase \notin {"succeeded", "ended"}
       /\ phase' = "ended"
       /\ UNCHANGED candidate

Next == \/ Work \/ GiveUp \/ Park \/ Unpark \/ RequestApproval
        \/ Approve \/ Reject \/ Succeed \/ End

Spec == Init /\ [][Next]_<<phase, candidate>>
=============================================================================
