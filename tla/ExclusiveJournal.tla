--------------------------- MODULE ExclusiveJournal ---------------------------
(***************************************************************************)
(* What the workflow lease promises to the journal: one holder at a time,  *)
(* and every event comes from the last to have taken the lease.  A holder  *)
(* that dies may have an event in flight, but it appears before anybody    *)
(* else takes the lease, or never.  Module WorkflowService relies on this. *)
(***************************************************************************)
EXTENDS Sequences

CONSTANTS Attempts, Nobody

VARIABLES holder, author, journal

Init == holder = Nobody /\ author = Nobody /\ journal = <<>>

Take(t) ==
    /\ holder = Nobody
    /\ holder' = t
    /\ author' = t
    /\ UNCHANGED journal

Drop == holder' = Nobody /\ UNCHANGED <<author, journal>>

Publish ==
    /\ author # Nobody
    /\ journal' = Append(journal, author)
    /\ UNCHANGED <<holder, author>>

Next == (\E t \in Attempts : Take(t)) \/ Drop \/ Publish

Spec == Init /\ [][Next]_<<holder, author, journal>>
=============================================================================
