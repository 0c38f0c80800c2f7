---------------------------- MODULE RepositoryLock ----------------------------
(***************************************************************************)
(* The lease on a repository (src/lib/repository-lock.ts): a lock file that*)
(* is created exclusively, a record of its owner written into it, and a    *)
(* contender that renames a lock it found stale out of the way.            *)
(*                                                                         *)
(* An attempt is one call of acquireRepositoryLease with its own token, in *)
(* a server process of its own.  The steps of an attempt are the file      *)
(* operations it awaits.                                                   *)
(***************************************************************************)
EXTENDS Naturals

CONSTANTS
    Attempts,
    Remote,     \* the attempts made on another host than the rest
    Slow,       \* the attempts whose lock file may reach an age limit
    MaxTries,   \* maxAcquireAttempts
    Nobody

ASSUME AttemptsAssumption ==
    Remote \subseteq Attempts /\ Slow \subseteq Attempts /\ Nobody \notin Attempts
ASSUME TriesAssumption == MaxTries \in Nat \ {0}

VARIABLES
    owner,     \* whose lock file stands at the lock path, or Nobody
    complete,  \* the attempts that have written their record
    old,       \* the attempts whose lock file is past its age limit: 30 s
               \* while it is incomplete, 24 h once it has its record
    alive,     \* the attempts whose process lives
    attempt,   \* what each attempt is doing
    robbed     \* history: attempts whose file somebody else took away

vars == <<owner, complete, old, alive, attempt, robbed>>

Points == {"idle", "open", "write", "inspect", "reclaim", "holding", "unlink",
           "busy", "failed", "released"}

(* record, file: what reading and stating the lock file gave.              *)
Attempt == [pc : Points, record : Attempts \cup {Nobody}, file : {"missing", "fresh", "old"},
            read : BOOLEAN, stated : BOOLEAN, tries : 0..MaxTries]

At(t, pc) == alive[t] /\ attempt[t].pc = pc
Become(t, k) == attempt' = [attempt EXCEPT ![t] = k]

Start == [pc |-> "idle", record |-> Nobody, file |-> "missing", read |-> FALSE,
          stated |-> FALSE, tries |-> 0]
Goto(t, pc) == Become(t, [Start EXCEPT !.pc = pc, !.tries = attempt[t].tries])

Holding(t) == At(t, "holding") \/ At(t, "unlink")

Init ==
    /\ owner = Nobody
    /\ complete = {}
    /\ old = {}
    /\ alive = [t \in Attempts |-> TRUE]
    /\ attempt = [t \in Attempts |-> Start]
    /\ robbed = {}

(* The file at the lock path is gone, whoever it belongs to.               *)
Displaced(t) ==
    /\ owner' = Nobody
    /\ robbed' = robbed \cup ({owner} \ {t, Nobody})

Begin(t) ==
    /\ At(t, "idle")
    /\ Goto(t, "open")
    /\ UNCHANGED <<owner, complete, old, alive, robbed>>

PathIsFree == owner = Nobody

(* open(lockPath, 'wx')                                                    *)
Open(t) ==
    /\ At(t, "open")
    /\ IF PathIsFree
       THEN owner' = t /\ Goto(t, "write")
       ELSE Goto(t, "inspect") /\ UNCHANGED owner
    /\ UNCHANGED <<complete, old, alive, robbed>>

(* The record goes into the file of the open handle, wherever it is now.   *)
Write(t) ==
    /\ At(t, "write")
    /\ Goto(t, "holding")
    /\ complete' = complete \cup {t}
    /\ old' = old \ {t}
    /\ UNCHANGED <<owner, alive, robbed>>

WriteFails(t) ==
    /\ At(t, "write")
    /\ Goto(t, "failed")
    /\ Displaced(t)
    /\ UNCHANGED <<complete, old, alive>>

(* readLockState: read and stat run side by side.                          *)
ReadRecord(t) ==
    /\ At(t, "inspect")
    /\ ~attempt[t].read
    /\ Become(t, [attempt[t] EXCEPT !.read = TRUE,
                      !.record = IF owner \in complete THEN owner ELSE Nobody])
    /\ UNCHANGED <<owner, complete, old, alive, robbed>>

StatLock(t) ==
    /\ At(t, "inspect")
    /\ ~attempt[t].stated
    /\ Become(t, [attempt[t] EXCEPT !.stated = TRUE,
                      !.file = IF owner = Nobody THEN "missing"
                               ELSE IF owner \in old THEN "old" ELSE "fresh"])
    /\ UNCHANGED <<owner, complete, old, alive, robbed>>

(* Mutant: an incomplete lock counts as live, however old it is.           *)
LiveIncomplete(t) ==
    LET u == attempt[t].record
    IN  IF attempt[t].file = "missing" \/ u = Nobody THEN attempt[t].file # "missing"
        ELSE IF t \in Remote <=> u \in Remote THEN alive[u]
        ELSE u \notin old

(* isLiveLockState.  If stat finds no file, what was read is forgotten.    *)
Live(t) ==
    LET u == attempt[t].record
    IN  IF attempt[t].file = "missing" \/ u = Nobody THEN attempt[t].file = "fresh"
        ELSE IF t \in Remote <=> u \in Remote THEN alive[u]
        ELSE u \notin old

Judge(t) ==
    /\ At(t, "inspect")
    /\ attempt[t].stated
    /\ attempt[t].read \/ attempt[t].file = "missing"
    /\ Goto(t, IF Live(t) THEN "busy" ELSE "reclaim")
    /\ UNCHANGED <<owner, complete, old, alive, robbed>>

LastTry(t) == attempt[t].tries + 1 = MaxTries

(* Rename whatever is at the lock path, remove it, and try again.          *)
Reclaim(t) ==
    /\ At(t, "reclaim")
    /\ Displaced(t)
    /\ Become(t, [attempt[t] EXCEPT !.tries = @ + 1,
                      !.pc = IF LastTry(t) THEN "busy" ELSE "open"])
    /\ UNCHANGED <<complete, old, alive>>

(* releaseIfOwned: read the record, then unlink.                           *)
ReadOwn(t) ==
    /\ At(t, "holding")
    /\ Goto(t, IF owner = t THEN "unlink" ELSE "released")
    /\ UNCHANGED <<owner, complete, old, alive, robbed>>

Unlink(t) ==
    /\ At(t, "unlink")
    /\ Displaced(t)
    /\ Goto(t, "released")
    /\ UNCHANGED <<complete, old, alive>>

Crash(t) ==
    /\ alive[t]
    /\ attempt[t].pc # "idle"
    /\ alive' = [alive EXCEPT ![t] = FALSE]
    /\ Become(t, Start)
    /\ UNCHANGED <<owner, complete, old, robbed>>

(* Time passes.                                                            *)
Age(t) ==
    /\ t = owner \/ \E u \in Attempts : attempt[u].record = t
    /\ t \in Slow \ old
    /\ old' = old \cup {t}
    /\ UNCHANGED <<owner, complete, alive, attempt, robbed>>

Steps(t) ==
    \/ Open(t) \/ Write(t) \/ ReadRecord(t) \/ StatLock(t) \/ Judge(t) \/ Reclaim(t)

Next == \E t \in Attempts :
    \/ Begin(t) \/ Steps(t) \/ WriteFails(t) \/ ReadOwn(t) \/ Unlink(t) \/ Crash(t) \/ Age(t)

Spec == Init /\ [][Next]_vars

(* The steps of a live process run on.                                     *)
FairSpec == Spec /\ \A t \in Attempts : WF_vars(Steps(t))

(***************************************************************************)
(* What must hold.                                                         *)
(***************************************************************************)
TypeOK ==
    /\ owner \in Attempts \cup {Nobody}
    /\ complete \subseteq Attempts
    /\ old \subseteq Attempts
    /\ alive \in [Attempts -> BOOLEAN]
    /\ attempt \in [Attempts -> Attempt]
    /\ robbed \subseteq Attempts

(* A holder has the lock file, unless somebody else took it away.          *)
HolderHasTheLock == \A t \in Attempts : Holding(t) => owner = t \/ t \in robbed

(* "Cross-process repository lease" (docs/threat-model.md), "serializes    *)
(* repository operations across service instances"                         *)
(* (test/unit/repository-lock.test.ts).                                    *)
OneRepositoryHolder == \A t, u \in Attempts : Holding(t) /\ Holding(u) => t = u

(* A lock that a dead process left behind does not keep a lone attempt out:*)
(* it gets the lease or ends.                                              *)
Alone(t) ==
    /\ At(t, "open")
    /\ attempt[t].tries + 1 < MaxTries
    /\ \A u \in Attempts \ {t} : ~alive[u] /\ (u = owner => u \in old)
DeadLockIsReclaimed ==
    \A t \in Attempts : Alone(t) ~> At(t, "holding") \/ ~alive[t] \/ attempt[t].pc = "failed"
=============================================================================
