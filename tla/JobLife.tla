------------------------------- MODULE JobLife -------------------------------
(***************************************************************************)
(* What the job queue promises to somebody who reads AgentJob nodes and    *)
(* knows nothing of heaps, permits, tombstones and notifications: which    *)
(* statuses a job may go through, when a later step of a chain may be      *)
(* promoted, and how often a job is started.  One step of the queue may    *)
(* move several jobs at once (recovery, a cascade), so a step of this      *)
(* specification is a move, or none, of every job.                         *)
(***************************************************************************)
EXTENDS Naturals

CONSTANTS Job, NoJob, Parent, Optional, MaxAttempts

VARIABLES
    phase,     \* absent before the node is created, erased after its deletion
    tries,     \* runs since the job was created or last put back
    begun,     \* the jobs that ever ran
    finished   \* the jobs that ever completed

vars == <<phase, tries, begun, finished>>

Over == {"completed", "failed", "dead", "dead_letter", "cancelled"}
Phase == {"absent", "parked", "queued", "running", "erased"} \cup Over

\* A cap of 0 still allows one run.
Cap(j) == IF MaxAttempts[j] = 0 THEN 1 ELSE MaxAttempts[j]

\* The chain may go on after p.
Passed(p) == p \in finished \/ p \in Optional \cap begun

Init ==
    /\ phase = [j \in Job |-> "absent"]
    /\ tries = [j \in Job |-> 0]
    /\ begun = {}
    /\ finished = {}

-----------------------------------------------------------------------------
(* The moves of one job *)

Goes(j, from, to) == phase[j] \in from /\ phase'[j] = to
Quietly(j) == tries'[j] = tries[j] /\ (j \in begun' <=> j \in begun)
Unfinished(j) == j \in finished' <=> j \in finished

Stay(j) == phase'[j] = phase[j] /\ Quietly(j) /\ Unfinished(j)

\* The first step of a chain is queued at once, a later one parked.
Create(j) ==
    /\ Goes(j, {"absent"}, IF Parent[j] = NoJob THEN "queued" ELSE "parked")
    /\ Quietly(j) /\ Unfinished(j)

Promote(j) ==
    /\ Passed(Parent[j])
    /\ Goes(j, {"parked"}, "queued")
    /\ Quietly(j) /\ Unfinished(j)

Begin(j) ==
    /\ tries[j] < Cap(j)
    /\ Goes(j, {"queued"}, "running")
    /\ tries'[j] = tries[j] + 1
    /\ j \in begun'
    /\ Unfinished(j)

\* A failed or interrupted run is repeated while the cap allows another.
Again(j) ==
    /\ tries[j] < Cap(j)
    /\ Goes(j, {"running"}, "queued")
    /\ Quietly(j) /\ Unfinished(j)

Finish(j) ==
    /\ Goes(j, {"running"}, "completed")
    /\ j \in finished'
    /\ Quietly(j)

Die(j) ==
    /\ \E to \in {"dead", "dead_letter"} : Goes(j, {"running"}, to)
    /\ Quietly(j) /\ Unfinished(j)

Abandon(j) ==
    /\ Goes(j, Phase \ {"absent", "erased"}, "cancelled")
    /\ Quietly(j) /\ Unfinished(j)

Erase(j) ==
    /\ Goes(j, Over, "erased")
    /\ Quietly(j) /\ Unfinished(j)

\* An operator puts a dead letter back, with all its attempts.
PutBack(j) ==
    /\ Goes(j, {"dead_letter"}, "queued")
    /\ tries'[j] = 0
    /\ (j \in begun' <=> j \in begun) /\ Unfinished(j)

Move(j) == \/ Create(j) \/ Promote(j) \/ Begin(j) \/ Again(j) \/ Finish(j)
           \/ Die(j) \/ Abandon(j) \/ Erase(j) \/ PutBack(j)

Next ==
    /\ phase' \in [Job -> Phase]
    /\ tries' \in [Job -> Nat]
    /\ begun' \subseteq Job
    /\ finished' \subseteq Job
    /\ \A j \in Job : Stay(j) \/ Move(j)

Spec == Init /\ [][Next]_vars
=============================================================================
