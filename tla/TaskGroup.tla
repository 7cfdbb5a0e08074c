------------------------------ MODULE TaskGroup -------------------------------
(***************************************************************************)
(* What the pool promises its client, without threads, locks or condition  *)
(* variables: tasks are accepted in order, started in that order, each is  *)
(* executed once, and the client is told "all done" only when that is so.  *)
(***************************************************************************)
EXTENDS Naturals

CONSTANTS MaxTasks

VARIABLES accepted,   \* tasks 1..accepted have been added
          started,    \* tasks 1..started have been taken from the list
          executed,   \* the tasks whose function has been executed
          client      \* "open", "told" (wait has returned) or "closed"

groupVars == <<accepted, started, executed, client>>

AllDone == executed = 1..accepted

GroupInit ==
    /\ accepted = 0
    /\ started = 0
    /\ executed = {}
    /\ client = "open"

Accept ==
    /\ client # "closed"
    /\ accepted < MaxTasks
    /\ accepted' = accepted + 1
    /\ client' = "open"
    /\ UNCHANGED <<started, executed>>

Start ==
    /\ started < accepted
    /\ started' = started + 1
    /\ UNCHANGED <<accepted, executed, client>>

Execute ==
    /\ \E t \in (1..started) \ executed : executed' = executed \union {t}
    /\ UNCHANGED <<accepted, started, client>>

Tell ==
    /\ client = "open"
    /\ AllDone
    /\ client' = "told"
    /\ UNCHANGED <<accepted, started, executed>>

\* The client gives the pool up; "closed" is reached with nothing left to do.
Release ==
    /\ client = "told"
    /\ client' = "open"
    /\ UNCHANGED <<accepted, started, executed>>

Close ==
    /\ client = "open"
    /\ AllDone
    /\ client' = "closed"
    /\ UNCHANGED <<accepted, started, executed>>

GroupNext == Accept \/ Start \/ Execute \/ Tell \/ Release \/ Close

GroupSpec == GroupInit /\ [][GroupNext]_groupVars

=============================================================================
