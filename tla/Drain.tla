------------------------------- MODULE Drain -------------------------------
(***************************************************************************)
(* How a deploy that a busy agent keeps waiting empties the agent: a pause *)
(* of new work, one reclaim of the running kanban tasks, and an end to     *)
(* both.  The agent works around the clock as long as nothing pauses it.   *)
(***************************************************************************)
EXTENDS Naturals

CONSTANTS
    Kinds,      \* the work there is: turns (and sessions), kanban workers
    DrainAfter  \* when `behind` reaches DRAIN_AFTER_SECONDS, in notches

ASSUME DrainAssumption == Kinds \subseteq {"turn", "worker"} /\ DrainAfter \in Nat \ {0}

VARIABLES
    work,       \* what runs in the agent: a turn or session, a kanban worker
    up,         \* the agent's container runs
    pause,      \* the agent's global pause: none, deploy's, or the operator's
    leased,     \* a GPU lease is held, or a one-off job runs
    drain,      \* state.json: since when, reclaimed, given up for
    behind      \* state.json: since when the stack is behind origin/main

drainVars == <<work, up, pause, leased, drain, behind>>

\* Times are kept as the notches the code compares them with.
\* behind: 0 not, 1 recently, up to DrainAfter for DRAIN_AFTER_SECONDS.
\* drain.since: 0 not draining, 1 recently, 2 for DRAIN_RECLAIM_AFTER_SECONDS,
\* 3 for DRAIN_MAX_SECONDS.
NoDrain == [since |-> 0, reclaimed |-> FALSE, abandoned |-> 0]

DrainInit ==
    /\ work = {} /\ up = TRUE /\ pause = "none" /\ leased = FALSE
    /\ drain = NoDrain /\ behind = 0

\* agent_busy: a container that does not run is not busy.
AgentBusy == up /\ work # {}

\* blocking_gate: the gates in the order they are read.
GateReason == IF leased THEN "lease" ELSE IF AgentBusy THEN "agent" ELSE "none"

\* Mutant: the end of a drain leaves drain_reclaimed set.
UndrainedReclaimed(abandoned) ==
    [drain EXCEPT !.since = 0, !.abandoned = abandoned]

\* _release_drain: lifts the pause if it is the drain's, and forgets the drain;
\* a container that does not run is read as not paused.
Lifted == IF up /\ pause = "deploy" THEN "none" ELSE pause
Undrained(abandoned) == [NoDrain EXCEPT !.abandoned = abandoned]

ReleaseDrain(abandoned) ==
    /\ pause' = IF drain.since # 0 THEN Lifted ELSE pause
    /\ drain' = Undrained(abandoned)

\* The pause could not be read or lifted: the drain stays recorded, and the
\* next pass tries again.
KeepDrain(abandoned) ==
    /\ drain.since # 0
    /\ drain' = [drain EXCEPT !.abandoned = abandoned]
    /\ UNCHANGED pause

\* _reclaim_kanban: every worker back to ready, once per drain.
Reclaim ==
    /\ work' = work \ {"worker"}
    /\ drain' = [drain EXCEPT !.reclaimed = TRUE]
    /\ UNCHANGED pause

\* Whether a deploy that `reason` holds drains the agent, in a pass for commit
\* `tip`: the wait is counted from behind_since.
MayDrain(tip, reason) ==
    /\ reason = "agent" /\ drain.since = 0
    /\ behind = DrainAfter /\ drain.abandoned # tip
    /\ up /\ pause = "none"

MayReclaim(reason) == reason = "agent" /\ drain.since = 2 /\ ~drain.reclaimed

\* What _drain does in a pass that is held, the start of a drain excepted: it
\* gives the drain up after its time, or reclaims, or goes on waiting.
Draining(tip, reason) ==
    \/ drain.since = 3 /\ ReleaseDrain(tip) /\ UNCHANGED work
    \/ MayReclaim(reason) /\ Reclaim
    \/ /\ drain.since # 3 /\ ~MayReclaim(reason)
       /\ UNCHANGED <<work, pause, drain>>

\* The same when the agent does not answer: a drain that cannot start waits,
\* and a reclaim may be done all the same.
DrainingUnread(tip, reason) ==
    \/ drain.since = 3 /\ KeepDrain(tip) /\ UNCHANGED work
    \/ MayDrain(tip, reason) /\ UNCHANGED <<work, pause, drain>>
    \/ /\ MayReclaim(reason)
       /\ work' \in {work, work \ {"worker"}}
       /\ UNCHANGED <<pause, drain>>

-----------------------------------------------------------------------------
(* The agent, its operator and the card's other users. *)

\* A pause holds new work; what runs goes on.
NewWork ==
    /\ up /\ pause = "none"
    /\ \E kind \in Kinds \ work : work' = work \cup {kind}
    /\ UNCHANGED <<up, pause, leased, drain, behind>>
EndWork(kind) ==
    /\ kind \in work /\ work' = work \ {kind}
    /\ UNCHANGED <<up, pause, leased, drain, behind>>

\* `hermes pause` and `hermes resume` by hand.
OperatorPauses ==
    /\ up /\ pause' \in {"none", "operator"} \ {pause}
    /\ UNCHANGED <<work, up, leased, drain, behind>>

Lease == leased' = ~leased /\ UNCHANGED <<work, up, pause, drain, behind>>

AgentStops ==
    /\ up /\ up' = FALSE /\ work' = {}
    /\ UNCHANGED <<pause, leased, drain, behind>>
AgentStarts ==
    /\ ~up /\ up' = TRUE
    /\ UNCHANGED <<work, pause, leased, drain, behind>>
=============================================================================
