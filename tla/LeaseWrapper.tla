---------------------------- MODULE LeaseWrapper ----------------------------
(***************************************************************************)
(* lease-exec (assets/lease-exec.py): run one command under a lease.  The  *)
(* main thread files, polls, waits for the child and completes; a daemon   *)
(* thread heartbeats and kills a child whose counters have stood still.    *)
(***************************************************************************)
EXTENDS Calls

CONSTANT Run    \* ORDO_LEASE_JOB_ID of this run

ASSUME RunAssumption == Run \in Jobs

VARIABLES
    exec,       \* "new", "polling", "working", "frozen", "exited", "gone"
    runLate,    \* a heartbeat was missed since the lease was renewed
    lost        \* the lease lapsed under a child that was alive

wrapper == <<exec, runLate, lost>>

WrapperInit ==
    /\ exec = "new" /\ runLate = FALSE /\ lost = FALSE

\* The child process is alive.
Alive == exec \in {"working", "frozen"}

\* POST /jobs.  When it fails the command is not run and nothing is withdrawn.
RunFile ==
    /\ exec = "new"
    /\ \/ Answered(Ask(Run)) /\ exec' = "polling"
       \/ Fails(Ask(Run)) /\ exec' = "gone"
    /\ UNCHANGED <<runLate, lost>>

RunStarts ==
    /\ exec = "polling"
    /\ Run \in granted
    /\ exec' = "working"
    /\ UNCHANGED <<leases, faults, runLate, lost>>

\* Refused, timed out, or the poll failed: exit, without withdrawing.
RunGivesUp ==
    /\ exec = "polling"
    /\ IF Run \in granted THEN Fault ELSE UNCHANGED faults
    /\ exec' = "gone"
    /\ UNCHANGED <<leases, runLate, lost>>

ChildExits ==
    /\ exec = "working"
    /\ exec' = "exited"
    /\ UNCHANGED <<leases, faults, runLate, lost>>

ChildFreezes ==
    /\ exec = "working"
    /\ exec' = "frozen"
    /\ UNCHANGED <<leases, faults, runLate, lost>>

\* Mutant of StallKill: the counters are not looked at.
StallUnseen == FALSE /\ UNCHANGED <<leases, faults, wrapper>>

StallKill ==
    /\ exec = "frozen"
    /\ exec' = "exited"
    /\ UNCHANGED <<leases, faults, runLate, lost>>

\* A heartbeat: renewed; 404, filed again; or failed.
RunBeats ==
    /\ Alive
    /\ \/ /\ Run \in granted
          /\ runLate' = FALSE
          /\ UNCHANGED <<leases, faults>>
       \/ /\ Run \notin granted
          /\ Ask(Run)
          /\ runLate' = FALSE
          /\ UNCHANGED faults
       \/ /\ Run \notin granted
          /\ Fails(Ask(Run))
          /\ UNCHANGED runLate
       \/ /\ Fails(FALSE)
          /\ runLate' = TRUE
    /\ UNCHANGED <<exec, lost>>

\* _complete, in a finally: it is tried again, and given up in the end.
RunCompletes ==
    /\ exec = "exited"
    /\ \/ Answered(Return(Run)) /\ exec' = "gone"
       \/ Fails(Return(Run)) /\ exec' \in {"exited", "gone"}
    /\ UNCHANGED <<runLate, lost>>

\* The container is killed, the child with it.
WrapperDies ==
    /\ exec \in {"polling", "working", "frozen", "exited"}
    /\ exec' = "gone"
    /\ UNCHANGED <<leases, faults, runLate, lost>>

RunLapses ==
    /\ Run \in granted
    /\ ~(exec \in {"polling", "working", "frozen", "exited"} /\ ~runLate)
    /\ Lapse({Run})
    /\ lost' = (lost \/ Alive)
    /\ UNCHANGED <<exec, runLate, faults>>

WrapperNext ==
    \/ RunFile \/ RunStarts \/ RunGivesUp
    \/ ChildExits \/ ChildFreezes \/ StallKill
    \/ RunBeats \/ RunCompletes \/ WrapperDies \/ RunLapses
=============================================================================
