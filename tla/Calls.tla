------------------------------- MODULE Calls --------------------------------
(***************************************************************************)
(* The clients' calls over HTTP to the scheduler of Leases: any of them    *)
(* may fail, MaxFaults in all.                                             *)
(***************************************************************************)
EXTENDS Leases

CONSTANT MaxFaults  \* bound on the calls that fail

VARIABLE faults     \* calls that failed so far

Fault ==
    /\ faults < MaxFaults
    /\ faults' = faults + 1

\* A call fails before it is carried out, or after it, when only the answer
\* is lost.
Fails(effect) == Fault /\ (effect \/ UNCHANGED leases)

\* A call is carried out and answered.
Answered(effect) == effect /\ UNCHANGED faults
=============================================================================
