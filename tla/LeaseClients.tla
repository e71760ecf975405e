---------------------------- MODULE LeaseClients ----------------------------
(***************************************************************************)
(* gpu-gate and lease-exec asking the same scheduler for the same card,    *)
(* which a resident holds while nobody asks.  The scheduler is Leases,     *)
(* which Scheduler is shown to implement.                                  *)
(***************************************************************************)
EXTENDS Gate, LeaseWrapper

ASSUME IdsAssumption == Run # Job

gateVars == <<gate, hand, lock, residency, watching, upstream, ledger>>
vars == <<leases, faults, gateVars, wrapper>>

Init == Empty /\ faults = 0 /\ GateInit /\ WrapperInit

Arbiter == (Serve \/ Restore) /\ UNCHANGED <<faults, gateVars, wrapper>>

Next ==
    \/ GateNext /\ UNCHANGED wrapper
    \/ WrapperNext /\ UNCHANGED gateVars
    \/ Arbiter

ByGate(A) == A /\ UNCHANGED wrapper
ByWrapper(A) == A /\ UNCHANGED gateVars

\* The arbiter's loop, every task of the gate that is not waiting for someone,
\* and the timers go on.  _lock is first come, first served, and the watcher's
\* loop comes by for ever, so what they may have to wait for is strongly fair.
\* People submit, bypass, stop and crash as they like; work that is not stuck
\* ends.
Fairness ==
    /\ WF_vars(Arbiter /\ leases' # leases)
    /\ WF_vars(ByGate(File \/ PollGranted \/ GiveUp \/ Withdraw \/ Release))
    /\ \A p \in Prompts :
          /\ SF_vars(ByGate(SubmitAcquires(p)))
          /\ WF_vars(ByGate(Forward(p)))
          /\ WF_vars(ByGate(Finish(p)))
    /\ SF_vars(ByGate(ReadQueue))
    /\ SF_vars(ByGate(Backstop))
    /\ SF_vars(ByGate(CapHold))
    /\ WF_vars(ByGate(Hold))
    /\ WF_vars(ByGate(RestartUpstream))
    /\ SF_vars(ByGate(Heartbeat))
    /\ WF_vars(ByGate(Refile))
    /\ WF_vars(ByGate(Settle))
    /\ SF_vars(ByGate(DrainElapses))
    /\ SF_vars(ByGate(HoldAges))
    /\ WF_vars(ByGate(Adopt \/ ClearStranded))
    /\ WF_vars(ByGate(Restarted))
    /\ WF_vars(ByGate(GateLapses))
    /\ WF_vars(ByWrapper(RunStarts))
    /\ WF_vars(ByWrapper(ChildExits \/ StallKill))
    /\ WF_vars(ByWrapper(RunCompletes))
    /\ WF_vars(ByWrapper(RunLapses))

Spec == Init /\ [][Next]_vars /\ Fairness

-----------------------------------------------------------------------------
(* Properties. *)

\* The shape of the gate's fields, and who may own its lock at which step.
TypeOK ==
    /\ waiting \cup granted \cup refused \cup {Job, Run} \subseteq Jobs
    /\ gate \in {"down", "starting", "up"}
    /\ DOMAIN hand = Prompts
    /\ step = "free" <=> owner = "nobody"
    /\ step \in {"file", "poll", "withdraw"} => ~held
    /\ step = "release" => held
    /\ owner = "watcher" => watch \in {"backstop", "release"}
    /\ watch \in {"restart", "beat", "refile", "settle", "release"} => held

\* What really occupies the card: the residents on it, the upstream while a
\* submission that passed the gate runs, the wrapper's child.
Tenants ==
    Sum(size, Residents \ away)
    + Sum(Vram, (IF Proxied # {} THEN {Job} ELSE {}) \cup (IF Alive THEN {Run} ELSE {}))

\* Neither the gate nor the wrapper works on a card it does not hold, so what
\* occupies the card fits it, for every order of submissions, grants, lost
\* calls and lost answers, timeouts, and a crash of the gate that restarts
\* beside the render it left (acquire, release, clear_stranded; _acquire).
\* Excepted is what the gate documents: a lease that lapsed, a hold over its
\* limit, a clean stop, an upstream that does not answer.
TenantsFit ==
    incidents \subseteq {"crashed", "wedged"} /\ ~lost => Tenants <= Total

\* Every submission is answered: it goes through or is refused, or the gate
\* died or stopped under it; no order of owners of the lock leaves it waiting.
SubmissionsAnswered ==
    \A p \in Prompts :
        hand[p] = "asking" ~> hand[p] \in {"passed", "through", "refused", "cut"}

\* Work that runs upstream without a lease, because it went round the gate or
\* because the lease lapsed or was given back under it, is not left so: the
\* gate asks for the card again unless the work ends first (watch, heartbeat).
WorkIsAskedFor ==
    (work # {} /\ Job \notin waiting \cup granted)
        ~> (work = {} \/ Job \in waiting \cup granted)

\* The upstream has wedged again in the hold in which it was restarted.
WedgedAgain == stuck /\ wedge = "restarted"

\* The card goes back: however the calls fail, whoever crashes, hangs or gives
\* up without withdrawing, in the end no lease is left and the resident is on
\* the card (release, the withdrawals, the max hold, the stall kill, the TTL),
\* unless the upstream wedges again in the hold in which it was restarted.
CardGoesBack ==
    <>[]WedgedAgain \/ <>[](waiting = {} /\ granted = {} /\ away = {})

=============================================================================
