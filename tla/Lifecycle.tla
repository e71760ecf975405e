------------------------------ MODULE Lifecycle ------------------------------
(***************************************************************************)
(* The lifecycle verbs of ordo/control/lifecycle.py, and what works on the *)
(* same containers beside them: the scheduler's evictions, the reclaim of  *)
(* an idle ComfyUI, the repair of members that could not join their        *)
(* owner's network namespace, and the restarts of a managed project's      *)
(* containers with their budget.                                           *)
(***************************************************************************)
EXTENDS Naturals, FiniteSets, Sequences, SequencesExt

CONSTANTS
    Owner,          \* a service
    MemberList,     \* those that live in its network namespace, in order
    Resident,       \* a service the scheduler evicts
    ComfyUI,
    Callers,        \* concurrent requests for the restart of a managed container
    Asked,          \* the containers they name
    Limit, Window,  \* RestartBudget: restarts of a container, and notches
    MaxMishaps      \* how much may go wrong

VARIABLES
    own,            \* the group is in Ordo's project, or in a managed one
    docker,         \* the containers; see Docker below
    lease, evicted, \* the scheduler, as far as the verbs ask for it
    verb,           \* the holder of the operation lock: its calls of docker
    reclaim,        \* where the reclaim of ComfyUI is
    sweep,          \* where the repair is: its rows, and the member it works on
    callers,        \* what each caller is restarting
    slots,          \* RestartBudget: the ages of the restarts, oldest first
    restarted,      \* the ages of the restarts themselves (history)
    torn,           \* a verb of the owner ended part way (history)
    mishaps

vars == <<own, docker, lease, evicted, verb, reclaim, sweep, callers, slots, restarted, torn,
          mishaps>>

Members == ToSet(MemberList)
Services == Members \cup {Owner, Resident, ComfyUI}
Whole == <<Owner>> \o MemberList \o <<Resident, ComfyUI>>

\* The owner, its members, the resident and ComfyUI are different services;
\* the budget is a number.
ASSUME ServicesAssumption ==
    /\ MemberList \in Seq(Members)
    /\ Owner \notin Members \cup {Resident, ComfyUI}
    /\ Resident \notin Members \cup {ComfyUI}
    /\ ComfyUI \notin Members
ASSUME BudgetAssumption ==
    IsFiniteSet(Callers) /\ Asked \subseteq Services /\ Limit \in Nat /\ Window \in Nat

Mishap == mishaps < MaxMishaps /\ mishaps' = mishaps + 1

-----------------------------------------------------------------------------
(* Docker: the containers that run; the members created against the owner's *)
(* current container, those in its current namespace, and those whose last  *)
(* start failed to join one.                                                *)

CanJoin(d, s) == s \in Members => s \in d.bound /\ Owner \in d.up

StopOne(d, s) ==
    [d EXCEPT !.up = @ \ {s}, !.joined = IF s = Owner THEN {} ELSE @ \ {s}]

\* Starting what runs does nothing.
StartOne(d, s) ==
    IF s \in d.up THEN d ELSE
    CASE s = Owner -> [d EXCEPT !.up = @ \cup {s}, !.joined = {}]
      [] s \in Members /\ ~CanJoin(d, s) -> [d EXCEPT !.failed = @ \cup {s}]
      [] OTHER -> [d EXCEPT !.up = @ \cup {s}, !.failed = @ \ {s},
                            !.joined = @ \cup ({s} \cap Members)]

\* A new container; a member's is created against the owner's current one.
Renewed(d, s) ==
    [StopOne(d, s) EXCEPT !.bound = IF s = Owner THEN {} ELSE @ \cup ({s} \cap Members)]

Recreate(d, s) == StartOne(Renewed(d, s), s)

Did(call, d) ==
    CASE call[1] = "stop" -> StopOne(d, call[2])
      [] call[1] = "start" -> StartOne(d, call[2])
      [] OTHER -> Recreate(d, call[2])

Failed(call, d) == call[1] # "stop" /\ call[2] \notin Did(call, d).up

-----------------------------------------------------------------------------
(* The verbs. *)

Each(call, services) == [i \in DOMAIN services |-> <<call, services[i]>>]

Restarts(services) ==
    [i \in 1..(2 * Len(services)) |->
        <<IF i % 2 = 1 THEN "stop" ELSE "start", services[(i + 1) \div 2]>>]

Group(s) == IF s = Owner THEN <<s>> \o MemberList ELSE <<s>>

\* Mutant: the members are started after their owner, not restarted.
StartProgramStarts(s) == Each("start", Group(s))

\* restart_members: a member left running is still in the dead namespace.
StartProgram(s) == Each("start", <<s>>) \o Restarts(Tail(Group(s)))

\* The members first.
StopProgram(s) == Each("stop", Tail(Group(s)) \o <<s>>)

Free == [name |-> "none", about |-> {}, todo |-> <<>>]
LockFree == verb.name = "none"

Takes(name, group, todo) ==
    /\ LockFree
    /\ verb' = [name |-> name, about |-> ToSet(group), todo |-> todo]

\* Mutant: the card is leased while a lease runs, or waits.
LeasedNow == lease # "free"

\* Work that runs or waits, or a resident that is out.
Leased == lease # "free" \/ evicted # {}

\* LeaseGuard, under the lock: a verb that starts an evicted service is
\* refused, and one for the whole stack while the card is leased; stop never.
ServiceVerb ==
    /\ own
    /\ \/ \E s \in Services :
            \/ Takes("stop", Group(s), StopProgram(s))
            \/ /\ ToSet(Group(s)) \cap evicted = {}
               /\ \/ Takes("start", Group(s), StartProgram(s))
                  \/ Takes("restart", Group(s), Restarts(Group(s)))
                  \/ Takes("recreate", Group(s), Each("recreate", Group(s)))
       \/ ~Leased /\ Takes("restart", Whole, Restarts(Whole))
    /\ UNCHANGED <<own, docker, lease, evicted, reclaim, sweep, callers, slots, restarted, torn,
                   mishaps>>

\* The verb gives the owner a new namespace.
Cycles == Owner \in verb.about /\ verb.name # "stop"

\* One call; the last one, or one that fails, ends the verb.
VerbCalls ==
    /\ ~LockFree
    /\ LET call == Head(verb.todo)
           fails == Failed(call, docker)
           over == fails \/ Tail(verb.todo) = <<>>
       IN  /\ docker' = Did(call, docker)
           /\ verb' = IF over THEN Free ELSE [verb EXCEPT !.todo = Tail(@)]
           /\ torn' = IF over /\ Cycles THEN fails ELSE torn
    /\ UNCHANGED <<own, lease, evicted, reclaim, sweep, callers, slots, restarted, mishaps>>

\* A call that raises, whether docker did it or not.
VerbRaises ==
    /\ ~LockFree /\ verb.name # "reconcile" /\ Mishap
    /\ docker' \in {docker, Did(Head(verb.todo), docker)}
    /\ verb' = Free
    /\ torn' = (torn \/ (Cycles /\ Owner \in docker'.up))
    /\ UNCHANGED <<own, lease, evicted, reclaim, sweep, callers, slots, restarted>>

-----------------------------------------------------------------------------
(* The scheduler: Broker.tla in three steps. *)

Ask ==
    /\ own /\ lease = "free" /\ lease' = "queued"
    /\ UNCHANGED <<own, docker, evicted, verb, reclaim, sweep, callers, slots, restarted, torn,
                   mishaps>>

Complete ==
    /\ lease # "free" /\ lease' = "free"
    /\ UNCHANGED <<own, docker, evicted, verb, reclaim, sweep, callers, slots, restarted, torn,
                   mishaps>>

\* reconcile: a waiting request is admitted and the resident stopped; or the
\* card is idle and the resident started again.
Reconcile ==
    /\ \/ /\ lease = "queued" /\ lease' = "running"
          /\ evicted' = {Resident}
          /\ IF evicted = {} THEN Takes("reconcile", <<Resident>>, Each("stop", <<Resident>>))
             ELSE LockFree /\ UNCHANGED verb
       \/ /\ lease = "free" /\ evicted # {}
          /\ evicted' = {} /\ UNCHANGED lease
          /\ Takes("reconcile", <<Resident>>, Each("start", <<Resident>>))
    /\ UNCHANGED <<own, docker, reclaim, sweep, callers, slots, restarted, torn, mishaps>>

-----------------------------------------------------------------------------
(* ComfyUIReclaim.sweep *)

\* The cheap checks and the memory, read without the lock.
ReclaimMeasures ==
    /\ own /\ reclaim = "idle" /\ ~Leased /\ ComfyUI \in docker.up
    /\ reclaim' = "measured"
    /\ UNCHANGED <<own, docker, lease, evicted, verb, sweep, callers, slots, restarted, torn, mishaps>>

\* Mutant: what was checked before the lock is not checked again under it.
ReclaimTrusts ==
    /\ reclaim = "measured" /\ reclaim' = "idle"
    /\ IF LockFree THEN Takes("reclaim", <<ComfyUI>>, Restarts(<<ComfyUI>>)) ELSE UNCHANGED verb
    /\ UNCHANGED <<own, docker, lease, evicted, sweep, callers, slots, restarted, torn, mishaps>>

\* A lock that is taken, a lease, or a prompt in the queue: on the next sweep.
ReclaimRestarts ==
    /\ reclaim = "measured" /\ reclaim' = "idle"
    /\ \/ UNCHANGED verb
       \/ ~Leased /\ Takes("reclaim", <<ComfyUI>>, Restarts(<<ComfyUI>>))
    /\ UNCHANGED <<own, docker, lease, evicted, sweep, callers, slots, restarted, torn, mishaps>>

-----------------------------------------------------------------------------
(* RestartBudget, and the restarts that take from it. *)

\* _recent: a notch later; the oldest are dropped.
Older(ages) ==
    LET gone == {i \in DOMAIN ages : ages[i] + 1 >= Window} IN
    [i \in 1..(Len(ages) - Cardinality(gone)) |-> ages[Cardinality(gone) + i] + 1]

Room(key) == Len(slots[key]) < Limit
Reserved(key) == [slots EXCEPT ![key] = Append(@, 0)]
Refunded(key) == [slots EXCEPT ![key] = IF @ = <<>> THEN @ ELSE Front(@)]
Happened(key) == [restarted EXCEPT ![key] = Append(@, 0)]

Keys == {<<"repair", m>> : m \in Members} \cup {<<"asked", s>> : s \in Asked}

\* ManagedProjects.container_restart: the slot is taken before the restart.
CallerReserves(c) ==
    /\ ~own /\ callers[c] = {}
    /\ \E s \in Asked :
          /\ Room(<<"asked", s>>) /\ slots' = Reserved(<<"asked", s>>)
          /\ callers' = [callers EXCEPT ![c] = {s}]
    /\ UNCHANGED <<own, docker, lease, evicted, verb, reclaim, sweep, restarted, torn, mishaps>>

\* The container alone: an owner's members are left in its old namespace.
CallerRestarts(c) ==
    /\ \E s \in callers[c] :
          /\ docker' = StartOne(StopOne(docker, s), s)
          /\ restarted' = Happened(<<"asked", s>>)
    /\ callers' = [callers EXCEPT ![c] = {}]
    /\ UNCHANGED <<own, lease, evicted, verb, reclaim, sweep, slots, torn, mishaps>>

\* Mutant: any failure gives the slot back.
CallerFailsRefunds(c) ==
    /\ Mishap
    /\ \E s \in callers[c] :
          \/ docker' = docker /\ restarted' = restarted /\ slots' = Refunded(<<"asked", s>>)
          \/ /\ docker' = StopOne(docker, s)
             /\ restarted' = Happened(<<"asked", s>>) /\ slots' = Refunded(<<"asked", s>>)
    /\ callers' = [callers EXCEPT ![c] = {}]
    /\ UNCHANGED <<own, lease, evicted, verb, reclaim, sweep, torn>>

\* The guard refuses before docker ran, and the slot is given back; or the
\* container is stopped and does not come up, and the slot is spent.
CallerFails(c) ==
    /\ Mishap
    /\ \E s \in callers[c] :
          \/ docker' = docker /\ restarted' = restarted /\ slots' = Refunded(<<"asked", s>>)
          \/ /\ docker' = StopOne(docker, s)
             /\ restarted' = Happened(<<"asked", s>>) /\ slots' = slots
    /\ callers' = [callers EXCEPT ![c] = {}]
    /\ UNCHANGED <<own, lease, evicted, verb, reclaim, sweep, torn>>

-----------------------------------------------------------------------------
(* NetnsRepair.sweep: no lock, and no question about the lease. *)

Orphans == {m \in Members : m \notin docker.up /\ m \in docker.failed}

\* Mutant: only the container the member was created against is its owner.
RepairableBound(m) == Owner \in docker.up /\ m \in docker.bound

\* Recreating joins the owner's current container, so one that is gone is fine
\* for Ordo's own; a managed member is only restarted.
Repairable(m) == IF m \in docker.bound THEN Owner \in docker.up ELSE own

SweepIdle == [rows |-> {}, on |-> {}]

\* The rows are read at once, and worked through as they were.
SweepLists ==
    /\ sweep = SweepIdle
    /\ sweep' = [rows |-> {m \in Orphans : Repairable(m)}, on |-> {}]
    /\ sweep'.rows # {}
    /\ UNCHANGED <<own, docker, lease, evicted, verb, reclaim, callers, slots, restarted, torn,
                   mishaps>>

SweepReserves ==
    /\ sweep.on = {}
    /\ \E m \in sweep.rows :
          IF Room(<<"repair", m>>)
          THEN sweep' = [rows |-> sweep.rows \ {m}, on |-> {m}] /\ slots' = Reserved(<<"repair", m>>)
          ELSE sweep' = [sweep EXCEPT !.rows = @ \ {m}] /\ UNCHANGED slots
    /\ UNCHANGED <<own, docker, lease, evicted, verb, reclaim, callers, restarted, torn, mishaps>>

\* recreate_service or foreign_restart; one that fails is left to a later
\* sweep.
SweepRepairs ==
    /\ \E m \in sweep.on :
          /\ \/ /\ docker' = IF own THEN Recreate(docker, m) ELSE StartOne(StopOne(docker, m), m)
                /\ UNCHANGED mishaps
             \/ docker' = docker /\ Mishap
          /\ restarted' = Happened(<<"repair", m>>)
    /\ sweep' = [sweep EXCEPT !.on = {}]
    /\ UNCHANGED <<own, lease, evicted, verb, reclaim, callers, slots, torn>>

-----------------------------------------------------------------------------
(* The environment. *)

\* A restart takes less than a notch.
Tick ==
    /\ sweep.on = {} /\ \A c \in Callers : callers[c] = {}
    /\ \E k \in Keys : slots[k] \o restarted[k] # <<>>
    /\ slots' = [k \in Keys |-> Older(slots[k])]
    /\ restarted' = [k \in Keys |-> Older(restarted[k])]
    /\ UNCHANGED <<own, docker, lease, evicted, verb, reclaim, sweep, callers, torn, mishaps>>

\* The daemon restarts what ran, in no order: a member may come up before its
\* owner and fail. The control plane begins anew.
DaemonRestarts ==
    /\ verb.name # "reconcile" /\ Mishap
    /\ \E early \in SUBSET (docker.up \cap Members) :
         LET lost == early \cup {m \in docker.up \cap Members : ~CanJoin(docker, m)} IN
         docker' = [docker EXCEPT !.up = @ \ lost, !.failed = @ \cup lost,
                                  !.joined = (docker.up \cap Members) \ lost]
    /\ verb' = Free /\ reclaim' = "idle" /\ sweep' = SweepIdle
    /\ callers' = [c \in Callers |-> {}]
    /\ slots' = [k \in Keys |-> <<>>] /\ restarted' = slots'
    /\ torn' = FALSE
    /\ UNCHANGED <<own, lease, evicted>>

\* The managed project's people stop and start its owner with its members.
Elsewhere ==
    /\ ~own
    /\ \/ docker' = [docker EXCEPT !.up = @ \ ({Owner} \cup Members), !.joined = {}]
       \/ docker' = [docker EXCEPT !.up = @ \cup {Owner} \cup Members, !.bound = Members,
                                   !.joined = Members, !.failed = {}]
    /\ UNCHANGED <<own, lease, evicted, verb, reclaim, sweep, callers, slots, restarted, torn,
                   mishaps>>

Init ==
    /\ own \in BOOLEAN
    /\ docker = [up |-> Services, bound |-> Members, joined |-> Members, failed |-> {}]
    /\ lease = "free" /\ evicted = {}
    /\ verb = Free /\ reclaim = "idle" /\ sweep = SweepIdle
    /\ callers = [c \in Callers |-> {}]
    /\ slots = [k \in Keys |-> <<>>] /\ restarted = [k \in Keys |-> <<>>]
    /\ torn = FALSE /\ mishaps = 0

Sweep == SweepLists \/ SweepReserves \/ SweepRepairs

Next ==
    \/ ServiceVerb \/ VerbCalls \/ VerbRaises
    \/ Ask \/ Complete \/ Reconcile
    \/ ReclaimMeasures \/ ReclaimRestarts
    \/ \E c \in Callers : CallerReserves(c) \/ CallerRestarts(c) \/ CallerFails(c)
    \/ Sweep
    \/ Tick \/ DaemonRestarts \/ Elsewhere

\* The sweep recurs, a restart ends, time passes.
Fairness ==
    /\ WF_vars(Sweep) /\ WF_vars(Tick)
    /\ \A c \in Callers : WF_vars(CallerRestarts(c) \/ CallerFails(c))

Spec == Init /\ [][Next]_vars /\ Fairness

-----------------------------------------------------------------------------
(* Properties. *)

\* The containers and the threads' places; a member is in a namespace only if
\* it and its owner run and it was created against that owner.
TypeOK ==
    /\ docker.up \subseteq Services /\ docker.failed \subseteq Members
    /\ docker.joined \subseteq docker.up \cap docker.bound
    /\ docker.joined # {} => Owner \in docker.up
    /\ evicted \subseteq {Resident}
    /\ LockFree <=> verb.todo = <<>>
    /\ own \/ (LockFree /\ ~Leased /\ reclaim = "idle")

\* A running member of a running owner is in the owner's namespace, not in a
\* dead one "with only lo", whatever verbs and repairs came together, unless a
\* verb of the owner is under way or ended with an error (restart_members,
\* lifecycle_group).
NetworkKept ==
    own /\ Owner \in docker.up /\ Owner \notin verb.about /\ ~torn
      => docker.up \cap Members \subseteq docker.joined

\* "Two tenants on one card": a resident that is evicted for a running lease
\* does not run, unless the scheduler is just stopping it (LeaseGuard).
NoSecondTenant ==
    lease = "running" /\ Resident \in docker.up => verb.name = "reconcile"

\* The reclaim never takes ComfyUI down under a lease that runs
\* (ComfyUIReclaim.sweep).
TenantLeftAlone ==
    [][verb.name = "reclaim" /\ ComfyUI \in docker.up \ docker'.up => lease # "running"]_vars

\* "At most `limit` restarts per key in any sliding window", however callers
\* come together and restarts fail (RestartBudget).
RestartsBounded == \A k \in Keys : Len(restarted[k]) <= Limit

\* A member that could not join is brought back while its owner runs, though
\* repairs fail and their budget is spent for a while (NetnsRepair); a managed
\* one whose owner was recreated is not.
MembersReturn ==
    \A m \in Members :
      m \in Orphans /\ Owner \in docker.up /\ (own \/ m \in docker.bound)
        ~> m \in docker.up \/ Owner \notin docker.up
=============================================================================
