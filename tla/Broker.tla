------------------------------- MODULE Broker -------------------------------
(***************************************************************************)
(* The broker: ordo/control/broker.py (class Broker) carries the           *)
(* scheduler's decisions out on the residents' containers, and             *)
(* ordo/control/serve.py runs it.  Several threads share one scheduler:    *)
(* the API's workers, the lease loop, and a lifecycle verb or apply.       *)
(* Decisions are instant and docker calls are not, so a container call of  *)
(* one thread may fall between a decision of another and its effect.       *)
(*                                                                         *)
(* A lease job has no container of its own (DockerBackend treats such a    *)
(* name as a no-op); only residents are stopped and started.  What can go  *)
(* wrong outside the code is a mishap, of which MaxMishaps happen:         *)
(*   "raise"   a docker call fails and the backend raises;                 *)
(*   "silent"  docker cannot list the container, so the call does nothing; *)
(*   "write"   the state file cannot be written;                           *)
(*   "history" the lease history cannot be written;                        *)
(*   "file"    the state file cannot be read back;                         *)
(*   "crash"   the ops-controller process dies;                            *)
(*   "render"  a host `ordo apply` rewrites the render beside the process; *)
(*   "unread"  the render cannot be read;                                  *)
(*   "stray"   something outside starts a stopped resident.                *)
(***************************************************************************)
EXTENDS Scheduler

CONSTANTS
    Api,          \* the API's worker threads
    Loop,         \* the lease loop, and the main thread before it serves
    Verb,         \* the thread of a lifecycle verb or of an apply
    Nobody,       \* the owner of a free operation lock
    Mishaps,      \* the kinds of mishap that may happen
    MaxMishaps,   \* bound: how many of them
    MaxCalls      \* bound: how many requests, completions and verbs it serves

Threads == Api \cup {Loop, Verb}

\* The lease loop and a verb are no API workers, and no thread is Nobody.
ASSUME ThreadsAssumption ==
    /\ {Loop, Verb} \cap Api = {}
    /\ Loop # Verb
    /\ Nobody \notin Threads

VARIABLES
    up,        \* residents whose container runs
    lock,      \* owner of the operation lock
    evicting,  \* _evicting: residents a reconcile is stopping right now
    leaked,    \* history variable: those a call that ended left in _evicting
    pc,        \* where each thread is in its call
    todo,      \* residents a thread has still to stop or to start
    batch,     \* the evicted residents a reconcile put in _evicting
    granted,   \* the jobs the reconcile under way admitted and has to start
    changed,   \* the lease loop: something to persist in this sweep
    seen,      \* the lease loop: what enforce_evictions has read so far
    saved,     \* _state_saved
    render,    \* the footprints out/ declares now
    pending,   \* renders in flight: the one the lease loop read, the one its
               \* fingerprint is of, and the one a failed apply puts back
    adopted,   \* ResidentFootprints._seen: the render last adopted
    phase,     \* the process: "serving", "boot" or "down"
    mishaps,   \* mishaps so far
    calls      \* counted calls so far

reconciling == <<todo, batch, granted>>
sweeping == <<changed, seen, pending>>
working == <<up, reconciling, sweeping>>
marks == <<evicting, leaked>>
process == <<lock, marks, saved, adopted, phase>>
bounds == <<mishaps, calls>>
brokerVars == <<vars, pc, working, process, render, bounds>>

-----------------------------------------------------------------------------

Mishap(kind) ==
    /\ kind \in Mishaps
    /\ mishaps < MaxMishaps
    /\ mishaps' = mishaps + 1

At(t, place) == pc[t] = place
Goto(t, place) == pc' = [pc EXCEPT ![t] = place]

\* backend.stop and backend.start on a resident of a thread's list: done, or
\* taken for a name without a container.
Stopped(t, r) ==
    /\ todo' = [todo EXCEPT ![t] = @ \ {r}]
    /\ \/ up' = up \ {r} /\ UNCHANGED mishaps
       \/ Mishap("silent") /\ UNCHANGED up

Started(t, r) ==
    /\ todo' = [todo EXCEPT ![t] = @ \ {r}]
    /\ \/ up' = up \cup {r} /\ UNCHANGED mishaps
       \/ Mishap("silent") /\ UNCHANGED up

\* Mutant of Raised: the operation lock is not released when a call raises.
RaisedKeepsLock(t) ==
    /\ Mishap("raise")
    /\ evicting' = evicting \ batch[t]
    /\ pc' = [pc EXCEPT ![t] = "idle"]
    /\ todo' = [todo EXCEPT ![t] = {}]
    /\ batch' = [batch EXCEPT ![t] = {}]
    /\ granted' = {}
    /\ changed' = FALSE
    /\ UNCHANGED <<vars, lock, leaked, phase, seen, saved, pending, adopted,
                   render, calls>>

\* A call of t raises: the lock is released and the exception ends the call.  An
\* API call answers 500; the lease loop prints it and sleeps until its next
\* iteration; before serving it ends the process.
CallEnds(t) ==
    /\ lock' = IF lock = t THEN Nobody ELSE lock
    /\ pc' = [pc EXCEPT ![t] = "idle"]
    /\ todo' = [todo EXCEPT ![t] = {}]
    /\ batch' = [batch EXCEPT ![t] = {}]
    /\ granted' = {}
    /\ changed' = FALSE
    /\ phase' = IF phase = "boot" THEN "down" ELSE phase
    /\ UNCHANGED <<vars, seen, saved, pending, adopted, render, calls>>

\* A docker call raises, having done its work or not (it may time out): the
\* batch leaves _evicting on the way out.
Raised(t) ==
    /\ Mishap("raise")
    /\ evicting' = evicting \ batch[t]
    /\ leaked' = leaked \ batch[t]
    /\ CallEnds(t)

-----------------------------------------------------------------------------
(* The API: request, complete and heartbeat. *)

Serves(t) == phase = "serving" /\ At(t, "idle")

Call(t) ==
    /\ Serves(t)
    /\ calls < MaxCalls
    /\ calls' = calls + 1

ApiRequest(t, j) ==
    /\ Call(t)
    /\ Submit(j)
    /\ Goto(t, "reconcile")
    /\ UNCHANGED <<working, process, render, mishaps>>

\* complete() first frees the lease, then stops the job's own container.
ApiComplete(t, j) ==
    /\ Call(t)
    /\ Complete(j)
    /\ \/ Goto(t, "reconcile") /\ UNCHANGED mishaps
       \/ Mishap("raise") /\ UNCHANGED pc
    /\ UNCHANGED <<working, process, render>>

\* Mutant of ApiHeartbeat: a lease that is not running is renewed too.
ApiHeartbeatAnyone(t, j) ==
    /\ Serves(t)
    /\ left' = [left EXCEPT ![j] = HeartbeatTtl]
    /\ Goto(t, "persist")
    /\ UNCHANGED <<queue, running, recovered, idle, evicted, foot, rejected,
                   disk, working, process, render, bounds>>

\* A refused heartbeat changes nothing.  A client may renew for ever, so a
\* heartbeat does not count as a call.
ApiHeartbeat(t, j) ==
    /\ Serves(t)
    /\ Heartbeat(j)
    /\ Goto(t, "persist")
    /\ UNCHANGED <<working, process, render, bounds>>

\* Mutant of TryReconcile: a busy operation lock is not respected.
ReconcileAnyway(t) ==
    /\ At(t, "reconcile")
    /\ lock' = t
    /\ Goto(t, "pump")
    /\ UNCHANGED <<vars, working, marks, saved, adopted, phase, render,
                   bounds>>

\* _reconcile_unless_busy: lease calls try the operation lock, never wait.
TryReconcile(t) ==
    /\ At(t, "reconcile")
    /\ IF lock = Nobody
       THEN lock' = t /\ Goto(t, "pump")
       ELSE lock' = lock /\ Goto(t, "persist")
    /\ UNCHANGED <<vars, working, marks, saved, adopted, phase, render,
                   bounds>>

-----------------------------------------------------------------------------
(* reconcile, under the operation lock. *)

\* pump decides; a request it rejects is recorded between the mark and the stops.
PumpStep(t) ==
    /\ At(t, "pump")
    /\ Pump
    /\ todo' = [todo EXCEPT ![t] = evicted' \ evicted]
    /\ granted' = running' \ running
    /\ changed' = (t = Loop /\ (changed \/ running' # running \/ evicted' # evicted))
    /\ Goto(t, IF rejected' = rejected THEN "mark" ELSE "mark, record")
    /\ UNCHANGED <<up, batch, seen, pending, process, render, bounds>>

\* The whole batch is marked before the first docker stop.
MarkEvicting(t) ==
    /\ pc[t] \in {"mark", "mark, record"}
    /\ evicting' = evicting \cup todo[t]
    /\ batch' = [batch EXCEPT ![t] = todo[t]]
    /\ Goto(t, IF At(t, "mark") THEN "stop" ELSE "record")
    /\ UNCHANGED <<vars, up, todo, granted, sweeping, lock, leaked, saved,
                   adopted, phase, render, bounds>>

\* The lease history records the rejected requests.  When it cannot be written
\* the call ends here, before the code that takes the batch out of _evicting.
RecordRejected(t) ==
    /\ At(t, "record")
    /\ Goto(t, "stop")
    /\ UNCHANGED <<vars, working, process, render, bounds>>

RecordRaises(t) ==
    /\ At(t, "record")
    /\ Mishap("history")
    /\ leaked' = leaked \cup batch[t]
    /\ CallEnds(t)
    /\ UNCHANGED <<up, evicting>>

StopEvicted(t) ==
    /\ At(t, "stop")
    /\ \E r \in todo[t] : Stopped(t, r)
    /\ UNCHANGED <<vars, pc, batch, granted, sweeping, process, render, calls>>

\* Mutant of StopsDone: the reconcile goes on to the restores after the first
\* container it stopped.
StopsFirstOnly(t) ==
    /\ At(t, "stop")
    /\ todo[t] # batch[t] \/ todo[t] = {}
    /\ evicting' = evicting \ batch[t]
    /\ leaked' = leaked \ batch[t]
    /\ batch' = [batch EXCEPT ![t] = {}]
    /\ Goto(t, "restore")
    /\ UNCHANGED <<vars, up, todo, granted, sweeping, lock, saved, adopted,
                   phase, render, bounds>>

StopsDone(t) ==
    /\ At(t, "stop")
    /\ todo[t] = {}
    /\ evicting' = evicting \ batch[t]
    /\ leaked' = leaked \ batch[t]
    /\ batch' = [batch EXCEPT ![t] = {}]
    /\ Goto(t, "restore")
    /\ UNCHANGED <<vars, up, todo, granted, sweeping, lock, saved, adopted,
                   phase, render, bounds>>

\* The admitted jobs are started: a lease job has no container, so nothing is,
\* but looking its container up may raise.  take_restorable then makes its
\* residents idle-cached again before any of them is started.
RestoreStep(t) ==
    /\ At(t, "restore")
    /\ TakeRestorable
    /\ granted' = {}
    /\ todo' = [todo EXCEPT ![t] = evicted \ evicted']
    /\ changed' = (t = Loop /\ (changed \/ evicted' # evicted))
    /\ Goto(t, "start")
    /\ UNCHANGED <<up, batch, seen, pending, process, render, bounds>>

StartRestored(t) ==
    /\ At(t, "start")
    /\ \E r \in todo[t] : Started(t, r)
    /\ UNCHANGED <<vars, pc, batch, granted, sweeping, process, render, calls>>

\* An API call releases the lock and persists; a sweep persists first, and
\* only after a transition or a failed write.
ReconcileDone(t) ==
    /\ At(t, "start")
    /\ todo[t] = {}
    /\ IF t \in Api
       THEN lock' = Nobody /\ Goto(t, "persist")
       ELSE IF changed \/ ~saved
       THEN lock' = lock /\ Goto(t, "persist")
       ELSE lock' = Nobody /\ Goto(t, "enforce")
    /\ changed' = FALSE
    /\ UNCHANGED <<vars, up, reconciling, seen, pending, marks, saved, adopted,
                   phase, render, bounds>>

ReconcileRaises(t) ==
    /\ \/ At(t, "stop") /\ \E r \in todo[t] : up' \in {up, up \ {r}}
       \/ At(t, "restore") /\ granted # {} /\ up' = up
       \/ At(t, "start") /\ \E r \in todo[t] : up' \in {up, up \cup {r}}
    /\ Raised(t)

\* Mutant of WriteState: a failed write still counts as saved.
WriteClaimsSaved ==
    \/ Save /\ saved' = TRUE /\ UNCHANGED mishaps
    \/ Mishap("write") /\ saved' = TRUE /\ UNCHANGED vars

\* _persist: the file is replaced, or the claim that it is current is dropped.
WriteState ==
    \/ Save /\ saved' = TRUE /\ UNCHANGED mishaps
    \/ Mishap("write") /\ saved' = FALSE /\ UNCHANGED vars

Persist(t) ==
    /\ At(t, "persist")
    /\ WriteState
    /\ IF t \in Api
       THEN lock' = lock /\ Goto(t, "idle")
       ELSE lock' = Nobody
            /\ Goto(t, IF phase = "boot" THEN "rendered" ELSE "enforce")
    /\ UNCHANGED <<working, marks, adopted, phase, render, calls>>

-----------------------------------------------------------------------------
(* The lease loop: tick, adopt the render, sweep, enforce the evictions. *)

LoopTick ==
    /\ phase = "serving"
    /\ At(Loop, "idle")
    /\ Tick
    /\ Goto(Loop, "adopt")
    /\ UNCHANGED <<working, process, render, bounds>>

\* adopt_if_render_changed: the render that was adopted last is still there.
LoopNoAdopt ==
    /\ phase = "serving"
    /\ At(Loop, "adopt")
    /\ adopted = render
    /\ Goto(Loop, "sweep")
    /\ UNCHANGED <<vars, working, process, render, bounds>>

\* Otherwise it reads the render, and only then, in adopt, takes the fingerprint
\* it will remember.  At startup the render was read before the residents were
\* registered.
LoopRender ==
    /\ phase = "serving"
    /\ At(Loop, "adopt")
    /\ adopted # render
    /\ pending' = [pending EXCEPT !.read = render]
    /\ Goto(Loop, "rendered")
    /\ UNCHANGED <<vars, up, reconciling, changed, seen, process, render,
                   bounds>>

\* A render that cannot be read is not tried again before the next one.
LoopRenderFails ==
    /\ phase = "serving"
    /\ At(Loop, "adopt")
    /\ adopted # render
    /\ Mishap("unread")
    /\ adopted' = render
    /\ Goto(Loop, "sweep")
    /\ UNCHANGED <<vars, working, lock, marks, saved, phase, render, calls>>

LoopFingerprint ==
    /\ At(Loop, "rendered")
    /\ pending' = [pending EXCEPT !.stamp = render]
    /\ Goto(Loop, "stamped")
    /\ UNCHANGED <<vars, up, reconciling, changed, seen, process, render,
                   bounds>>

\* Mutant of LoopAdopt: the fingerprint is taken after the wait for the lock.
LoopAdoptsStale ==
    /\ At(Loop, "stamped")
    /\ lock = Nobody
    /\ UpdateFootprints(pending.read)
    /\ adopted' = render
    /\ Goto(Loop, IF phase = "boot" THEN "idle" ELSE "sweep")
    /\ phase' = "serving"
    /\ pending' = [pending EXCEPT !.stamp = pending.read]
    /\ UNCHANGED <<up, reconciling, changed, seen, lock, marks, saved, render,
                   bounds>>

\* It adopts what it read once the operation lock is free; an apply may have
\* put another render there by then.  (A render in flight that is no longer
\* needed is set to the one read last, here and in VerbEnd.)
LoopAdopt ==
    /\ At(Loop, "stamped")
    /\ lock = Nobody
    /\ UpdateFootprints(pending.read)
    /\ adopted' = pending.stamp
    /\ IF foot' = foot /\ idle' = idle
       THEN /\ lock' = lock
            /\ Goto(Loop, IF phase = "boot" THEN "idle" ELSE "sweep")
            /\ phase' = "serving"
       ELSE lock' = Loop /\ Goto(Loop, "adopted") /\ UNCHANGED phase
    /\ pending' = [pending EXCEPT !.stamp = pending.read]
    /\ UNCHANGED <<up, reconciling, changed, seen, marks, saved, render,
                   bounds>>

LoopAdopted ==
    /\ At(Loop, "adopted")
    /\ WriteState
    /\ lock' = Nobody
    /\ Goto(Loop, IF phase = "boot" THEN "idle" ELSE "sweep")
    /\ phase' = "serving"
    /\ UNCHANGED <<working, marks, adopted, render, calls>>

\* sweep_leases: expired leases end, if no other operation runs.
LoopSweep ==
    /\ At(Loop, "sweep")
    /\ lock \in {Nobody, Loop}
    /\ SweepExpired
    /\ lock' = Loop
    /\ changed' = (Expired # {})
    /\ Goto(Loop, "pump")
    /\ UNCHANGED <<up, reconciling, seen, pending, marks, saved, adopted,
                   phase, render, bounds>>

\* Stopping an expired job's own container raises, or recording its end does:
\* the sweep ends there.
LoopSweepRaises ==
    /\ At(Loop, "sweep")
    /\ lock \in {Nobody, Loop}
    /\ Expired # {}
    /\ SweepExpired
    /\ Mishap("raise") \/ Mishap("history")
    /\ lock' = Nobody
    /\ Goto(Loop, "idle")
    /\ phase' = IF phase = "boot" THEN "down" ELSE phase
    /\ UNCHANGED <<working, marks, saved, adopted, render, calls>>

LoopSweepBusy ==
    /\ At(Loop, "sweep")
    /\ lock \notin {Nobody, Loop}
    /\ Goto(Loop, "enforce")
    /\ UNCHANGED <<vars, working, process, render, bounds>>

\* Mutant of EnforceBegin: nothing is enforced while a lease runs.
EnforceBetweenLeases ==
    /\ At(Loop, "enforce")
    /\ Goto(Loop, IF evicted = {} \/ running # {} THEN "idle" ELSE "read")
    /\ UNCHANGED <<vars, working, process, render, bounds>>

\* enforce_evictions, without the lock: nothing evicted, nothing to do;
\* otherwise read _evicting, then list the containers, then read the evicted
\* set again, then stop each stray.
EnforceBegin ==
    /\ At(Loop, "enforce")
    /\ Goto(Loop, IF evicted = {} THEN "idle" ELSE "read")
    /\ UNCHANGED <<vars, working, process, render, bounds>>

EnforceRead ==
    /\ At(Loop, "read")
    /\ seen' = evicting
    /\ Goto(Loop, "list")
    /\ UNCHANGED <<vars, up, reconciling, changed, pending, process, render,
                   bounds>>

EnforceList ==
    /\ At(Loop, "list")
    /\ \/ seen' = up \ seen /\ Goto(Loop, "stray") /\ UNCHANGED mishaps
       \/ Mishap("raise") /\ seen' = {} /\ Goto(Loop, "idle")
    /\ UNCHANGED <<vars, up, reconciling, changed, pending, process, render,
                   calls>>

EnforcePick ==
    /\ At(Loop, "stray")
    /\ todo' = [todo EXCEPT ![Loop] = evicted \cap seen]
    /\ seen' = {}
    /\ Goto(Loop, "enforcing")
    /\ UNCHANGED <<vars, up, batch, granted, changed, pending, process, render,
                   bounds>>

EnforceStop ==
    /\ At(Loop, "enforcing")
    /\ \E r \in todo[Loop] : Stopped(Loop, r)
    /\ UNCHANGED <<vars, pc, batch, granted, sweeping, process, render, calls>>

EnforceRaises ==
    /\ At(Loop, "enforcing")
    /\ \E r \in todo[Loop] : up' \in {up, up \ {r}}
    /\ Raised(Loop)

EnforceDone ==
    /\ At(Loop, "enforcing")
    /\ todo[Loop] = {}
    /\ Goto(Loop, "idle")
    /\ UNCHANGED <<vars, working, process, render, bounds>>

-----------------------------------------------------------------------------
(* A lifecycle verb or an apply (ordo/control/api.py, apply.py): it holds   *)
(* the operation lock for as long as it runs, and an apply changes the      *)
(* render and adopts it, or puts the previous render back and applies that. *)
(* A verb that finds the lock taken answers 409.                            *)

VerbBegin ==
    /\ phase = "serving"
    /\ At(Verb, "idle")
    /\ lock = Nobody
    /\ calls < MaxCalls
    /\ calls' = calls + 1
    /\ lock' = Verb
    /\ Goto(Verb, "verb")
    /\ UNCHANGED <<vars, working, marks, saved, adopted, phase, render,
                   mishaps>>

VerbRenders ==
    /\ At(Verb, "verb")
    /\ \E fp \in Renders \ {render} : render' = fp
    /\ pending' = [pending EXCEPT !.undo = render]
    /\ Goto(Verb, "applied")
    /\ UNCHANGED <<vars, up, reconciling, changed, seen, process, bounds>>

\* The apply was refused or failed: the previous source is rendered again.
VerbRollsBack ==
    /\ At(Verb, "applied")
    /\ render' = pending.undo
    /\ Goto(Verb, "undone")
    /\ UNCHANGED <<vars, working, process, bounds>>

VerbAdopts ==
    /\ pc[Verb] \in {"applied", "undone"}
    /\ UpdateFootprints(render)
    /\ adopted' = render
    /\ Goto(Verb, IF foot' = foot /\ idle' = idle THEN "done" ELSE "adopted")
    /\ UNCHANGED <<working, lock, marks, saved, phase, render, bounds>>

VerbPersists ==
    /\ At(Verb, "adopted")
    /\ WriteState
    /\ Goto(Verb, "done")
    /\ UNCHANGED <<working, lock, marks, adopted, phase, render, calls>>

\* It returns; a verb may not render, and an apply may fail before it adopts.
VerbEnd ==
    /\ pc[Verb] \in {"verb", "applied", "undone", "done"}
    /\ lock' = Nobody
    /\ Goto(Verb, "idle")
    /\ pending' = [pending EXCEPT !.undo = pending.read]
    /\ UNCHANGED <<vars, up, reconciling, changed, seen, marks, saved, adopted,
                   phase, render, bounds>>

-----------------------------------------------------------------------------
(* Outside the process. *)

\* A whole-stack `docker compose up -d` starts every stopped service.
Stray ==
    /\ Mishap("stray")
    /\ \E r \in DOMAIN render \ up : up' = up \cup {r}
    /\ UNCHANGED <<vars, pc, reconciling, sweeping, process, render, calls>>

\* A host `ordo apply` writes out/ without calling this process.
HostApply ==
    /\ Mishap("render")
    /\ \E fp \in Renders \ {render} : render' = fp
    /\ UNCHANGED <<vars, pc, working, process, calls>>

\* The process dies between any two steps.  Its memory is gone: what it held
\* is replaced when the next one loads the file.
Crash ==
    /\ phase # "down"
    /\ Mishap("crash")
    /\ phase' = "down"
    /\ UNCHANGED <<vars, pc, working, lock, marks, saved, adopted, render,
                   calls>>

\* start_residents: the render's residents are registered, and the saved state
\* is adopted under the operation lock, which the sweep then holds.
Booted ==
    /\ phase = "down"
    /\ phase' = "boot"
    /\ lock' = Loop
    /\ evicting' = {}
    /\ leaked' = {}
    /\ saved' = FALSE
    /\ pc' = [t \in Threads |-> IF t = Loop THEN "sweep" ELSE "idle"]
    /\ todo' = [t \in Threads |-> {}]
    /\ batch' = [t \in Threads |-> {}]
    /\ granted' = {}
    /\ changed' = FALSE
    /\ seen' = {}
    /\ pending' = [pending EXCEPT !.read = render]
    /\ UNCHANGED <<up, adopted, render, calls>>

Boot ==
    /\ Booted
    /\ \E down \in 0..MaxTtl : Load(render, down)
    /\ UNCHANGED mishaps

\* The residents that are not running, all of them when docker cannot say.
\* The crash before it was the mishap that is counted.
BootUnreadable ==
    /\ Booted
    /\ \/ LoadUnreadable(render, DOMAIN render \ up)
       \/ LoadUnreadable(render, DOMAIN render)
    /\ "file" \in Mishaps
    /\ UNCHANGED mishaps

-----------------------------------------------------------------------------

\* A stack that was brought up: the residents run, and the first process of
\* the installation serves.
BrokerInit ==
    /\ Init
    /\ render \in Renders
    /\ Elements(idle) = DOMAIN render
    /\ foot = [r \in Residents |-> IF r \in DOMAIN render THEN render[r] ELSE 0]
    /\ up = DOMAIN render
    /\ lock = Nobody
    /\ evicting = {}
    /\ leaked = {}
    /\ pc = [t \in Threads |-> "idle"]
    /\ todo = [t \in Threads |-> {}]
    /\ batch = [t \in Threads |-> {}]
    /\ granted = {}
    /\ changed = FALSE
    /\ seen = {}
    /\ saved = FALSE
    /\ pending = [read |-> render, stamp |-> render, undo |-> render]
    /\ adopted = render
    /\ phase = "serving"
    /\ mishaps = 0
    /\ calls = 0

Alive == phase # "down"

ApiCall ==
    \E t \in Api, j \in Jobs :
        \/ ApiRequest(t, j)
        \/ ApiComplete(t, j)
        \/ ApiHeartbeat(t, j)

\* A thread carries its call on.
Continue(t) ==
    \/ TryReconcile(t)
    \/ PumpStep(t)
    \/ MarkEvicting(t)
    \/ RecordRejected(t)
    \/ RecordRaises(t)
    \/ StopEvicted(t)
    \/ StopsDone(t)
    \/ RestoreStep(t)
    \/ StartRestored(t)
    \/ ReconcileDone(t)
    \/ ReconcileRaises(t)
    \/ Persist(t)

LoopStep ==
    \/ LoopTick
    \/ LoopNoAdopt
    \/ LoopRender
    \/ LoopRenderFails
    \/ LoopFingerprint
    \/ LoopAdopt
    \/ LoopAdopted
    \/ LoopSweep
    \/ LoopSweepRaises
    \/ LoopSweepBusy
    \/ EnforceBegin
    \/ EnforceRead
    \/ EnforceList
    \/ EnforcePick
    \/ EnforceStop
    \/ EnforceRaises
    \/ EnforceDone

VerbStep ==
    \/ VerbRenders
    \/ VerbRollsBack
    \/ VerbAdopts
    \/ VerbPersists
    \/ VerbEnd

BrokerNext ==
    \/ Alive /\ ApiCall
    \/ Alive /\ \E t \in Api \cup {Loop} : Continue(t)
    \/ Alive /\ LoopStep
    \/ Alive /\ VerbBegin
    \/ Alive /\ VerbStep
    \/ Stray
    \/ HostApply
    \/ Crash
    \/ Boot
    \/ BootUnreadable

BrokerSpec == BrokerInit /\ [][BrokerNext]_brokerVars

\* A call that was accepted runs on, the lease loop is a thread of its own that
\* survives every exception, a verb ends, and the container of a process that
\* died is restarted.  No client calls, no docker call fails and no lock is
\* granted by fairness.
BrokerFairness ==
    /\ \A t \in Api : WF_brokerVars(Alive /\ Continue(t))
    /\ WF_brokerVars(Alive /\ (Continue(Loop) \/ LoopStep))
    /\ WF_brokerVars(Alive /\ VerbStep)
    /\ WF_brokerVars(Boot)

FairBrokerSpec == BrokerSpec /\ BrokerFairness

-----------------------------------------------------------------------------
(* Properties. *)

\* Where a thread can be: between two calls, in a reconcile, in a pass of the
\* lease loop, or in a verb.
Places ==
    {"idle", "reconcile", "pump", "mark", "mark, record", "record", "stop",
     "restore", "start", "persist"}
    \cup {"adopt", "rendered", "stamped", "adopted", "sweep", "enforce", "read",
          "list", "stray", "enforcing"}
    \cup {"verb", "applied", "undone", "done"}

BrokerTypeOK ==
    /\ up \subseteq Residents
    /\ lock \in Threads \cup {Nobody}
    /\ evicting \subseteq Residents
    /\ leaked \subseteq Residents
    /\ pc \in [Threads -> Places]
    /\ todo \in [Threads -> SUBSET Residents]
    /\ batch \in [Threads -> SUBSET Residents]
    /\ granted \subseteq Jobs
    /\ changed \in BOOLEAN
    /\ seen \subseteq Residents
    /\ saved \in BOOLEAN
    /\ render \in Renders
    /\ adopted \in Renders
    /\ pending \in [read : Renders, stamp : Renders, undo : Renders]
    /\ phase \in {"serving", "boot", "down"}

\* A decision is still the scheduler's when it is carried out: whatever calls,
\* sweeps, verbs and restarts come between, a resident that a reconcile is
\* about to stop is still evicted, and one that it is about to start is idle
\* again (the operation lock, broker.py: two reconciles never interleave).
DecisionsCurrent ==
    phase # "down" =>
        \A t \in Api \cup {Loop} :
            /\ pc[t] \in {"mark", "mark, record", "record", "stop"} => todo[t] \subseteq evicted
            /\ At(t, "start") => todo[t] \subseteq Elements(idle)

\* _evicting only ever excuses a resident that is evicted, and only while a
\* reconcile still has it in its batch: nothing stays excused, whatever docker
\* call raises, so enforce_evictions never loses sight of a stray for good.  The
\* exception is a lease history that cannot be written between the mark and the
\* try that clears it (broker.py:1536-1543): that batch stays marked, `leaked`.
EvictingIsEvicted ==
    phase # "down" =>
        /\ evicting \ leaked \subseteq evicted
        /\ evicting = leaked \cup UNION {batch[t] : t \in Threads}

\* Nobody keeps the operation lock: a thread between two calls does not hold
\* it, whether its call returned, was refused or raised.
LockIsReleased ==
    phase # "down" =>
        \A t \in Threads : lock = t => pc[t] \notin {"idle", "reconcile", "adopt",
                                                     "enforce", "read", "list",
                                                     "stray", "enforcing"}

\* No call that raises, is refused or returns early leaves a mark or the lock
\* behind (Broker.reconcile, Broker._reconcile_unless_busy).
NothingLeaks == EvictingIsEvicted /\ LockIsReleased

\* As long as nothing outside the code goes wrong, an evicted resident whose
\* container runs is one that the reconcile under way is about to stop: no
\* interleaving of calls, sweeps and verbs forgets to take one off the card.
EvictedIsStopped ==
    mishaps = 0 =>
        \A r \in evicted \cap up :
            \E t \in Api \cup {Loop} :
                /\ r \in todo[t]
                /\ pc[t] \in {"mark", "mark, record", "record", "stop"}

\* As long as nothing outside the code goes wrong, a resident the scheduler
\* counts on the card runs, or the reconcile under way is about to start it: "a
\* resident that is running because it was just restored is never mistaken for
\* a stray and stopped (which would strand it down)", broker.py:1620.
RestoredStaysUp ==
    mishaps = 0 =>
        \A r \in Elements(idle) \ up :
            \E t \in Api \cup {Loop} : r \in todo[t] /\ At(t, "start")

\* enforce_evictions: an evicted resident that something started again is
\* stopped, or its eviction ends, before or after a restart.
StrayStopped ==
    \A r \in Residents : (r \in evicted /\ r \in up) ~> ~(r \in evicted /\ r \in up)

\* The leases and the evictions reach the state file in the end, after a failed
\* write, a refused lock or a restart: nothing stays unsaved.
LeasesReachDisk ==
    <>[](disk.running = running /\ disk.evicted = evicted /\ saved)

\* The sizes the scheduler counts are those of the render that is there.
SizesCurrent == \A r \in DOMAIN render : foot[r] = render[r]

\* Whichever of an apply, its rollback, a host apply and the lease loop reads
\* the render first, the scheduler ends up counting the residents at the sizes
\* it declares, unless it changes while adopt_if_render_changed is reading it.
RenderIsAdopted ==
    [](At(Loop, "rendered") => pending.read = render)
        => <>[](adopted = render /\ SizesCurrent)

\* The broker drives the scheduler the way Scheduler allows: no interleaving
\* of its threads, failure or restart asks for anything else.
DrivesTheScheduler == Spec
=============================================================================
