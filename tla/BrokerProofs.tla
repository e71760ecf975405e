---------------------------- MODULE BrokerProofs -----------------------------
(***************************************************************************)
(* Proofs about Broker, for any number of calls, residents and mishaps.    *)
(* Whatever its threads, its failures and its restarts do, the broker      *)
(* takes no step the scheduler does not allow, so what SchedulerProofs     *)
(* proves of Scheduler holds of the running process.  Then the broker's    *)
(* own invariants: a decision is carried out as it was taken, the lock and *)
(* the marks are always given up, and an evicted resident is stopped.      *)
(***************************************************************************)
EXTENDS Broker, SchedulerProofs

\* The renders a thread carries from one step to a later one.
InFlight == [read : Renders, stamp : Renders, undo : Renders]

\* What the broker adopts is a render.
RenderInv ==
    /\ render \in Renders
    /\ pending \in InFlight

\* A step of an API call, or of a reconcile, is a step of the scheduler or
\* leaves it alone.
LEMMA ApiCallStep == ApiCall => [Next]_vars
<1> SUFFICES ASSUME NEW t \in Api, NEW j \in Jobs,
                    ApiRequest(t, j) \/ ApiComplete(t, j) \/ ApiHeartbeat(t, j)
             PROVE  Next
  BY DEF ApiCall
<1>1. CASE ApiRequest(t, j)
  BY <1>1 DEF ApiRequest, Next, Decide
<1>2. CASE ApiComplete(t, j)
  BY <1>2 DEF ApiComplete, Next, Decide
<1>3. CASE ApiHeartbeat(t, j)
  BY <1>3 DEF ApiHeartbeat, Next, Decide
<1> QED
  BY <1>1, <1>2, <1>3

\* Writing the state is a save, or nothing.
LEMMA WriteStateStep == WriteState => [Next]_vars
BY DEF WriteState, Next

LEMMA ContinueStep == ASSUME NEW t, Continue(t) PROVE [Next]_vars
<1>1. CASE TryReconcile(t)
  BY <1>1 DEF TryReconcile
<1>2. CASE PumpStep(t)
  BY <1>2 DEF PumpStep, Next, Decide
<1>3. CASE MarkEvicting(t)
  BY <1>3 DEF MarkEvicting
<1>4. CASE StopEvicted(t)
  BY <1>4 DEF StopEvicted
<1>5. CASE StopsDone(t)
  BY <1>5 DEF StopsDone
<1>6. CASE RestoreStep(t)
  BY <1>6 DEF RestoreStep, Next, Decide
<1>7. CASE StartRestored(t)
  BY <1>7 DEF StartRestored
<1>8. CASE ReconcileDone(t)
  BY <1>8 DEF ReconcileDone
<1>9. CASE ReconcileRaises(t)
  BY <1>9 DEF ReconcileRaises, Raised, CallEnds
<1>10. CASE Persist(t)
  BY <1>10, WriteStateStep DEF Persist
<1>11. CASE RecordRejected(t)
  BY <1>11 DEF RecordRejected
<1>12. CASE RecordRaises(t)
  BY <1>12 DEF RecordRaises, CallEnds
<1> QED
  BY <1>1, <1>2, <1>3, <1>4, <1>5, <1>6, <1>7, <1>8, <1>9, <1>10, <1>11, <1>12
  DEF Continue

\* So is a step of the lease loop: the render it adopts is one it read.
LEMMA LoopStepStep == ASSUME RenderInv, LoopStep PROVE [Next]_vars
<1>1. CASE LoopTick
  BY <1>1 DEF LoopTick, Next, Decide
<1>2. CASE LoopNoAdopt \/ LoopRender \/ LoopRenderFails \/ LoopFingerprint
  BY <1>2 DEF LoopNoAdopt, LoopRender, LoopRenderFails, LoopFingerprint
<1>3. CASE LoopAdopt
  <2>1. pending.read \in Renders
    BY DEF RenderInv, InFlight
  <2> QED
    BY <1>3, <2>1 DEF LoopAdopt, Next, Decide
<1>4. CASE LoopAdopted
  BY <1>4, WriteStateStep DEF LoopAdopted
<1>5. CASE LoopSweep \/ LoopSweepRaises
  BY <1>5 DEF LoopSweep, LoopSweepRaises, Next, Decide
<1>6. CASE LoopSweepBusy
  BY <1>6 DEF LoopSweepBusy
<1>7. CASE EnforceBegin \/ EnforceRead \/ EnforceList \/ EnforcePick
  BY <1>7 DEF EnforceBegin, EnforceRead, EnforceList, EnforcePick
<1>8. CASE EnforceStop \/ EnforceRaises \/ EnforceDone
  BY <1>8 DEF EnforceStop, EnforceRaises, EnforceDone, Raised, CallEnds
<1> QED
  BY <1>1, <1>2, <1>3, <1>4, <1>5, <1>6, <1>7, <1>8 DEF LoopStep

\* And of a verb.
LEMMA VerbStepStep == ASSUME RenderInv, VerbStep PROVE [Next]_vars
<1>1. CASE VerbRenders \/ VerbRollsBack
  BY <1>1 DEF VerbRenders, VerbRollsBack
<1>2. CASE VerbAdopts
  BY <1>2 DEF VerbAdopts, RenderInv, Next, Decide
<1>3. CASE VerbPersists
  BY <1>3, WriteStateStep DEF VerbPersists
<1>4. CASE VerbEnd
  BY <1>4 DEF VerbEnd
<1> QED
  BY <1>1, <1>2, <1>3, <1>4 DEF VerbStep

\* What happens outside the process leaves the scheduler alone, but for the
\* process that starts: it loads the file, or finds it unreadable.
LEMMA BootStep == ASSUME RenderInv, Boot \/ BootUnreadable PROVE [Next]_vars
<1>1. CASE Boot
  BY <1>1 DEF Boot, RenderInv, Next, Restart
<1>2. CASE BootUnreadable
  <2>1. DOMAIN render \ up \in SUBSET DOMAIN render
    OBVIOUS
  <2>2. DOMAIN render \in SUBSET DOMAIN render
    OBVIOUS
  <2>3. \E down \in SUBSET DOMAIN render : LoadUnreadable(render, down)
    BY <1>2, <2>1, <2>2 DEF BootUnreadable
  <2> QED
    BY <2>3 DEF RenderInv, Next, Restart
<1> QED
  BY <1>1, <1>2

\* Every step of the broker is a step of the scheduler or leaves it alone.
LEMMA BrokerStep == RenderInv /\ [BrokerNext]_brokerVars => [Next]_vars
<1> SUFFICES ASSUME RenderInv, [BrokerNext]_brokerVars PROVE [Next]_vars
  OBVIOUS
<1>1. CASE ApiCall
  BY <1>1, ApiCallStep
<1>2. CASE \E t \in Api \cup {Loop} : Continue(t)
  BY <1>2, ContinueStep
<1>3. CASE LoopStep
  BY <1>3, LoopStepStep
<1>4. CASE VerbBegin
  BY <1>4 DEF VerbBegin
<1>5. CASE VerbStep
  BY <1>5, VerbStepStep
<1>6. CASE Stray \/ HostApply \/ Crash
  BY <1>6 DEF Stray, HostApply, Crash
<1>7. CASE Boot \/ BootUnreadable
  BY <1>7, BootStep
<1>8. CASE UNCHANGED brokerVars
  BY <1>8 DEF brokerVars
<1> QED
  BY <1>1, <1>2, <1>3, <1>4, <1>5, <1>6, <1>7, <1>8 DEF BrokerNext

\* The render on disk, and the one the lease loop read, are renders.
LEMMA RenderInvStep == RenderInv /\ [BrokerNext]_brokerVars => RenderInv'
<1> SUFFICES ASSUME RenderInv, [BrokerNext]_brokerVars PROVE RenderInv'
  OBVIOUS
<1>1. CASE ApiCall
  BY <1>1 DEF ApiCall, ApiRequest, ApiComplete, ApiHeartbeat, RenderInv,
              working, sweeping
<1>2. CASE \E t \in Api \cup {Loop} : Continue(t)
  <2>1. PICK t \in Api \cup {Loop} : Continue(t)
    BY <1>2
  <2>2. CASE \/ TryReconcile(t) \/ PumpStep(t) \/ MarkEvicting(t)
             \/ RecordRejected(t) \/ RecordRaises(t)
             \/ StopEvicted(t) \/ StopsDone(t)
    BY <2>2 DEF TryReconcile, PumpStep, MarkEvicting, RecordRejected,
                RecordRaises, CallEnds, StopEvicted, StopsDone, RenderInv,
                working, sweeping
  <2>3. CASE \/ RestoreStep(t) \/ StartRestored(t) \/ ReconcileDone(t)
             \/ ReconcileRaises(t) \/ Persist(t)
    BY <2>3 DEF RestoreStep, StartRestored, ReconcileDone, ReconcileRaises,
                Raised, CallEnds, Persist, RenderInv, working, sweeping
  <2> QED
    BY <2>1, <2>2, <2>3 DEF Continue
<1>3. CASE LoopStep
  <2>1. CASE LoopTick \/ LoopNoAdopt \/ LoopAdopted \/ LoopRenderFails
    BY <2>1 DEF LoopTick, LoopNoAdopt, LoopAdopted, LoopRenderFails, RenderInv,
                working, sweeping
  <2>5. CASE LoopRender
    BY <2>5 DEF LoopRender, RenderInv, InFlight
  <2>6. CASE LoopFingerprint
    BY <2>6 DEF LoopFingerprint, RenderInv, InFlight
  <2>7. CASE LoopAdopt
    BY <2>7 DEF LoopAdopt, RenderInv, InFlight
  <2>2. CASE LoopSweep \/ LoopSweepRaises \/ LoopSweepBusy
    BY <2>2 DEF LoopSweep, LoopSweepRaises, LoopSweepBusy, RenderInv, working, sweeping
  <2>3. CASE EnforceBegin \/ EnforceRead \/ EnforceList \/ EnforcePick
    BY <2>3 DEF EnforceBegin, EnforceRead, EnforceList, EnforcePick, RenderInv,
                working, sweeping
  <2>4. CASE EnforceStop \/ EnforceRaises \/ EnforceDone
    BY <2>4 DEF EnforceStop, EnforceRaises, EnforceDone, Raised, CallEnds,
                RenderInv, working, sweeping
  <2> QED
    BY <1>3, <2>1, <2>2, <2>3, <2>4, <2>5, <2>6, <2>7 DEF LoopStep
<1>4. CASE VerbBegin \/ VerbStep
  <2>1. CASE VerbBegin \/ VerbAdopts \/ VerbPersists
    BY <2>1 DEF VerbBegin, VerbAdopts, VerbPersists, RenderInv, working, sweeping
  <2>2. CASE VerbRenders
    BY <2>2 DEF VerbRenders, RenderInv, InFlight
  <2>3. CASE VerbRollsBack
    BY <2>3 DEF VerbRollsBack, RenderInv, InFlight, working, sweeping
  <2>4. CASE VerbEnd
    BY <2>4 DEF VerbEnd, RenderInv, InFlight
  <2> QED
    BY <1>4, <2>1, <2>2, <2>3, <2>4 DEF VerbStep
<1>5. CASE Stray \/ HostApply \/ Crash
  BY <1>5 DEF Stray, HostApply, Crash, RenderInv, working, sweeping
<1>6. CASE Boot \/ BootUnreadable
  BY <1>6 DEF Boot, BootUnreadable, Booted, RenderInv, InFlight
<1>7. CASE UNCHANGED brokerVars
  BY <1>7 DEF brokerVars, working, sweeping, RenderInv
<1> QED
  BY <1>1, <1>2, <1>3, <1>4, <1>5, <1>6, <1>7 DEF BrokerNext

\* The broker's threads, mishaps and restarts implement the scheduler: for any
\* number of API workers, requests, residents, renders and mishaps.
THEOREM BrokerImplementsScheduler == BrokerSpec => DrivesTheScheduler
<1>1. BrokerInit => Init /\ RenderInv
  BY DEF BrokerInit, RenderInv, InFlight
<1> QED
  BY <1>1, BrokerStep, RenderInvStep, PTL DEF BrokerSpec, Spec, DrivesTheScheduler

\* So in the running process the leases of clients fit the card together.
THEOREM BrokerLeasesFit == BrokerSpec => []ClientLeasesFit
BY BrokerImplementsScheduler, LeasesFit, PTL DEF DrivesTheScheduler
-----------------------------------------------------------------------------
(* The operation lock.  A reconcile, an adoption and a verb hold it from    *)
(* their first step to their last, so what one of them decided cannot be    *)
(* undone by another before it is carried out.                              *)

\* The places of a reconcile.
Reconciling == {"pump", "mark", "mark, record", "record", "stop", "restore", "start"}

\* The places at which a thread holds the lock, whichever thread it is.
Locked == Reconciling \cup {"adopted", "verb", "applied", "undone", "done"}

\* A thread at such a place holds the lock, and who holds it is at one; the
\* lease loop holds it while it persists a sweep, and a process that starts
\* holds it when its first sweep begins.
LockInv ==
    /\ \A t \in Threads : pc[t] \in Locked => lock = t
    /\ \A t \in Threads \ {Loop} : lock = t => pc[t] \in Locked
    /\ pc[Loop] = "persist" => lock = Loop
    /\ lock = Loop => pc[Loop] \in Locked \cup {"persist", "sweep"}
    /\ pc[Loop] # "reconcile"

\* A batch is marked while its reconcile stops it, and it is evicted; what is
\* marked beside the batches was left by a call that could not record.
MarksInv ==
    /\ \A t \in Threads : batch[t] # {} => pc[t] \in {"record", "stop"}
    /\ \A t \in Threads : batch[t] \subseteq evicted
    /\ \A r : r \in evicting <=> r \in leaked \/ \E t \in Threads : r \in batch[t]

\* What a reconcile has still to do is what the scheduler decided.
DecidedInv ==
    \A t \in Api \cup {Loop} :
        /\ pc[t] \in {"mark", "mark, record", "record", "stop"} => todo[t] \subseteq evicted
        /\ pc[t] = "start" => todo[t] \subseteq Elements(idle)

\* Without a mishap the process never dies, and every evicted resident that
\* runs is on a list of those to stop.
StoppingInv ==
    /\ mishaps \in Nat
    /\ mishaps = 0 => phase # "down"
    /\ EvictedIsStopped

BrokerInv ==
    /\ IInv
    /\ BrokerTypeOK
    /\ LockInv
    /\ MarksInv
    /\ DecidedInv
    /\ StoppingInv

-----------------------------------------------------------------------------
(* The lock is taken and given back as LockInv says. *)

\* A step of a reconcile, or of the call that waits for one, keeps LockInv.
LEMMA ContinueLock ==
    ASSUME pc \in [Threads -> Places], LockInv, NEW t \in Api \cup {Loop}, Continue(t)
    PROVE  LockInv'
<1> USE ThreadsAssumption DEF LockInv, Locked, Reconciling, Threads, At, Goto
<1>1. CASE TryReconcile(t)
  <2>1. CASE lock = Nobody
    <3>1. lock' = t /\ pc' = [pc EXCEPT ![t] = "pump"]
      BY <1>1, <2>1 DEF TryReconcile
    <3>2. \A u \in Threads : pc[u] \notin Locked
      BY <2>1
    <3> QED
      BY <2>1, <3>1, <3>2
  <2>2. CASE lock # Nobody
    BY <1>1, <2>2 DEF TryReconcile
  <2> QED
    BY <2>1, <2>2
<1>2. CASE PumpStep(t)
  BY <1>2 DEF PumpStep, process
<1>3. CASE MarkEvicting(t)
  BY <1>3 DEF MarkEvicting
<1>4. CASE RecordRejected(t)
  BY <1>4 DEF RecordRejected, process
<1>5. CASE RecordRaises(t)
  BY <1>5 DEF RecordRaises, CallEnds
<1>6. CASE StopEvicted(t) \/ StartRestored(t)
  BY <1>6 DEF StopEvicted, StartRestored, process
<1>7. CASE StopsDone(t)
  BY <1>7 DEF StopsDone
<1>8. CASE RestoreStep(t)
  BY <1>8 DEF RestoreStep, process
<1>9. CASE ReconcileDone(t)
  BY <1>9 DEF ReconcileDone
<1>10. CASE ReconcileRaises(t)
  BY <1>10 DEF ReconcileRaises, Raised, CallEnds
<1>11. CASE Persist(t)
  <2>1. CASE t \in Api
    BY <1>11, <2>1 DEF Persist
  <2>2. CASE t = Loop
    BY <1>11, <2>2 DEF Persist
  <2> QED
    BY <2>1, <2>2
<1> QED
  BY <1>1, <1>2, <1>3, <1>4, <1>5, <1>6, <1>7, <1>8, <1>9, <1>10, <1>11 DEF Continue

\* So does every other step.
LEMMA LockStep ==
    ASSUME pc \in [Threads -> Places], LockInv, [BrokerNext]_brokerVars
    PROVE  LockInv'
<1> USE ThreadsAssumption DEF LockInv, Locked, Reconciling, Threads, At, Goto
<1>1. CASE ApiCall
  BY <1>1 DEF ApiCall, ApiRequest, ApiComplete, ApiHeartbeat, Call, Serves, process
<1>2. CASE \E t \in Api \cup {Loop} : Continue(t)
  BY <1>2, ContinueLock
<1>3. CASE LoopTick \/ LoopNoAdopt \/ LoopRender \/ LoopRenderFails \/ LoopFingerprint
  BY <1>3 DEF LoopTick, LoopNoAdopt, LoopRender, LoopRenderFails, LoopFingerprint, process
<1>4. CASE LoopAdopt
  BY <1>4 DEF LoopAdopt
<1>5. CASE LoopAdopted
  BY <1>5 DEF LoopAdopted
<1>6. CASE LoopSweep \/ LoopSweepRaises \/ LoopSweepBusy
  BY <1>6 DEF LoopSweep, LoopSweepRaises, LoopSweepBusy, process
<1>7. CASE EnforceBegin \/ EnforceRead \/ EnforceList \/ EnforcePick
  BY <1>7 DEF EnforceBegin, EnforceRead, EnforceList, EnforcePick, process
<1>8. CASE EnforceStop \/ EnforceRaises \/ EnforceDone
  BY <1>8 DEF EnforceStop, EnforceRaises, EnforceDone, Raised, CallEnds, process
<1>9. CASE VerbBegin \/ VerbRenders \/ VerbRollsBack
  BY <1>9 DEF VerbBegin, VerbRenders, VerbRollsBack, process
<1>10. CASE VerbAdopts \/ VerbPersists \/ VerbEnd
  BY <1>10 DEF VerbAdopts, VerbPersists, VerbEnd
<1>11. CASE Stray \/ HostApply \/ Crash
  BY <1>11 DEF Stray, HostApply, Crash, process
<1>12. CASE Boot \/ BootUnreadable
  BY <1>12 DEF Boot, BootUnreadable, Booted
<1>13. CASE UNCHANGED brokerVars
  BY <1>13 DEF brokerVars, process
<1> QED
  BY <1>1, <1>2, <1>3, <1>4, <1>5, <1>6, <1>7, <1>8, <1>9, <1>10, <1>11, <1>12, <1>13
  DEF BrokerNext, LoopStep, VerbStep

-----------------------------------------------------------------------------
(* The marks.                                                               *)

\* Whoever is at a locked place is there alone, and only its batch is marked.
LEMMA OneAtATime ==
    ASSUME LockInv, MarksInv, NEW t \in Threads, pc[t] \in Locked
    PROVE  \A u \in Threads \ {t} : pc[u] \notin Locked /\ batch[u] = {}
BY DEF LockInv, MarksInv, Locked, Reconciling

\* A step of a reconcile keeps the marks.
LEMMA ContinueMarks ==
    ASSUME pc \in [Threads -> Places], batch \in [Threads -> SUBSET Residents],
           LockInv, MarksInv, DecidedInv, NEW t \in Api \cup {Loop}, Continue(t)
    PROVE  MarksInv'
<1>0. t \in Threads
  BY DEF Threads
<1> USE <1>0 DEF MarksInv, At, Goto
<1>1. CASE TryReconcile(t)
  BY <1>1 DEF TryReconcile, working, reconciling, marks, vars
<1>2. CASE PumpStep(t)
  BY <1>2, PumpEvicts DEF PumpStep, process, marks
<1>3. CASE MarkEvicting(t)
  <2>1. /\ evicting' = evicting \cup todo[t]
        /\ batch' = [batch EXCEPT ![t] = todo[t]]
        /\ pc' = [pc EXCEPT ![t] = pc'[t]]
        /\ pc'[t] \in {"record", "stop"}
        /\ UNCHANGED <<leaked, evicted>>
    BY <1>3 DEF MarkEvicting, vars
  <2>2. batch[t] = {} /\ todo[t] \subseteq evicted
    BY <1>3 DEF MarkEvicting, DecidedInv
  <2> QED
    BY <2>1, <2>2
<1>4. CASE RecordRejected(t)
  BY <1>4 DEF RecordRejected, working, reconciling, process, marks, vars
<1>5. CASE RecordRaises(t)
  BY <1>5 DEF RecordRaises, CallEnds, vars
<1>6. CASE StopEvicted(t) \/ StartRestored(t)
  BY <1>6 DEF StopEvicted, StartRestored, process, marks, vars
<1>7. CASE StopsDone(t)
  BY <1>7, OneAtATime DEF StopsDone, vars, Locked, Reconciling
<1>8. CASE RestoreStep(t)
  BY <1>8, OneAtATime DEF RestoreStep, process, marks, Locked, Reconciling
<1>9. CASE ReconcileDone(t)
  BY <1>9 DEF ReconcileDone, reconciling, marks, vars
<1>10. CASE ReconcileRaises(t)
  <2>1. /\ evicting' = evicting \ batch[t]
        /\ leaked' = leaked \ batch[t]
        /\ batch' = [batch EXCEPT ![t] = {}]
        /\ pc' = [pc EXCEPT ![t] = "idle"]
        /\ evicted' = evicted
    BY <1>10 DEF ReconcileRaises, Raised, CallEnds, vars
  <2>2. pc[t] \in Locked
    BY <1>10 DEF ReconcileRaises, Locked, Reconciling
  <2>3. \A u \in Threads \ {t} : batch[u] = {}
    BY <2>2, OneAtATime
  <2> QED
    BY <2>1, <2>3
<1>11. CASE Persist(t)
  BY <1>11 DEF Persist, WriteState, Save, decisions, working, reconciling, marks, vars
<1> QED
  BY <1>1, <1>2, <1>3, <1>4, <1>5, <1>6, <1>7, <1>8, <1>9, <1>10, <1>11 DEF Continue

\* Writing the file moves no resident.
LEMMA WriteStateStays == WriteState => UNCHANGED <<idle, evicted>>
BY DEF WriteState, Save, decisions, vars

\* Every other step keeps the marks too.
LEMMA MarksStep ==
    ASSUME pc \in [Threads -> Places], batch \in [Threads -> SUBSET Residents],
           LockInv, MarksInv, DecidedInv, [BrokerNext]_brokerVars
    PROVE  MarksInv'
<1> USE DEF MarksInv, At, Goto
<1>1. CASE ApiCall
  <2>1. PICK t \in Api, j \in Jobs :
           ApiRequest(t, j) \/ ApiComplete(t, j) \/ ApiHeartbeat(t, j)
    BY <1>1 DEF ApiCall
  <2>2. evicted' = evicted
    BY <2>1 DEF ApiRequest, ApiComplete, ApiHeartbeat, Submit, Complete, Heartbeat
  <2>3. UNCHANGED <<batch, evicting, leaked>>
    BY <2>1 DEF ApiRequest, ApiComplete, ApiHeartbeat, working, reconciling, process, marks
  <2>4. pc[t] = "idle"
    BY <2>1 DEF ApiRequest, ApiComplete, ApiHeartbeat, Call, Serves
  <2>5. \A u \in Threads : pc'[u] = pc[u] \/ u = t
    BY <2>1 DEF ApiRequest, ApiComplete, ApiHeartbeat
  <2> QED
    BY <2>2, <2>3, <2>4, <2>5
<1>2. CASE \E t \in Api \cup {Loop} : Continue(t)
  BY <1>2, ContinueMarks
<1>3. CASE \/ LoopTick \/ LoopNoAdopt \/ LoopRender \/ LoopRenderFails
           \/ LoopFingerprint \/ LoopSweepBusy
  BY <1>3 DEF LoopTick, Tick, LoopNoAdopt, LoopRender, LoopRenderFails,
              LoopFingerprint, LoopSweepBusy, working, reconciling, process, marks, vars
<1>4. CASE LoopAdopt
  BY <1>4 DEF LoopAdopt, UpdateFootprints, reconciling, marks
<1>5. CASE LoopAdopted
  BY <1>5, WriteStateStays DEF LoopAdopted, working, reconciling, marks
<1>6. CASE LoopSweep \/ LoopSweepRaises
  BY <1>6 DEF LoopSweep, LoopSweepRaises, SweepExpired, working, reconciling, marks
<1>7. CASE EnforceBegin \/ EnforceRead \/ EnforceList \/ EnforcePick
  BY <1>7 DEF EnforceBegin, EnforceRead, EnforceList, EnforcePick, working,
              reconciling, process, marks, vars
<1>8. CASE EnforceStop \/ EnforceDone
  BY <1>8 DEF EnforceStop, EnforceDone, working, reconciling, process, marks, vars
<1>9. CASE EnforceRaises
  <2>1. batch[Loop] = {}
    BY <1>9 DEF EnforceRaises, Threads
  <2>2. /\ evicting' = evicting \ batch[Loop]
        /\ leaked' = leaked \ batch[Loop]
        /\ batch' = [batch EXCEPT ![Loop] = {}]
        /\ pc' = [pc EXCEPT ![Loop] = "idle"]
        /\ evicted' = evicted
    BY <1>9 DEF EnforceRaises, Raised, CallEnds, vars
  <2> QED
    BY <2>1, <2>2
<1>10. CASE VerbBegin \/ VerbRenders \/ VerbRollsBack \/ VerbEnd
  BY <1>10 DEF VerbBegin, VerbRenders, VerbRollsBack, VerbEnd, working, reconciling,
               process, marks, vars
<1>11. CASE VerbAdopts \/ VerbPersists
  BY <1>11, WriteStateStays
  DEF VerbAdopts, VerbPersists, UpdateFootprints, working, reconciling, marks
<1>12. CASE Stray \/ HostApply \/ Crash
  BY <1>12 DEF Stray, HostApply, Crash, working, reconciling, process, marks, vars
<1>13. CASE Boot \/ BootUnreadable
  BY <1>13 DEF Boot, BootUnreadable, Booted
<1>14. CASE UNCHANGED brokerVars
  BY <1>14 DEF brokerVars, working, reconciling, process, marks, vars
<1> QED
  BY <1>1, <1>2, <1>3, <1>4, <1>5, <1>6, <1>7, <1>8, <1>9, <1>10, <1>11, <1>12,
     <1>13, <1>14
  DEF BrokerNext, LoopStep, VerbStep

-----------------------------------------------------------------------------
(* What was decided is still so when it is carried out.                     *)

\* A step of a reconcile does what was decided, or decides: the thread that
\* holds the lock is the only one with decisions to carry out.
LEMMA ContinueDecided ==
    ASSUME IInv, pc \in [Threads -> Places], todo \in [Threads -> SUBSET Residents],
           LockInv, MarksInv, DecidedInv, NEW t \in Api \cup {Loop}, Continue(t)
    PROVE  DecidedInv'
<1>0. t \in Threads /\ \A u \in Api \cup {Loop} : u \in Threads
  BY DEF Threads
<1> USE <1>0 DEF DecidedInv, At, Goto
<1>1. CASE TryReconcile(t)
  BY <1>1 DEF TryReconcile, working, reconciling, vars
<1>2. CASE PumpStep(t)
  <2>1. \A u \in Threads \ {t} : pc'[u] \notin Locked
    BY <1>2, OneAtATime DEF PumpStep, Locked, Reconciling
  <2>2. todo'[t] \subseteq evicted' /\ pc'[t] \in {"mark", "mark, record"}
    BY <1>2 DEF PumpStep
  <2> QED
    BY <2>1, <2>2 DEF Locked, Reconciling
<1>3. CASE MarkEvicting(t) \/ RecordRejected(t) \/ StopsDone(t) \/ ReconcileDone(t)
  BY <1>3 DEF MarkEvicting, RecordRejected, StopsDone, ReconcileDone, working,
              reconciling, vars
<1>4. CASE RecordRaises(t) \/ ReconcileRaises(t)
  BY <1>4 DEF RecordRaises, ReconcileRaises, Raised, CallEnds, vars
<1>5. CASE StopEvicted(t) \/ StartRestored(t)
  BY <1>5 DEF StopEvicted, StartRestored, Stopped, Started, vars
<1>6. CASE RestoreStep(t)
  <2>1. \A u \in Threads \ {t} : pc'[u] \notin Locked
    BY <1>6, OneAtATime DEF RestoreStep, Locked, Reconciling
  <2>2. todo'[t] = evicted \ evicted' /\ pc'[t] = "start"
    BY <1>6 DEF RestoreStep
  <2>3. evicted \ evicted' \subseteq Elements(idle')
    BY <1>6, RestoreMoves DEF RestoreStep
  <2> QED
    BY <2>1, <2>2, <2>3 DEF Locked, Reconciling
<1>7. CASE Persist(t)
  BY <1>7, WriteStateStays DEF Persist, working, reconciling
<1> QED
  BY <1>1, <1>2, <1>3, <1>4, <1>5, <1>6, <1>7 DEF Continue

\* No call, sweep, adoption, verb or restart undoes a decision under way.
LEMMA DecidedStep ==
    ASSUME IInv, RenderInv,
           pc \in [Threads -> Places], todo \in [Threads -> SUBSET Residents],
           LockInv, MarksInv, DecidedInv, [BrokerNext]_brokerVars
    PROVE  DecidedInv'
<1>0. \A u \in Api \cup {Loop} : u \in Threads
  BY DEF Threads
<1> USE <1>0 DEF DecidedInv, At, Goto
<1>1. CASE ApiCall
  <2>1. PICK t \in Api, j \in Jobs :
           ApiRequest(t, j) \/ ApiComplete(t, j) \/ ApiHeartbeat(t, j)
    BY <1>1 DEF ApiCall
  <2>2. UNCHANGED <<todo, idle, evicted>>
    BY <2>1 DEF ApiRequest, ApiComplete, ApiHeartbeat, Submit, Complete, Heartbeat,
                working, reconciling
  <2>3. \/ pc' = pc
        \/ \E place \in {"reconcile", "persist"} : pc' = [pc EXCEPT ![t] = place]
    BY <2>1 DEF ApiRequest, ApiComplete, ApiHeartbeat
  <2> QED
    BY <2>2, <2>3
<1>2. CASE \E t \in Api \cup {Loop} : Continue(t)
  BY <1>2, ContinueDecided
<1>3. CASE \/ LoopTick \/ LoopNoAdopt \/ LoopRender \/ LoopRenderFails
           \/ LoopFingerprint \/ LoopSweepBusy
  BY <1>3 DEF LoopTick, Tick, LoopNoAdopt, LoopRender, LoopRenderFails,
              LoopFingerprint, LoopSweepBusy, working, reconciling, vars
<1>4. CASE LoopAdopt
  <2>1. evicted' = evicted /\ Elements(idle) \subseteq Elements(idle')
    BY <1>4, ResidentsStay DEF LoopAdopt, RenderInv, InFlight
  <2>2. todo' = todo
    BY <1>4 DEF LoopAdopt, reconciling
  <2>3. pc' = [pc EXCEPT ![Loop] = pc'[Loop]] /\ pc'[Loop] \in {"idle", "sweep", "adopted"}
    BY <1>4 DEF LoopAdopt, Threads
  <2> QED
    BY <2>1, <2>2, <2>3
<1>5. CASE LoopAdopted
  BY <1>5, WriteStateStays DEF LoopAdopted, working, reconciling
<1>6. CASE LoopSweep \/ LoopSweepRaises
  BY <1>6 DEF LoopSweep, LoopSweepRaises, SweepExpired, working, reconciling
<1>7. CASE EnforceBegin \/ EnforceRead \/ EnforceList \/ EnforcePick
  BY <1>7 DEF EnforceBegin, EnforceRead, EnforceList, EnforcePick, working,
              reconciling, vars
<1>8. CASE EnforceStop \/ EnforceRaises \/ EnforceDone
  BY <1>8 DEF EnforceStop, EnforceRaises, EnforceDone, Stopped, Raised, CallEnds,
              working, reconciling, vars
<1>9. CASE VerbAdopts
  <2>1. evicted' = evicted /\ Elements(idle) \subseteq Elements(idle')
    BY <1>9, ResidentsStay DEF VerbAdopts, RenderInv
  <2>2. todo' = todo /\ \A u \in Threads : pc'[u] = pc[u] \/ u = Verb
    BY <1>9 DEF VerbAdopts, working, reconciling
  <2> QED
    BY <2>1, <2>2, ThreadsAssumption
<1>10. CASE VerbBegin \/ VerbRenders \/ VerbRollsBack \/ VerbEnd
  BY <1>10 DEF VerbBegin, VerbRenders, VerbRollsBack, VerbEnd, working, reconciling, vars
<1>11. CASE VerbPersists
  BY <1>11, WriteStateStays DEF VerbPersists, working, reconciling
<1>12. CASE Stray \/ HostApply \/ Crash
  BY <1>12 DEF Stray, HostApply, Crash, working, reconciling, vars
<1>13. CASE Boot \/ BootUnreadable
  BY <1>13 DEF Boot, BootUnreadable, Booted
<1>14. CASE UNCHANGED brokerVars
  BY <1>14 DEF brokerVars, working, reconciling, vars
<1> QED
  BY <1>1, <1>2, <1>3, <1>4, <1>5, <1>6, <1>7, <1>8, <1>9, <1>10, <1>11, <1>12,
     <1>13, <1>14
  DEF BrokerNext, LoopStep, VerbStep

-----------------------------------------------------------------------------
(* Without a mishap, every evicted resident that runs is about to be stopped. *)

\* Mishaps are only ever counted up, and the process dies of one only.
LEMMA MishapsCount ==
    ASSUME mishaps \in Nat, [BrokerNext]_brokerVars
    PROVE  /\ mishaps' \in {mishaps, mishaps + 1}
           /\ mishaps' = mishaps => phase' # "down" \/ phase' = phase
<1> USE DEF Mishap
<1>1. CASE ApiCall
  BY <1>1 DEF ApiCall, ApiRequest, ApiComplete, ApiHeartbeat, Call, process, bounds
<1>2. CASE \E t \in Api \cup {Loop} : Continue(t)
  <2>1. PICK t \in Api \cup {Loop} : Continue(t)
    BY <1>2
  <2>2. CASE \/ TryReconcile(t) \/ PumpStep(t) \/ MarkEvicting(t) \/ RecordRejected(t)
             \/ StopsDone(t) \/ RestoreStep(t) \/ ReconcileDone(t)
    BY <2>2 DEF TryReconcile, PumpStep, MarkEvicting, RecordRejected, StopsDone,
                RestoreStep, ReconcileDone, process, bounds
  <2>3. CASE RecordRaises(t) \/ ReconcileRaises(t)
    BY <2>3 DEF RecordRaises, ReconcileRaises, Raised
  <2>4. CASE StopEvicted(t) \/ StartRestored(t)
    BY <2>4 DEF StopEvicted, StartRestored, Stopped, Started, process
  <2>5. CASE Persist(t)
    BY <2>5 DEF Persist, WriteState
  <2> QED
    BY <2>1, <2>2, <2>3, <2>4, <2>5 DEF Continue
<1>3. CASE \/ LoopTick \/ LoopNoAdopt \/ LoopRender \/ LoopRenderFails
           \/ LoopFingerprint \/ LoopSweepBusy
  BY <1>3 DEF LoopTick, LoopNoAdopt, LoopRender, LoopRenderFails, LoopFingerprint,
              LoopSweepBusy, process, bounds
<1>4. CASE LoopAdopt \/ LoopSweep
  BY <1>4 DEF LoopAdopt, LoopSweep, bounds
<1>5. CASE LoopAdopted
  BY <1>5 DEF LoopAdopted, WriteState
<1>6. CASE LoopSweepRaises
  BY <1>6 DEF LoopSweepRaises
<1>7. CASE EnforceBegin \/ EnforceRead \/ EnforceList \/ EnforcePick
  BY <1>7 DEF EnforceBegin, EnforceRead, EnforceList, EnforcePick, process, bounds
<1>8. CASE EnforceStop \/ EnforceRaises \/ EnforceDone
  BY <1>8 DEF EnforceStop, EnforceRaises, EnforceDone, Stopped, Raised, process, bounds
<1>9. CASE VerbBegin \/ VerbRenders \/ VerbRollsBack \/ VerbAdopts \/ VerbEnd
  BY <1>9 DEF VerbBegin, VerbRenders, VerbRollsBack, VerbAdopts, VerbEnd, process, bounds
<1>10. CASE VerbPersists
  BY <1>10 DEF VerbPersists, WriteState
<1>11. CASE Stray \/ HostApply \/ Crash
  BY <1>11 DEF Stray, HostApply, Crash, process
<1>12. CASE Boot \/ BootUnreadable
  BY <1>12 DEF Boot, BootUnreadable, Booted
<1>13. CASE UNCHANGED brokerVars
  BY <1>13 DEF brokerVars, process, bounds
<1> QED
  BY <1>1, <1>2, <1>3, <1>4, <1>5, <1>6, <1>7, <1>8, <1>9, <1>10, <1>11, <1>12, <1>13
  DEF BrokerNext, LoopStep, VerbStep

\* A step of a reconcile without a mishap forgets no evicted resident.
LEMMA ContinueStopping ==
    ASSUME IInv, pc \in [Threads -> Places], todo \in [Threads -> SUBSET Residents],
           LockInv, MarksInv, DecidedInv, EvictedIsStopped,
           mishaps \in Nat, mishaps = 0, mishaps' = 0,
           NEW t \in Api \cup {Loop}, Continue(t)
    PROVE  EvictedIsStopped'
<1>0. t \in Threads /\ \A u \in Api \cup {Loop} : u \in Threads
  BY DEF Threads
<1>a. ~Mishap("raise") /\ ~Mishap("silent") /\ ~Mishap("history") /\ ~Mishap("write")
  BY DEF Mishap
<1> USE <1>0, <1>a DEF EvictedIsStopped, At, Goto
<1>1. CASE TryReconcile(t)
  BY <1>1 DEF TryReconcile, working, reconciling, vars
<1>2. CASE PumpStep(t)
  <2>1. /\ todo' = [todo EXCEPT ![t] = evicted' \ evicted]
        /\ pc' = [pc EXCEPT ![t] = pc'[t]]
        /\ pc'[t] \in {"mark", "mark, record"}
        /\ pc[t] = "pump"
        /\ up' = up
    BY <1>2 DEF PumpStep
  <2> QED
    BY <2>1
<1>3. CASE MarkEvicting(t) \/ RecordRejected(t) \/ StopsDone(t) \/ ReconcileDone(t)
  BY <1>3 DEF MarkEvicting, RecordRejected, StopsDone, ReconcileDone, working,
              reconciling, vars
<1>4. CASE RecordRaises(t) \/ ReconcileRaises(t)
  BY <1>4 DEF RecordRaises, ReconcileRaises, Raised
<1>5. CASE StopEvicted(t)
  BY <1>5 DEF StopEvicted, Stopped, vars
<1>6. CASE StartRestored(t)
  <2>1. PICK r \in todo[t] : Started(t, r)
    BY <1>6 DEF StartRestored
  <2>2. r \notin evicted
    BY <1>6, <2>1 DEF StartRestored, DecidedInv, IInv, ResidentInOnePlace
  <2>3. /\ pc[t] = "start"
        /\ UNCHANGED <<pc, evicted>>
        /\ todo' = [todo EXCEPT ![t] = @ \ {r}]
        /\ up' = up \cup {r}
    BY <1>6, <2>1 DEF StartRestored, Started, vars
  <2> QED
    BY <2>2, <2>3
<1>7. CASE RestoreStep(t)
  <2>1. evicted' \subseteq evicted
    BY <1>7, RestoreMoves DEF RestoreStep
  <2>2. /\ pc[t] = "restore"
        /\ pc' = [pc EXCEPT ![t] = "start"]
        /\ up' = up
        /\ \A u \in Threads \ {t} : todo'[u] = todo[u]
    BY <1>7 DEF RestoreStep
  <2> QED
    BY <2>1, <2>2
<1>8. CASE Persist(t)
  BY <1>8, WriteStateStays DEF Persist, working, reconciling
<1> QED
  BY <1>1, <1>2, <1>3, <1>4, <1>5, <1>6, <1>7, <1>8 DEF Continue

\* Nor does any other step, whatever thread takes it.
LEMMA StoppingStep ==
    ASSUME IInv, pc \in [Threads -> Places], todo \in [Threads -> SUBSET Residents],
           LockInv, MarksInv, DecidedInv, StoppingInv, [BrokerNext]_brokerVars
    PROVE  StoppingInv'
<1>1. mishaps' \in Nat /\ (mishaps' = 0 => mishaps = 0 /\ phase' # "down")
  BY MishapsCount DEF StoppingInv
<1>2. CASE mishaps' # 0
  BY <1>1, <1>2 DEF StoppingInv, EvictedIsStopped
<1>3. CASE mishaps' = 0
  <2>0. /\ mishaps = 0 /\ phase # "down" /\ EvictedIsStopped
        /\ ~Mishap("raise") /\ ~Mishap("history") /\ ~Mishap("silent")
        /\ ~Mishap("stray") /\ ~Mishap("render") /\ ~Mishap("crash")
    BY <1>1, <1>3 DEF StoppingInv, Mishap
  <2>00. \A u \in Api \cup {Loop} : u \in Threads
    BY DEF Threads
  <2> SUFFICES EvictedIsStopped'
    BY <1>1 DEF StoppingInv
  <2> USE <2>0, <2>00 DEF EvictedIsStopped, At, Goto
  <2>1. CASE ApiCall
    <3>1. PICK t \in Api, j \in Jobs :
             ApiRequest(t, j) \/ ApiComplete(t, j) \/ ApiHeartbeat(t, j)
      BY <2>1 DEF ApiCall
    <3>2. UNCHANGED <<todo, up, evicted>>
      BY <3>1 DEF ApiRequest, ApiComplete, ApiHeartbeat, Submit, Complete, Heartbeat,
                  working, reconciling
    <3>3. pc[t] = "idle" /\ \A u \in Threads : pc'[u] = pc[u] \/ u = t
      BY <3>1 DEF ApiRequest, ApiComplete, ApiHeartbeat, Call, Serves
    <3> QED
      BY <3>2, <3>3
  <2>2. CASE \E t \in Api \cup {Loop} : Continue(t)
    BY <1>1, <1>3, <2>2, ContinueStopping DEF StoppingInv
  <2>3. CASE \/ LoopTick \/ LoopNoAdopt \/ LoopRender \/ LoopRenderFails
             \/ LoopFingerprint \/ LoopSweepBusy
    BY <2>3 DEF LoopTick, Tick, LoopNoAdopt, LoopRender, LoopRenderFails,
                LoopFingerprint, LoopSweepBusy, working, reconciling, vars
  <2>4. CASE LoopAdopt
    BY <2>4 DEF LoopAdopt, UpdateFootprints, reconciling
  <2>5. CASE LoopAdopted
    BY <2>5, WriteStateStays DEF LoopAdopted, working, reconciling
  <2>6. CASE LoopSweep \/ LoopSweepRaises
    BY <2>6 DEF LoopSweep, LoopSweepRaises, SweepExpired, working, reconciling
  <2>7. CASE EnforceBegin \/ EnforceRead \/ EnforceList \/ EnforcePick
    BY <2>7 DEF EnforceBegin, EnforceRead, EnforceList, EnforcePick, working,
                reconciling, vars
  <2>8. CASE EnforceStop \/ EnforceRaises \/ EnforceDone
    BY <2>8 DEF EnforceStop, EnforceRaises, EnforceDone, Stopped, Raised,
                working, reconciling, vars
  <2>9. CASE VerbAdopts \/ VerbPersists
    BY <2>9, WriteStateStays, ThreadsAssumption
    DEF VerbAdopts, VerbPersists, UpdateFootprints, working, reconciling
  <2>10. CASE VerbBegin \/ VerbRenders \/ VerbRollsBack \/ VerbEnd
    BY <2>10, ThreadsAssumption
    DEF VerbBegin, VerbRenders, VerbRollsBack, VerbEnd, working, reconciling, vars
  <2>11. CASE Stray \/ HostApply \/ Crash
    BY <2>11 DEF Stray, HostApply, Crash
  <2>12. CASE Boot \/ BootUnreadable
    BY <2>12 DEF Boot, BootUnreadable, Booted
  <2>13. CASE UNCHANGED brokerVars
    BY <2>13 DEF brokerVars, working, reconciling, vars
  <2> QED
    BY <2>1, <2>2, <2>3, <2>4, <2>5, <2>6, <2>7, <2>8, <2>9, <2>10, <2>11, <2>12, <2>13
    DEF BrokerNext, LoopStep, VerbStep
<1> QED
  BY <1>2, <1>3

-----------------------------------------------------------------------------
(* Types.                                                                   *)

\* The types of the fields that are not flags.
FieldTypes ==
    /\ up \subseteq Residents
    /\ lock \in Threads \cup {Nobody}
    /\ evicting \subseteq Residents
    /\ leaked \subseteq Residents
    /\ pc \in [Threads -> Places]
    /\ todo \in [Threads -> SUBSET Residents]
    /\ batch \in [Threads -> SUBSET Residents]
    /\ granted \subseteq Jobs
    /\ seen \subseteq Residents
    /\ render \in Renders
    /\ adopted \in Renders
    /\ pending \in [read : Renders, stamp : Renders, undo : Renders]
    /\ phase \in {"serving", "boot", "down"}

\* What a pump admits are jobs.
LEMMA AdmittedJobs ==
    ASSUME queue \in Seq(Jobs), NEW n \in 0..Len(queue)
    PROVE  Admitted(n) \subseteq Jobs
<1>1. \A i \in 1..n : queue[i] \in Jobs
  OBVIOUS
<1> QED
  BY <1>1 DEF Admitted

\* A step of a reconcile keeps the types.
LEMMA ContinueFields ==
    ASSUME IInv, IInv', FieldTypes, NEW t \in Api \cup {Loop}, Continue(t)
    PROVE  FieldTypes'
<1>0. /\ t \in Threads
      /\ evicted \subseteq Residents /\ evicted' \subseteq Residents
      /\ todo[t] \subseteq Residents /\ batch[t] \subseteq Residents
  BY DEF Threads, IInv, TypeOK, FieldTypes
<1> USE <1>0 DEF FieldTypes, At, Goto, Places
<1>1. CASE TryReconcile(t)
  BY <1>1 DEF TryReconcile, working, reconciling, sweeping, marks, vars
<1>2. CASE PumpStep(t)
  <2>1. granted' \subseteq Jobs
    <3>1. PICK n \in 0..Len(queue) : running' = running \cup Admitted(n)
      BY <1>2 DEF PumpStep, Pump
    <3>2. queue \in Seq(Jobs)
      BY DEF IInv, TypeOK
    <3>3. Admitted(n) \subseteq Jobs
      BY <3>1, <3>2, AdmittedJobs
    <3>4. granted' = running' \ running
      BY <1>2 DEF PumpStep
    <3> QED
      BY <3>1, <3>3, <3>4
  <2> QED
    BY <1>2, <2>1 DEF PumpStep, process, marks
<1>3. CASE MarkEvicting(t) \/ RecordRejected(t)
  BY <1>3 DEF MarkEvicting, RecordRejected, working, reconciling, sweeping, process, marks
<1>4. CASE RecordRaises(t)
  BY <1>4 DEF RecordRaises, CallEnds
<1>5. CASE StopEvicted(t) \/ StartRestored(t)
  BY <1>5 DEF StopEvicted, StartRestored, Stopped, Started, sweeping, process, marks
<1>6. CASE StopsDone(t)
  BY <1>6 DEF StopsDone, sweeping
<1>7. CASE RestoreStep(t)
  BY <1>7 DEF RestoreStep, process, marks
<1>8. CASE ReconcileDone(t)
  BY <1>8 DEF ReconcileDone, reconciling, marks
<1>9. CASE ReconcileRaises(t)
  BY <1>9 DEF ReconcileRaises, Raised, CallEnds
<1>10. CASE Persist(t)
  BY <1>10 DEF Persist, WriteState, working, reconciling, sweeping, marks
<1> QED
  BY <1>1, <1>2, <1>3, <1>4, <1>5, <1>6, <1>7, <1>8, <1>9, <1>10 DEF Continue

\* So does every other step.
LEMMA FieldTypesStep ==
    ASSUME IInv, IInv', FieldTypes, [BrokerNext]_brokerVars
    PROVE  FieldTypes'
<1>0. {Loop, Verb} \subseteq Threads /\ evicted \subseteq Residents
  BY DEF Threads, IInv, TypeOK
<1>00. DOMAIN render \subseteq Residents
  BY RendersAssumption DEF FieldTypes
<1> USE <1>0, <1>00 DEF FieldTypes, At, Goto, Places
<1>1. CASE ApiCall
  BY <1>1 DEF ApiCall, ApiRequest, ApiComplete, ApiHeartbeat, Call, Serves, Threads,
              working, reconciling, sweeping, process, marks
<1>2. CASE \E t \in Api \cup {Loop} : Continue(t)
  BY <1>2, ContinueFields
<1>3. CASE LoopTick \/ LoopNoAdopt \/ LoopRender \/ LoopRenderFails \/ LoopFingerprint
  BY <1>3 DEF LoopTick, LoopNoAdopt, LoopRender, LoopRenderFails, LoopFingerprint,
              working, reconciling, sweeping, process, marks
<1>4. CASE LoopAdopt
  BY <1>4 DEF LoopAdopt, reconciling, marks
<1>5. CASE LoopAdopted
  BY <1>5 DEF LoopAdopted, WriteState, working, reconciling, sweeping, marks
<1>6. CASE LoopSweep \/ LoopSweepRaises \/ LoopSweepBusy
  BY <1>6 DEF LoopSweep, LoopSweepRaises, LoopSweepBusy, working, reconciling,
              sweeping, process, marks
<1>7. CASE EnforceBegin \/ EnforceRead \/ EnforceList \/ EnforcePick
  BY <1>7 DEF EnforceBegin, EnforceRead, EnforceList, EnforcePick, working,
              reconciling, sweeping, process, marks
<1>8. CASE EnforceStop \/ EnforceRaises \/ EnforceDone
  BY <1>8 DEF EnforceStop, EnforceRaises, EnforceDone, Stopped, Raised, CallEnds,
              working, reconciling, sweeping, process, marks
<1>9. CASE VerbBegin \/ VerbRenders \/ VerbRollsBack
  BY <1>9 DEF VerbBegin, VerbRenders, VerbRollsBack, working, reconciling, sweeping,
              process, marks
<1>10. CASE VerbAdopts \/ VerbPersists \/ VerbEnd
  BY <1>10 DEF VerbAdopts, VerbPersists, VerbEnd, WriteState, working, reconciling,
               sweeping, marks
<1>11. CASE Stray \/ HostApply \/ Crash
  BY <1>11 DEF Stray, HostApply, Crash, working, reconciling, sweeping, process, marks
<1>12. CASE Boot \/ BootUnreadable
  BY <1>12 DEF Boot, BootUnreadable, Booted
<1>13. CASE UNCHANGED brokerVars
  BY <1>13 DEF brokerVars, working, reconciling, sweeping, process, marks
<1> QED
  BY <1>1, <1>2, <1>3, <1>4, <1>5, <1>6, <1>7, <1>8, <1>9, <1>10, <1>11, <1>12, <1>13
  DEF BrokerNext, LoopStep, VerbStep

\* And the flags are flags.
LEMMA FlagsStep ==
    ASSUME BrokerTypeOK, [BrokerNext]_brokerVars
    PROVE  changed' \in BOOLEAN /\ saved' \in BOOLEAN
<1> USE DEF BrokerTypeOK, At, Goto
<1>1. CASE ApiCall
  BY <1>1 DEF ApiCall, ApiRequest, ApiComplete, ApiHeartbeat, working, sweeping, process
<1>2. CASE \E t \in Api \cup {Loop} : Continue(t)
  <2>1. PICK t \in Api \cup {Loop} : Continue(t)
    BY <1>2
  <2>2. CASE \/ TryReconcile(t) \/ PumpStep(t) \/ MarkEvicting(t) \/ RecordRejected(t)
             \/ StopsDone(t) \/ RestoreStep(t) \/ ReconcileDone(t)
    BY <2>2 DEF TryReconcile, PumpStep, MarkEvicting, RecordRejected, StopsDone,
                RestoreStep, ReconcileDone, working, sweeping, process
  <2>3. CASE RecordRaises(t) \/ ReconcileRaises(t)
    BY <2>3 DEF RecordRaises, ReconcileRaises, Raised, CallEnds
  <2>4. CASE StopEvicted(t) \/ StartRestored(t)
    BY <2>4 DEF StopEvicted, StartRestored, sweeping, process
  <2>5. CASE Persist(t)
    BY <2>5 DEF Persist, WriteState, working, sweeping
  <2> QED
    BY <2>1, <2>2, <2>3, <2>4, <2>5 DEF Continue
<1>3. CASE \/ LoopTick \/ LoopNoAdopt \/ LoopRender \/ LoopRenderFails
           \/ LoopFingerprint \/ LoopSweepBusy
  BY <1>3 DEF LoopTick, LoopNoAdopt, LoopRender, LoopRenderFails, LoopFingerprint,
              LoopSweepBusy, working, sweeping, process
<1>4. CASE LoopAdopt \/ LoopSweep \/ LoopSweepRaises
  BY <1>4 DEF LoopAdopt, LoopSweep, LoopSweepRaises, working, sweeping
<1>5. CASE LoopAdopted
  BY <1>5 DEF LoopAdopted, WriteState, working, sweeping
<1>6. CASE EnforceBegin \/ EnforceRead \/ EnforceList \/ EnforcePick
  BY <1>6 DEF EnforceBegin, EnforceRead, EnforceList, EnforcePick, working, sweeping, process
<1>7. CASE EnforceStop \/ EnforceRaises \/ EnforceDone
  BY <1>7 DEF EnforceStop, EnforceRaises, EnforceDone, Raised, CallEnds, working,
              sweeping, process
<1>8. CASE VerbBegin \/ VerbRenders \/ VerbRollsBack \/ VerbAdopts \/ VerbEnd
  BY <1>8 DEF VerbBegin, VerbRenders, VerbRollsBack, VerbAdopts, VerbEnd, working,
              sweeping, process
<1>9. CASE VerbPersists
  BY <1>9 DEF VerbPersists, WriteState, working, sweeping
<1>10. CASE Stray \/ HostApply \/ Crash
  BY <1>10 DEF Stray, HostApply, Crash, working, sweeping, process
<1>11. CASE Boot \/ BootUnreadable
  BY <1>11 DEF Boot, BootUnreadable, Booted
<1>12. CASE UNCHANGED brokerVars
  BY <1>12 DEF brokerVars, working, sweeping, process
<1> QED
  BY <1>1, <1>2, <1>3, <1>4, <1>5, <1>6, <1>7, <1>8, <1>9, <1>10, <1>11, <1>12
  DEF BrokerNext, LoopStep, VerbStep

-----------------------------------------------------------------------------

\* A stack that was brought up satisfies the invariant.
LEMMA BrokerInitInv == BrokerInit => RenderInv /\ BrokerInv
<1> SUFFICES ASSUME BrokerInit PROVE RenderInv /\ BrokerInv
  OBVIOUS
<1>1. IInv
  BY InitInv DEF BrokerInit
<1>2. RenderInv
  BY DEF BrokerInit, RenderInv, InFlight
<1>3. BrokerTypeOK
  <2>1. DOMAIN render \subseteq Residents
    BY RendersAssumption DEF BrokerInit
  <2>2. FieldTypes
    BY <2>1 DEF BrokerInit, FieldTypes, Places
  <2>3. changed \in BOOLEAN /\ saved \in BOOLEAN
    BY DEF BrokerInit
  <2> QED
    BY <2>2, <2>3 DEF FieldTypes, BrokerTypeOK
<1>4. LockInv /\ MarksInv
  BY ThreadsAssumption DEF BrokerInit, LockInv, MarksInv, Locked, Reconciling, Threads
<1>5. DecidedInv /\ StoppingInv
  BY DEF BrokerInit, Init, DecidedInv, StoppingInv, EvictedIsStopped, Threads
<1> QED
  BY <1>1, <1>2, <1>3, <1>4, <1>5 DEF BrokerInv

\* Every step keeps the invariant.
LEMMA BrokerInvStep ==
    RenderInv /\ BrokerInv /\ [BrokerNext]_brokerVars => RenderInv' /\ BrokerInv'
<1> SUFFICES ASSUME RenderInv, BrokerInv, [BrokerNext]_brokerVars
             PROVE  RenderInv' /\ BrokerInv'
  OBVIOUS
<1>1. RenderInv'
  BY RenderInvStep
<1>2. IInv'
  BY BrokerStep, NextInv DEF BrokerInv
<1>3. FieldTypes /\ pc \in [Threads -> Places] /\ batch \in [Threads -> SUBSET Residents]
      /\ todo \in [Threads -> SUBSET Residents]
  BY DEF BrokerInv, BrokerTypeOK, FieldTypes
<1>4. BrokerTypeOK'
  BY <1>2, <1>3, FieldTypesStep, FlagsStep DEF BrokerInv, BrokerTypeOK, FieldTypes
<1>5. LockInv'
  BY <1>3, LockStep DEF BrokerInv
<1>6. MarksInv'
  BY <1>3, MarksStep DEF BrokerInv
<1>7. DecidedInv'
  BY <1>3, DecidedStep DEF BrokerInv
<1>8. StoppingInv'
  BY <1>3, StoppingStep DEF BrokerInv
<1> QED
  BY <1>1, <1>2, <1>4, <1>5, <1>6, <1>7, <1>8 DEF BrokerInv

\* The broker's inductive invariant holds in every state of every behaviour.
THEOREM BrokerInvariant == BrokerSpec => [](RenderInv /\ BrokerInv)
BY BrokerInitInv, BrokerInvStep, PTL DEF BrokerSpec

\* The broker's fields keep their types.
THEOREM BrokerTypeCorrect == BrokerSpec => []BrokerTypeOK
<1>1. BrokerInv => BrokerTypeOK
  BY DEF BrokerInv
<1> QED
  BY <1>1, BrokerInvariant, PTL

\* Two reconciles never interleave: what a reconcile is about to stop is still
\* evicted, and what it is about to start is idle again, for any number of
\* threads, residents and mishaps.
THEOREM DecisionsStayCurrent == BrokerSpec => []DecisionsCurrent
<1>1. BrokerInv => DecisionsCurrent
  BY DEF BrokerInv, DecidedInv, DecisionsCurrent, At
<1> QED
  BY <1>1, BrokerInvariant, PTL

\* No call that raises, is refused or returns early leaves a resident marked or
\* the operation lock taken, but for the batch whose rejection cannot be recorded.
THEOREM NothingEverLeaks == BrokerSpec => []NothingLeaks
<1>1. BrokerInv => EvictingIsEvicted
  <2> SUFFICES ASSUME BrokerInv PROVE EvictingIsEvicted
    OBVIOUS
  <2>1. evicting \ leaked \subseteq evicted
    BY DEF BrokerInv, MarksInv
  <2>2. evicting = leaked \cup UNION {batch[t] : t \in Threads}
    BY DEF BrokerInv, MarksInv
  <2> QED
    BY <2>1, <2>2 DEF EvictingIsEvicted
<1>2. BrokerInv => LockIsReleased
  BY DEF BrokerInv, LockInv, LockIsReleased, Locked, Reconciling
<1> QED
  BY <1>1, <1>2, BrokerInvariant, PTL DEF NothingLeaks

\* As long as nothing outside the code goes wrong, the reconcile under way has
\* every evicted resident that still runs on its list.
THEOREM EvictionsAreCarriedOut == BrokerSpec => []EvictedIsStopped
<1>1. BrokerInv => EvictedIsStopped
  BY DEF BrokerInv, StoppingInv
<1> QED
  BY <1>1, BrokerInvariant, PTL
=============================================================================
