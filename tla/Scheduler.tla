----------------------------- MODULE Scheduler ------------------------------
(***************************************************************************)
(* The GPU scheduler: ordo/control/scheduler.py, the decision core that    *)
(* every use of the primary card goes through, with the state file that    *)
(* carries it across a restart (ordo/control/scheduler_state.py).          *)
(*                                                                         *)
(* Every public method of the class holds the scheduler's lock, so each is *)
(* one action here.  The two loops, pump and the restore pass, are stated  *)
(* by what they compute; SchedulerLoops holds them as they are written and *)
(* checks that the two agree in every reachable state.                     *)
(*                                                                         *)
(* VRAM is counted in units.  A job's footprint and estimate are fixed per *)
(* id.  A lease is kept as the time left to it (deadline minus clock), so  *)
(* no clock is needed: a tick takes one poll interval from every lease.    *)
(***************************************************************************)
EXTENDS Collections

CONSTANTS
    Jobs,           \* ids of the residency requests
    Residents,      \* services that stay on the card until they are evicted
    Recovery,       \* RECOVERY_JOB_ID
    Total,          \* total_vram_gb
    Vram,           \* Vram[j]: footprint job j declares
    Est,            \* Est[j]: estimate of job j in poll intervals, 0 = unknown
    DefaultTtl,     \* lease_ttl_default
    MaxTtl,         \* lease_ttl_max
    HeartbeatTtl,   \* heartbeat_ttl
    Renders         \* the footprint maps the renders declare, each one a
                    \* function from some of the residents to their VRAM

ASSUME JobsAssumption ==
    /\ IsFiniteSet(Jobs)
    /\ Recovery \notin Jobs
    /\ Total \in Nat
    /\ Vram \in [Jobs -> Nat]
    /\ Est \in [Jobs -> Nat]

ASSUME TtlAssumption ==
    /\ DefaultTtl \in Nat
    /\ MaxTtl \in Nat
    /\ HeartbeatTtl \in Nat

ASSUME RendersAssumption ==
    /\ IsFiniteSet(Residents)
    /\ \A fp \in Renders :
          DOMAIN fp \subseteq Residents /\ fp \in [DOMAIN fp -> Nat]

VARIABLES
    queue,      \* _queue: waiting requests, first in first out
    running,    \* _running: ids that hold a lease
    left,       \* _deadline - _clock of each running lease, 0 once expired
    recovered,  \* VRAM of the recovery lease, 0 without one
    idle,       \* _idle_cached in LRU order (_lru_order), coldest first
    evicted,    \* _evicted: stopped residents that wait for their restore
    foot,       \* footprint of each resident, in whichever of the two it is
    rejected,   \* _rejected: requests no card of this size can ever run
    disk        \* the state file, or NoFile

decisions == <<queue, running, left, recovered, idle, evicted, foot, rejected>>
vars == <<queue, running, left, recovered, idle, evicted, foot, rejected, disk>>

-----------------------------------------------------------------------------

Holders == Jobs \cup {Recovery}

\* What each holder of a lease occupies.
JobVram == [j \in Holders |-> IF j = Recovery THEN recovered ELSE Vram[j]]

\* used_vram_gb: running leases and idle residents; an evicted one holds none.
Used == Sum(JobVram, running) + Sum(foot, Elements(idle))

\* free_vram_gb, negative when a render has grown a resident past the card.
Free == Total - Used

Smaller(a, b) == IF a <= b THEN a ELSE b

\* _lease_ttl: twice the estimate, or the default, under the ceiling.
LeaseTtl(j) == Smaller(IF Est[j] > 0 THEN 2 * Est[j] ELSE DefaultTtl, MaxTtl)

\* What Scheduler.snapshot hands to the store.  The idle residents are not in
\* it: the next process registers them from the render it runs.
Snapshot ==
    [running |-> running, left |-> left, recovered |-> recovered,
     queue |-> queue, evicted |-> evicted,
     foot |-> [r \in Residents |-> IF r \in evicted THEN foot[r] ELSE 0],
     rejected |-> rejected]

\* Nothing has been saved yet: a process that finds no file starts empty.
NoFile ==
    [running |-> {}, left |-> [j \in Holders |-> 0], recovered |-> 0,
     queue |-> <<>>, evicted |-> {}, foot |-> [r \in Residents |-> 0],
     rejected |-> {}]

-----------------------------------------------------------------------------
(* The client's calls. *)

\* Mutant of Submit: only a queued id counts as asked.
SubmitTwice(j) ==
    /\ queue' = IF j \in Elements(queue) THEN queue ELSE Append(queue, j)
    /\ UNCHANGED <<running, left, recovered, idle, evicted, foot, rejected, disk>>

\* submit: idempotent on the id, so a request asked twice is queued once.
Submit(j) ==
    /\ queue' = IF j \in running \cup Elements(queue)
                THEN queue
                ELSE Append(queue, j)
    /\ UNCHANGED <<running, left, recovered, idle, evicted, foot, rejected, disk>>

\* complete: give up the lease, or the place in the queue.
Complete(j) ==
    /\ queue' = Without(queue, j)
    /\ running' = running \ {j}
    /\ left' = [left EXCEPT ![j] = 0]
    /\ UNCHANGED <<recovered, idle, evicted, foot, rejected, disk>>

\* heartbeat: the deadline moves to now + heartbeat_ttl, for a running job only.
Heartbeat(j) ==
    /\ j \in running
    /\ left' = [left EXCEPT ![j] = HeartbeatTtl]
    /\ UNCHANGED <<queue, running, recovered, idle, evicted, foot, rejected, disk>>

-----------------------------------------------------------------------------
(* pump: admit from the head of the queue while the head fits. *)

\* Mutant of TooBig: a request of any size waits its turn.
NeverTooBig(j) == FALSE

\* A request larger than the card is dropped, so that it blocks nobody.
TooBig(j) == Vram[j] > Total

\* Mutant of Admitted: a request behind a blocked head is admitted if it fits.
AdmittedOutOfOrder(n) ==
    {queue[i] : i \in {h \in DOMAIN queue :
        ~TooBig(queue[h]) /\ (h <= n \/ Vram[queue[h]] <= Free)}}

\* The jobs admitted when the first n requests are taken from the queue.
Admitted(n) == {j \in {queue[i] : i \in 1..n} : ~TooBig(j)}

\* Whether request n fits beside what runs and the requests before it, every
\* idle resident being evictable.
Fits(n) == Sum(JobVram, running \cup Admitted(n)) <= Total

\* The pump takes n requests, each dropped or admitted; the next, if there is
\* one, is neither.  (What fits n requests fits fewer.)
Takes(n) ==
    /\ Admitted(n) # {} => Fits(n)
    /\ n < Len(queue) => ~TooBig(queue[n + 1]) /\ ~Fits(n + 1)

\* The residents still idle once the k coldest are evicted.
Kept(k) == {idle[i] : i \in (k + 1)..Len(idle)}

\* Evicting the k coldest residents makes room for the first n requests.
RoomFor(n, k) ==
    Sum(JobVram, running \cup Admitted(n)) + Sum(foot, Kept(k)) <= Total

\* _unload_lru_until: a head that never fits has emptied the idle set before
\* it blocks; otherwise no more is evicted than the admitted jobs need.
Evicts(n, k) ==
    IF n < Len(queue) THEN k = Len(idle)
    ELSE IF Admitted(n) = {} THEN k = 0
    ELSE RoomFor(n, k) /\ \A i \in 0..(k - 1) : ~RoomFor(n, i)

\* Mutant of Pump: once the residents are evicted the head is admitted without
\* another look at what is free.
PumpUnchecked ==
    /\ queue' = <<>>
    /\ running' = running \cup Admitted(Len(queue))
    /\ left' = [j \in Holders |->
                  IF j \in Admitted(Len(queue)) THEN LeaseTtl(j) ELSE left[j]]
    /\ idle' = IF queue = <<>> THEN idle ELSE <<>>
    /\ evicted' = evicted \cup (Elements(idle) \ Elements(idle'))
    /\ rejected' = rejected \cup {j \in Elements(queue) : TooBig(j)}
    /\ UNCHANGED <<recovered, foot, disk>>

Pump ==
    \E n \in 0..Len(queue), k \in 0..Len(idle) :
        /\ Takes(n)
        /\ Evicts(n, k)
        /\ queue' = SubSeq(queue, n + 1, Len(queue))
        /\ running' = running \cup Admitted(n)
        /\ left' = [j \in Holders |->
                      IF j \in Admitted(n) THEN LeaseTtl(j) ELSE left[j]]
        /\ idle' = SubSeq(idle, k + 1, Len(idle))
        /\ evicted' = evicted \cup {idle[i] : i \in 1..k}
        /\ rejected' = rejected \cup {j \in {queue[i] : i \in 1..n} : TooBig(j)}
        /\ UNCHANGED <<recovered, foot, disk>>

-----------------------------------------------------------------------------
(* take_restorable: put evicted residents back once the queue is empty. *)

\* Mutants of Restorable: the loop breaks at the first resident that does not
\* fit; the leases are not counted.
RestorableUntilBlocked(R) ==
    /\ Sum(foot, R) <= Free
    /\ \A r \in evicted \ R, q \in R : foot[q] >= foot[r]

RestorableBesideLeases(R) ==
    Sum(foot, R) + Sum(foot, Elements(idle)) <= Total

\* _restorable_residents: largest first while they fit; one that does not fit
\* is passed over.  Residents of equal size come in either order.
Restorable(R) ==
    /\ Sum(foot, R) <= Free
    /\ \A r \in evicted \ R :
          foot[r] + Sum(foot, {q \in R : foot[q] >= foot[r]}) > Free

LargestFirst(s) == \A i, j \in DOMAIN s : i < j => foot[s[i]] >= foot[s[j]]

\* The restored residents become the most recently used, largest first.
TakeRestorable ==
    \E R \in SUBSET evicted :
        /\ IF queue # <<>> \/ Free < 0 THEN R = {} ELSE Restorable(R)
        /\ \E s \in Orderings(R) :
              /\ LargestFirst(s)
              /\ idle' = idle \o s
        /\ evicted' = evicted \ R
        /\ UNCHANGED <<queue, running, left, recovered, foot, rejected, disk>>

-----------------------------------------------------------------------------
(* The lease clock, and the render. *)

\* Mutant of Tick: a lease's time is not floored.
TickPastZero ==
    /\ left' = [j \in Holders |-> left[j] - 1]
    /\ UNCHANGED <<queue, running, recovered, idle, evicted, foot, rejected, disk>>

\* tick: one poll interval passes; the file's deadlines are wall-clock times.
Tick ==
    /\ left' = [j \in Holders |-> IF left[j] > 0 THEN left[j] - 1 ELSE 0]
    /\ disk' = [disk EXCEPT !.left =
                  [j \in Holders |-> IF @[j] > 0 THEN @[j] - 1 ELSE 0]]
    /\ UNCHANGED <<queue, running, recovered, idle, evicted, foot, rejected>>

\* Mutant of Expired: a job without an estimate has no deadline.
ExpiredEstimated == {j \in running \cap Jobs : left[j] = 0 /\ Est[j] > 0}

Expired == {j \in running : left[j] = 0}

\* sweep_expired_leases: complete every lease that ran out.
SweepExpired ==
    /\ queue' = queue
    /\ running' = running \ Expired
    /\ recovered' = IF Recovery \in Expired THEN 0 ELSE recovered
    /\ UNCHANGED <<left, idle, evicted, foot, rejected, disk>>

\* update_resident_footprints: adopt what the render declares; a resident it
\* no longer declares stays as it was, an unknown one is registered idle.
UpdateFootprints(fp) ==
    /\ foot' = [r \in Residents |-> IF r \in DOMAIN fp THEN fp[r] ELSE foot[r]]
    /\ \E s \in Orderings(DOMAIN fp \ (Elements(idle) \cup evicted)) :
          idle' = idle \o s
    /\ UNCHANGED <<queue, running, left, recovered, evicted, rejected, disk>>

-----------------------------------------------------------------------------
(* The state file and a restart. *)

\* SchedulerStateStore.save: the file is replaced atomically.
Save ==
    /\ disk' = Snapshot
    /\ UNCHANGED decisions

\* Mutant of Load: the residents registered from the render stay idle-cached.
LoadKeepsRegistered(fp, down) ==
    /\ running' = disk.running
    /\ left' = disk.left
    /\ recovered' = disk.recovered
    /\ queue' = disk.queue
    /\ evicted' = disk.evicted
    /\ rejected' = disk.rejected
    /\ foot' = [r \in Residents |-> IF r \in DOMAIN fp THEN fp[r] ELSE 0]
    /\ idle' \in Orderings(DOMAIN fp)
    /\ UNCHANGED disk

\* A new process has registered the render's residents (cache_idle each) and
\* has adopted the saved state: load_snapshot.  `down` intervals of wall time
\* passed that the old process's clock did not count.
Load(fp, down) ==
    /\ running' = disk.running
    /\ left' = [j \in Holders |->
                  IF disk.left[j] > down THEN disk.left[j] - down ELSE 0]
    /\ recovered' = disk.recovered
    /\ queue' = disk.queue
    /\ evicted' = disk.evicted
    /\ rejected' = disk.rejected
    /\ foot' = [r \in Residents |->
                  IF r \in disk.evicted THEN disk.foot[r]
                  ELSE IF r \in DOMAIN fp THEN fp[r] ELSE 0]
    /\ idle' \in Orderings(DOMAIN fp \ disk.evicted)
    /\ UNCHANGED disk

\* The file exists and cannot be trusted: hold_residents_for_recovery.  The
\* residents in `down` are not running or docker cannot say; one synthetic
\* lease reserves their VRAM for a heartbeat TTL.
LoadUnreadable(fp, down) ==
    /\ running' = IF down = {} THEN {} ELSE {Recovery}
    /\ left' = [j \in Holders |->
                  IF j = Recovery /\ down # {} THEN HeartbeatTtl ELSE 0]
    /\ foot' = [r \in Residents |-> IF r \in DOMAIN fp THEN fp[r] ELSE 0]
    /\ recovered' = Sum(foot', down)
    /\ queue' = <<>>
    /\ evicted' = down
    /\ rejected' = {}
    /\ idle' \in Orderings(DOMAIN fp \ down)
    /\ UNCHANGED disk

-----------------------------------------------------------------------------

\* The first process of an installation: no state file, the render's residents
\* registered as reclaimable.
Init ==
    \E fp \in Renders :
        /\ queue = <<>>
        /\ running = {}
        /\ left = [j \in Holders |-> 0]
        /\ recovered = 0
        /\ idle \in Orderings(DOMAIN fp)
        /\ evicted = {}
        /\ foot = [r \in Residents |-> IF r \in DOMAIN fp THEN fp[r] ELSE 0]
        /\ rejected = {}
        /\ disk = NoFile

\* The decisions of one process.
Decide ==
    \/ \E j \in Jobs : Submit(j)
    \/ \E j \in Jobs : Complete(j)
    \/ \E j \in Jobs : Heartbeat(j)
    \/ Pump
    \/ TakeRestorable
    \/ Tick
    \/ SweepExpired
    \/ \E fp \in Renders : UpdateFootprints(fp)

\* A restart adopts the last file saved, or cannot read it.
Restart ==
    \/ \E fp \in Renders, down \in 0..MaxTtl : Load(fp, down)
    \/ \E fp \in Renders : \E down \in SUBSET DOMAIN fp : LoadUnreadable(fp, down)

Next == Decide \/ Save \/ Restart

Spec == Init /\ [][Next]_vars

\* The first process alone, before any restart.
OneProcess == Init /\ [][Decide \/ Save]_vars

-----------------------------------------------------------------------------
(* Properties. *)

StateFile ==
    [running : SUBSET Holders, left : [Holders -> Nat], recovered : Nat,
     queue : Seq(Jobs), evicted : SUBSET Residents, foot : [Residents -> Nat],
     rejected : SUBSET Jobs]

\* The shape of the scheduler's fields and of the file.
TypeOK ==
    /\ queue \in Seq(Jobs)
    /\ running \subseteq Holders
    /\ left \in [Holders -> Nat]
    /\ recovered \in Nat
    /\ idle \in Seq(Residents)
    /\ evicted \subseteq Residents
    /\ foot \in [Residents -> Nat]
    /\ rejected \subseteq Jobs
    /\ disk \in StateFile

\* An id asks for the card once: it waits in one place of the queue or holds
\* one lease, never both (submit, pump, complete, load_snapshot).  Seven
\* stacked copies of one request were observed before submit was idempotent.
OneRequestPerId ==
    /\ Distinct(queue)
    /\ Elements(queue) \cap running = {}

\* A resident is idle in one place of the LRU order or evicted, never both, so
\* its VRAM is counted once and it is restored once (pump, take_restorable,
\* update_resident_footprints, load_snapshot).
ResidentInOnePlace ==
    /\ Distinct(idle)
    /\ Elements(idle) \cap evicted = {}

\* The leases clients hold fit the card together, across evictions, restores,
\* render changes and restarts (pump, load_snapshot).  The recovery lease is
\* not a client's: it stands for VRAM this process cannot see.
ClientLeasesFit == Sum(Vram, running \ {Recovery}) <= Total

\* While the render keeps the residents and their sizes, what the scheduler
\* has handed out never exceeds the card: no order of requests, expiries,
\* evictions, restores, saves and restarts gives one unit to two tenants.
NoOvercommit == Used <= Total

\* Strict FIFO (pump): a request is admitted only in a step that also takes
\* every request ahead of it from the queue.
FifoAdmission ==
    [][\A i \in DOMAIN queue :
          queue[i] \in running' \ running =>
              \A h \in 1..i : queue[h] \notin Elements(queue')]_vars

\* The scheduler of one process, seen as Leases: the queue without its order,
\* the leases without their clocks.
Client == INSTANCE Leases WITH
    waiting <- Elements(queue),
    granted <- running,
    refused <- rejected,
    away <- evicted,
    size <- foot

\* Scheduler implements Leases (pump, take_restorable, the sweep and the render
\* included): no order of calls hands out VRAM that is not free, sends a
\* resident away for nobody, or brings one back before a waiting request.
ImplementsLeases == Client!Promise
=============================================================================
