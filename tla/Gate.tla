-------------------------------- MODULE Gate --------------------------------
(***************************************************************************)
(* gpu-gate (services/gpu-gate/gate.py): the proxy that takes the card     *)
(* before it lets a submission through to ComfyUI, and gives it back once  *)
(* ComfyUI's queue has drained.                                            *)
(*                                                                         *)
(* The event loop runs one handler per submission, the watcher, and        *)
(* start-up and clean-up; they interleave at their awaits, so a step here  *)
(* is what runs between two awaits.  acquire and release hold _lock over   *)
(* several awaits: `owner` holds it and is at `step`.                      *)
(*                                                                         *)
(* Clocks: `quiet` says that drain_seconds have passed since _last_busy,   *)
(* `long` that the hold has lasted max_hold_seconds.  The watcher compares *)
(* both with the `now` it took when it read the queue, so they turn true   *)
(* only while it sleeps.                                                   *)
(***************************************************************************)
EXTENDS Calls

CONSTANTS
    Job,        \* ORDO_LEASE_JOB_ID: one stable id for every submission
    Prompts,    \* the submissions
    Mishaps     \* which incidents are followed; of these the environment's
                \* ("crashed", "stopped", "wedged", "unseen") happen once at most

\* A submission is none of the others who may own the lock.
ASSUME GateAssumption ==
    Job \in Jobs /\ Prompts \cap {"watcher", "startup", "cleanup", "nobody"} = {}

VARIABLES
    gate,       \* "down", "starting", "up"
    hand,       \* hand[p]: how far submission p has come
    owner,      \* who holds _lock: a prompt, "watcher", "startup", "cleanup"
    step,       \* the call the owner of the lock makes next
    held,       \* Residency.held
    wedge,      \* Residency._wedge_restarted: "none", "restarted", "failed"
    quiet, long,
    watch,      \* where the watcher is in its loop
    seen,       \* `busy` as the watcher last read it: "busy", "idle", "unknown"
    work,       \* the submissions in the upstream's queue
    stuck,      \* the upstream is alive and makes no progress
    late,       \* the gate has missed a heartbeat since its lease was renewed
    incidents   \* what has happened that the gate does not promise to survive

residency == <<held, wedge, quiet, long>>
lock == <<owner, step>>
watching == <<watch, seen>>
upstream == <<work, stuck>>
ledger == <<late, incidents>>

-----------------------------------------------------------------------------

GateInit ==
    /\ gate = "starting"
    /\ hand = [p \in Prompts |-> "new"]
    /\ owner = "nobody" /\ step = "free"
    /\ held = FALSE /\ wedge = "none" /\ quiet = FALSE /\ long = FALSE
    /\ watch = "sleep" /\ seen = "idle"
    /\ work = {} /\ stuck = FALSE
    /\ late = FALSE /\ incidents = {}

Note(i) == incidents' = incidents \cup ({i} \cap Mishaps)

Strikes(i) == i \in Mishaps \ incidents /\ Note(i)

\* The watcher's next loop reads the queue anew.
Sleeps == watch' = "sleep" /\ seen' = "idle"
GoesTo(w) == watch' = w /\ UNCHANGED seen

\* acquire has ended for `who`; its caller goes on.
GoesOn(who, ok) ==
    /\ hand' = IF who \in Prompts
               THEN [hand EXCEPT ![who] = IF ok THEN "passed" ELSE "refused"]
               ELSE hand
    /\ watch' = IF who = "watcher" THEN "hold" ELSE watch
    /\ gate' = IF who = "startup" THEN "up" ELSE gate

Unlock(ok) ==
    /\ GoesOn(owner, ok)
    /\ owner' = "nobody" /\ step' = "free"

\* The status the gate reads shows its job running.
Granted ==
    /\ held' = TRUE /\ quiet' = FALSE /\ long' = FALSE
    /\ UNCHANGED wedge
    /\ Unlock(TRUE)

-----------------------------------------------------------------------------
(* acquire. *)

\* Mutant of Acquire: a submission that finds residency held does not count as
\* activity.
AcquireUnnoticed(who) ==
    /\ owner = "nobody"
    /\ IF held
       THEN /\ GoesOn(who, TRUE)
            /\ UNCHANGED <<lock, residency>>
       ELSE /\ owner' = who /\ step' = "file"
            /\ UNCHANGED <<hand, watch, gate, residency>>

Acquire(who) ==
    /\ owner = "nobody"
    /\ quiet' = FALSE
    /\ UNCHANGED <<held, wedge, long>>
    /\ IF held
       THEN /\ GoesOn(who, TRUE)
            /\ UNCHANGED lock
       ELSE /\ owner' = who /\ step' = "file"
            /\ UNCHANGED <<hand, watch, gate>>

Filed ==
    /\ Ask(Job)
    /\ late' = (late /\ Job \in granted)

\* POST /jobs, and the first look at the status it answers with.
File ==
    /\ step = "file"
    /\ Filed
    /\ IF Job \in granted
       THEN Granted
       ELSE step' = "poll" /\ UNCHANGED <<owner, hand, watch, gate, residency>>
    /\ UNCHANGED <<seen, upstream, faults, incidents>>

\* POST /jobs failed: the submission is refused, nothing is withdrawn.
FileFails ==
    /\ step = "file"
    /\ Fails(Ask(Job))
    /\ late' = (late /\ Job \in granted)
    /\ Unlock(FALSE)
    /\ UNCHANGED <<seen, residency, upstream, incidents>>

PollGranted ==
    /\ step = "poll"
    /\ Job \in granted
    /\ Granted
    /\ UNCHANGED <<leases, seen, upstream, ledger, faults>>

\* Refused for good, or the deadline has passed on a status without the job:
\* the one just read, or an older one when the poll failed.  The arbiter pumps
\* its queue when a request is filed, seconds before any deadline, so what
\* still waits then has no room.
GiveUp ==
    /\ step = "poll"
    /\ IF Job \in granted THEN Fault ELSE UNCHANGED faults
    /\ Job \in waiting => ~FitsCard(granted \cup {Job}, Residents)
    /\ IF Job \in refused
       THEN Unlock(FALSE)
       ELSE step' = "withdraw" /\ UNCHANGED <<owner, hand, watch, gate>>
    /\ UNCHANGED <<leases, seen, residency, upstream, late, incidents>>

\* Mutant of Withdraw: it goes through release, which takes the lock again.
WithdrawTakesLock ==
    /\ step = "withdraw" /\ owner = "nobody"
    /\ Answered(Return(Job))
    /\ Unlock(FALSE)
    /\ UNCHANGED <<seen, residency, upstream, late, incidents>>

Withdraw ==
    /\ step = "withdraw"
    /\ \/ Answered(Return(Job))
       \/ Fails(Return(Job))
    /\ Unlock(FALSE)
    /\ UNCHANGED <<seen, residency, upstream, late, incidents>>

-----------------------------------------------------------------------------
(* The handler of one submission. *)

Submit(p) ==
    /\ gate = "up"
    /\ hand[p] = "new"
    /\ hand' = [hand EXCEPT ![p] = "asking"]
    /\ UNCHANGED <<leases, gate, lock, residency, watching, upstream, ledger, faults>>

SubmitAcquires(p) ==
    /\ gate = "up"
    /\ hand[p] = "asking"
    /\ Acquire(p)
    /\ UNCHANGED <<leases, seen, upstream, ledger, faults>>

\* The prompt reaches the upstream, outside the lock.
Forward(p) ==
    /\ hand[p] = "passed"
    /\ hand' = [hand EXCEPT ![p] = "through"]
    /\ work' = work \cup {p}
    /\ UNCHANGED <<leases, gate, lock, residency, watching, stuck, ledger, faults>>

\* Someone submits to the upstream without the gate.
Bypass(p) ==
    /\ hand[p] = "new"
    /\ hand' = [hand EXCEPT ![p] = "bypassed"]
    /\ work' = work \cup {p}
    /\ UNCHANGED <<leases, gate, lock, residency, watching, stuck, ledger, faults>>

-----------------------------------------------------------------------------
(* The upstream. *)

Finish(p) ==
    /\ p \in work
    /\ ~stuck
    /\ work' = work \ {p}
    /\ UNCHANGED <<leases, gate, hand, lock, residency, watching, stuck, ledger, faults>>

\* At most once.
Wedge ==
    /\ work # {}
    /\ Strikes("wedged")
    /\ stuck' = TRUE
    /\ UNCHANGED <<leases, gate, hand, lock, residency, watching, work, late, faults>>

-----------------------------------------------------------------------------
(* The watcher's loop. *)

\* drain_seconds pass.  Assumed longer than a submission takes from the gate
\* to the upstream.
DrainElapses ==
    /\ watch = "sleep" /\ held /\ ~quiet
    /\ \A p \in Prompts : hand[p] # "passed"
    /\ quiet' = TRUE
    /\ UNCHANGED <<leases, gate, hand, lock, held, wedge, long, watching, upstream, ledger, faults>>

\* max_hold_seconds pass.
HoldAges ==
    /\ watch = "sleep" /\ held /\ ~long
    /\ long' = TRUE
    /\ UNCHANGED <<leases, gate, hand, lock, held, wedge, quiet, watching, upstream, ledger, faults>>

ReadQueue ==
    /\ gate = "up" /\ watch = "sleep"
    /\ seen' = IF work # {} THEN "busy" ELSE "idle"
    /\ quiet' = (quiet /\ work = {})
    /\ watch' = IF work # {} /\ ~held THEN "backstop" ELSE "hold"
    /\ UNCHANGED <<leases, gate, hand, lock, held, wedge, long, upstream, ledger, faults>>

\* The upstream does not answer: not busy.  While it works this is one of the
\* things the gate does not survive.
ReadFails ==
    /\ gate = "up" /\ watch = "sleep"
    /\ seen' = "unknown"
    /\ watch' = "hold"
    /\ IF work # {} THEN Strikes("unseen") ELSE UNCHANGED incidents
    /\ UNCHANGED <<leases, gate, hand, lock, residency, upstream, late, faults>>

\* Work the gate never saw: acquire, late.
Backstop ==
    /\ watch = "backstop"
    /\ Acquire("watcher")
    /\ UNCHANGED <<leases, seen, upstream, ledger, faults>>

\* The hold is over its limit and the upstream was restarted and reads idle.
\* (`seen` may be older than the restart.)
CapReleases == wedge = "restarted" /\ seen = "idle"

StartRelease(who) ==
    /\ owner = "nobody"
    /\ owner' = who /\ step' = "release"

\* A hold over its limit: the upstream is restarted, again if that failed and
\* the retry is due.
CapHold ==
    /\ watch = "hold" /\ held
    /\ long /\ wedge # "restarted"
    /\ Note("capped")
    /\ watch' = "restart"
    /\ UNCHANGED <<leases, gate, hand, lock, residency, seen, upstream, late, faults>>

\* Otherwise: nothing to hold; the restarted upstream reads idle; or go on.
Hold ==
    /\ watch = "hold"
    /\ \/ ~held /\ Sleeps /\ UNCHANGED lock
       \/ held /\ long /\ CapReleases /\ StartRelease("watcher") /\ GoesTo("release")
       \/ /\ held /\ ~(long /\ (wedge = "none" \/ CapReleases))
          /\ GoesTo("beat") /\ UNCHANGED lock
    /\ UNCHANGED <<leases, gate, hand, residency, upstream, ledger, faults>>

\* The upstream is restarted through ops-controller: its work is dropped.
RestartUpstream ==
    /\ watch = "restart"
    /\ \/ /\ work' = {} /\ stuck' = FALSE
          /\ wedge' = "restarted"
          /\ UNCHANGED faults
       \/ /\ Fault
          /\ wedge' = "failed"
          /\ UNCHANGED upstream
    /\ IF wedge' = "restarted" /\ seen = "idle"
       THEN StartRelease("watcher") /\ watch' = "release"
       ELSE watch' = "beat" /\ UNCHANGED lock
    /\ UNCHANGED <<leases, gate, hand, held, quiet, long, seen, late, incidents>>

\* Mutant of Heartbeat: a lost lease is logged and not asked for again.
HeartbeatOnly ==
    /\ watch = "beat"
    /\ watch' = "settle"
    /\ \/ late' = (late /\ Job \notin granted) /\ UNCHANGED faults
       \/ late' = TRUE /\ Fault
    /\ UNCHANGED <<leases, gate, hand, lock, residency, seen, upstream, incidents>>

Heartbeat ==
    /\ watch = "beat"
    /\ \/ /\ Job \in granted
          /\ late' = FALSE
          /\ watch' = "settle"
          /\ UNCHANGED faults
       \/ /\ Job \notin granted        \* 404
          /\ watch' = "refile"
          /\ UNCHANGED <<late, faults>>
       \/ /\ Fault
          /\ late' = TRUE
          /\ watch' = "settle"
    /\ UNCHANGED <<leases, gate, hand, lock, residency, seen, upstream, incidents>>

\* The heartbeat is not due yet.
NotDue ==
    /\ watch = "beat"
    /\ watch' = "settle"
    /\ UNCHANGED <<leases, gate, hand, lock, residency, seen, upstream, ledger, faults>>

\* The request is filed again; `held` stays as it was.
Refile ==
    /\ watch = "refile"
    /\ watch' = "settle"
    /\ \/ Answered(Filed)
       \/ Fails(Ask(Job)) /\ UNCHANGED late
    /\ UNCHANGED <<gate, hand, lock, residency, seen, upstream, incidents>>

Drained == seen # "busy" /\ quiet

Settle ==
    /\ watch = "settle"
    /\ IF Drained
       THEN StartRelease("watcher") /\ GoesTo("release")
       ELSE Sleeps /\ UNCHANGED lock
    /\ UNCHANGED <<leases, gate, hand, residency, upstream, ledger, faults>>

\* POST /jobs/complete under the lock; `held` ends whether or not it arrives.
Release ==
    /\ step = "release"
    /\ \/ Answered(Return(Job))
       \/ Fails(Return(Job))
    /\ held' = FALSE /\ wedge' = "none" /\ long' = FALSE
    /\ owner' = "nobody" /\ step' = "free"
    /\ Sleeps
    /\ gate' = IF owner = "cleanup" THEN "down" ELSE gate
    /\ UNCHANGED <<hand, quiet, upstream, late, incidents>>

-----------------------------------------------------------------------------
(* Start, stop and crash. *)

\* clear_stranded: a busy upstream is adopted.
Adopt ==
    /\ gate = "starting"
    /\ work # {}
    /\ Acquire("startup")
    /\ UNCHANGED <<leases, seen, upstream, ledger, faults>>

\* clear_stranded: the id of an idle upstream, or of one that does not answer,
\* is completed.
ClearStranded ==
    /\ gate = "starting" /\ owner = "nobody"
    /\ \/ work = {} /\ Answered(Return(Job)) /\ UNCHANGED incidents
       \/ work = {} /\ Fails(Return(Job)) /\ UNCHANGED incidents
       \/ /\ work # {}
          /\ Strikes("unseen")
          /\ Answered(Return(Job))
    /\ gate' = "up"
    /\ UNCHANGED <<hand, lock, residency, watching, upstream, late>>

\* The restart policy brings the container back.
Restarted ==
    /\ gate = "down"
    /\ gate' = "starting"
    /\ UNCHANGED <<leases, hand, lock, residency, watching, upstream, ledger, faults>>

\* A clean shutdown waits for the handlers, cancels the watcher and releases.
CleanUp ==
    /\ gate = "up" /\ owner = "nobody"
    /\ \A p \in Prompts : hand[p] \notin {"asking", "passed"}
    /\ Strikes("stopped")
    /\ Sleeps
    /\ IF held
       THEN StartRelease("cleanup") /\ UNCHANGED gate
       ELSE gate' = "down" /\ UNCHANGED lock
    /\ UNCHANGED <<leases, hand, residency, upstream, late, faults>>

\* The process dies, at most once.  A prompt on its way is cut off or arrives.
Crash ==
    /\ gate # "down"
    /\ Strikes("crashed")
    /\ \E S \in SUBSET {p \in Prompts : hand[p] = "passed"} :
          /\ work' = work \cup S
          /\ hand' = [p \in Prompts |->
                        IF p \in S THEN "through"
                        ELSE IF hand[p] \in {"asking", "passed"} THEN "cut"
                        ELSE hand[p]]
    /\ gate' = "down"
    /\ owner' = "nobody" /\ step' = "free"
    /\ held' = FALSE /\ wedge' = "none" /\ quiet' = FALSE /\ long' = FALSE
    /\ Sleeps
    /\ late' = TRUE
    /\ UNCHANGED <<leases, stuck, faults>>

\* The submissions that passed the gate and run upstream.
Proxied == {p \in work : hand[p] = "through"}

\* The lease of a gate that renews it in time does not lapse: lease_ttl is
\* several heartbeats long.
Renews == gate = "up" /\ (held \/ step = "poll") /\ ~late

GateLapses ==
    /\ Job \in granted /\ ~Renews
    /\ Lapse({Job})
    /\ IF held \/ work # {} THEN Note("lapsed") ELSE UNCHANGED incidents
    /\ UNCHANGED <<gate, hand, lock, residency, watching, upstream, late, faults>>

GateNext ==
    \/ \E p \in Prompts : \/ Submit(p) \/ SubmitAcquires(p) \/ Forward(p)
                          \/ Bypass(p) \/ Finish(p)
    \/ File \/ FileFails \/ PollGranted \/ GiveUp \/ Withdraw
    \/ Wedge \/ DrainElapses \/ HoldAges
    \/ ReadQueue \/ ReadFails \/ Backstop \/ CapHold \/ Hold \/ RestartUpstream
    \/ Heartbeat \/ NotDue \/ Refile \/ Settle \/ Release
    \/ Adopt \/ ClearStranded \/ Restarted \/ CleanUp \/ Crash
    \/ GateLapses
=============================================================================
