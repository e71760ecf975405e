-------------------------- MODULE MCSchedulerLive ---------------------------
(***************************************************************************)
(* The decisions of one process under clients that may crash.  The serve   *)
(* loop (ordo/control/serve.py) ticks, sweeps and reconciles for ever, so  *)
(* those four steps are weakly fair; no client step and no render is.  A   *)
(* client that lives for ever may hold its lease for ever, so heartbeats   *)
(* are bounded: at most MaxBeats are sent, and whatever is held after the  *)
(* last is abandoned.                                                      *)
(***************************************************************************)
EXTENDS MCScheduler

CONSTANT MaxBeats

VARIABLE beats

Beat(j) ==
    /\ beats < MaxBeats
    /\ Heartbeat(j)
    /\ beats' = beats + 1

Loop == Pump \/ TakeRestorable \/ Tick \/ SweepExpired

ClientCall ==
    \/ \E j \in Jobs : Submit(j)
    \/ \E j \in Jobs : Complete(j)

LiveInit == Init /\ beats = 0

LiveNext ==
    \/ \E j \in Jobs : Beat(j)
    \/ ClientCall /\ UNCHANGED beats
    \/ Loop /\ UNCHANGED beats
    \/ (\E fp \in Renders : UpdateFootprints(fp)) /\ UNCHANGED beats

LiveSpec ==
    /\ LiveInit
    /\ [][LiveNext]_<<vars, beats>>
    /\ WF_vars(Pump /\ UNCHANGED beats)
    /\ WF_vars(TakeRestorable /\ UNCHANGED beats)
    /\ WF_vars(Tick /\ UNCHANGED beats)
    /\ WF_vars(SweepExpired /\ UNCHANGED beats)

\* Nothing waits for ever: each queued request is admitted, rejected as larger
\* than the card, or withdrawn, even behind leases whose holders crashed and
\* behind a request that can never run (pump, sweep_expired_leases).
QueueServed == \A j \in Jobs : j \in Elements(queue) ~> j \notin Elements(queue)

\* A crashed client cannot keep a resident down: when requests stop coming,
\* every evicted resident comes back, whatever renders are adopted meanwhile
\* (the media-lease contract).
ResidentsReturn ==
    <>[](queue = <<>>) => \A r \in Residents : r \in evicted ~> r \in Elements(idle)
=============================================================================
