------------------------------- MODULE Leases -------------------------------
(***************************************************************************)
(* What the GPU scheduler promises to whoever asks it for the card, with   *)
(* no queue order, no clock and no file: a request waits, is granted, or   *)
(* is refused for ever; residents leave the card only to make room and     *)
(* come back only when nobody waits; nothing is handed out that does not   *)
(* fit.  Scheduler implements it (SchedulerProofs), and the clients of the *)
(* lease routes, gpu-gate and lease-exec, are checked against it           *)
(* (LeaseClients).                                                         *)
(***************************************************************************)
EXTENDS Collections

CONSTANTS Jobs, Residents, Total, Vram

ASSUME CardAssumption ==
    /\ IsFiniteSet(Jobs) /\ IsFiniteSet(Residents)
    /\ Total \in Nat /\ Vram \in [Jobs -> Nat]

VARIABLES
    waiting,    \* the requests that wait
    granted,    \* the requests that hold a lease
    refused,    \* the requests that fit no card of this size
    away,       \* the residents that were taken off the card
    size        \* size[r]: what resident r occupies when it is on the card

leases == <<waiting, granted, refused, away, size>>

\* The leases in g and the residents not in a fit the card together.
FitsCard(g, a) == Sum(Vram, g) + Sum(size, Residents \ a) <= Total

Empty ==
    /\ waiting = {}
    /\ granted = {}
    /\ refused = {}
    /\ away = {}
    /\ size \in [Residents -> Nat]

Ask(j) ==
    /\ waiting' = IF j \in granted THEN waiting ELSE waiting \cup {j}
    /\ UNCHANGED <<granted, refused, away, size>>

Return(j) ==
    /\ waiting' = waiting \ {j}
    /\ granted' = granted \ {j}
    /\ UNCHANGED <<refused, away, size>>

\* Some who wait are granted or refused; residents leave for those who waited.
Serve ==
    \E G, D \in SUBSET waiting, A \in SUBSET (Residents \ away) :
        /\ G \cap D = {}
        /\ D = {} \/ \A j \in D : Vram[j] > Total
        /\ G # {} => FitsCard(granted \cup G, away \cup A)
        /\ A # {} => waiting # {}
        /\ waiting' = waiting \ (G \cup D)
        /\ granted' = granted \cup G
        /\ refused' = refused \cup D
        /\ away' = away \cup A
        /\ UNCHANGED size

\* Residents come back once nobody waits.
Restore ==
    \E R \in SUBSET away :
        /\ R # {} => waiting = {} /\ FitsCard(granted, away \ R)
        /\ away' = away \ R
        /\ UNCHANGED <<waiting, granted, refused, size>>

\* The leases of clients that stopped renewing them are taken back.
Lapse(E) ==
    /\ granted' = granted \ E
    /\ UNCHANGED <<waiting, refused, away, size>>

\* A new render gives the residents other sizes.
Resize ==
    /\ size' \in [Residents -> Nat]
    /\ UNCHANGED <<waiting, granted, refused, away>>

Change ==
    \/ \E j \in Jobs : Ask(j) \/ Return(j)
    \/ Serve
    \/ Restore
    \/ \E E \in SUBSET granted : Lapse(E)
    \/ Resize

Promise == Empty /\ [][Change]_leases
=============================================================================
