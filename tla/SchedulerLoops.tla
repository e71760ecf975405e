--------------------------- MODULE SchedulerLoops ---------------------------
(***************************************************************************)
(* pump and the restore pass of ordo/control/scheduler.py as they are      *)
(* written, one turn of a loop at a time, and the statement that the       *)
(* actions Pump and TakeRestorable of Scheduler compute the same.          *)
(***************************************************************************)
EXTENDS Scheduler

Now ==
    [queue |-> queue, running |-> running, idle |-> idle, evicted |-> evicted,
     rejected |-> rejected]

\* free_vram_gb, where the loops have got to.
FreeIn(st) ==
    Total - Sum(JobVram, st.running) - Sum(foot, Elements(st.idle))

\* One turn: pump drops the head, or _unload_lru_until pops the coldest idle
\* resident while the head does not fit, or pump admits the head.  A head that
\* does not fit once no resident is idle ends the loop.
PumpTurn(st) ==
    IF st.queue = <<>> THEN st
    ELSE LET head == Head(st.queue)
         IN  IF TooBig(head)
             THEN [st EXCEPT !.queue = Tail(@), !.rejected = @ \cup {head}]
             ELSE IF Vram[head] <= FreeIn(st)
             THEN [st EXCEPT !.queue = Tail(@), !.running = @ \cup {head}]
             ELSE IF st.idle # <<>>
             THEN [st EXCEPT !.idle = Tail(@), !.evicted = @ \cup {Head(st.idle)}]
             ELSE st

\* Each turn but the last takes a request or a resident.
PumpTurns == Len(queue) + Len(idle)

\* Where pump has got to after each turn.
PumpLoop[i \in 0..PumpTurns] == IF i = 0 THEN Now ELSE PumpTurn(PumpLoop[i - 1])

\* One turn of the loop of _restorable_residents.
RestoreTurn(st, r) ==
    IF foot[r] <= st.free
    THEN [free |-> st.free - foot[r], restore |-> Append(st.restore, r)]
    ELSE st

\* The loop, over one way of sorting the evicted.
RestoreLoop(order) ==
    LET after[i \in 0..Len(order)] ==
          IF i = 0 THEN [free |-> FreeIn(Now), restore |-> <<>>]
          ELSE RestoreTurn(after[i - 1], order[i])
    IN  after[Len(order)].restore

\* The two early returns, then the loop; take_restorable re-arms each in turn.
Restored(order) == IF queue # <<>> THEN <<>> ELSE RestoreLoop(order)

\* Where Pump gets to when it takes n requests and evicts k residents.
Decided(n, k) ==
    [queue    |-> SubSeq(queue, n + 1, Len(queue)),
     running  |-> running \cup Admitted(n),
     idle     |-> SubSeq(idle, k + 1, Len(idle)),
     evicted  |-> evicted \cup {idle[i] : i \in 1..k},
     rejected |-> rejected \cup {j \in {queue[i] : i \in 1..n} : TooBig(j)}]

\* Pump, stated in closed form, takes, rejects and evicts exactly what the
\* loops of Scheduler.pump and Scheduler._unload_lru_until do, and they end.
PumpIsTheLoop ==
    /\ PumpTurn(PumpLoop[PumpTurns]) = PumpLoop[PumpTurns]
    /\ \E n \in 0..Len(queue), k \in 0..Len(idle) : Takes(n) /\ Evicts(n, k)
    /\ \A n \in 0..Len(queue), k \in 0..Len(idle) :
          Takes(n) /\ Evicts(n, k) => PumpLoop[PumpTurns] = Decided(n, k)

\* What TakeRestorable may restore is what the sorted loop restores, for some
\* order of the residents of equal size.
RestoreIsTheLoop ==
    {s \in UNION {Orderings(R) : R \in SUBSET evicted} :
        /\ LargestFirst(s)
        /\ IF queue # <<>> \/ Free < 0 THEN s = <<>> ELSE Restorable(Elements(s))}
    = {Restored(order) : order \in {s \in Orderings(evicted) : LargestFirst(s)}}

\* The decisions of the specification are those of the code's loops, in every
\* reachable state (Scheduler.pump, Scheduler._restorable_residents).
LoopsAgree == PumpIsTheLoop /\ RestoreIsTheLoop
=============================================================================
