------------------------- MODULE LeaseClientProofs --------------------------
(***************************************************************************)
(* Proofs about LeaseClients, for any card, residents and submissions, any *)
(* number of failed calls: whoever works on the card holds a lease for it. *)
(***************************************************************************)
EXTENDS LeaseClients, CollectionTheorems

\* What the scheduler handed out fits the card.
CardInv ==
    /\ waiting \cup granted \in SUBSET Jobs
    /\ away \in SUBSET Residents
    /\ size \in [Residents -> Nat]
    /\ FitsCard(granted, away)

\* The lock and the gate's start and stop: only start-up has the lock before
\* the gate is up, and until then nothing is held and the watcher is not there.
LockInv ==
    /\ TypeOK
    /\ hand \in [Prompts -> {"new", "asking", "passed", "through", "refused",
                             "bypassed", "cut"}]
    /\ work \in SUBSET Prompts
    /\ owner \in Prompts \cup {"nobody", "watcher", "startup", "cleanup"}
    /\ step \in {"free", "file", "poll", "withdraw", "release"}
    /\ gate # "up" => watch = "sleep" /\ ~held /\ owner \in {"nobody", "startup"}
    /\ gate = "down" => owner = "nobody"
    /\ owner = "startup" => gate = "starting"

\* Nothing has happened that the gate does not promise to survive.
Sound == incidents \subseteq {"crashed", "wedged"}

\* A submission that passed the gate and has not reached the upstream.
Passing == {p \in Prompts : hand[p] = "passed"}

\* While nothing of that happened: a submission that passed finds residency
\* held and the drain timer reset; residency, and work that came through the
\* gate, have the lease; while the gate polls or gives the lease back, nothing
\* of its work runs upstream, and a timer that has run out after the watcher's
\* look at the queue says the same.
GateInv ==
    Sound =>
        /\ Passing # {} => held /\ ~quiet
        /\ held \/ Proxied # {} => Job \in granted
        /\ step \in {"poll", "withdraw"} => Proxied = {}
        /\ step = "release" => watch = "release" /\ quiet /\ Proxied = {}
        /\ watch # "sleep" /\ quiet => Proxied = {}
        /\ wedge # "restarted" /\ watch # "restart"

\* The child of the wrapper runs under its lease, or the lease was lost.
WrapperInv == Alive /\ ~lost => Run \in granted

ClientInv == CardInv /\ LockInv /\ GateInv /\ WrapperInv

-----------------------------------------------------------------------------
(* The scheduler's side: what is handed out fits. *)

\* Fewer leases, and fewer residents, fit where more did.
LEMMA FewerFit ==
    ASSUME NEW g \in SUBSET Jobs, NEW f \in SUBSET g,
           NEW a \in SUBSET Residents, NEW b \in SUBSET Residents, a \subseteq b,
           size \in [Residents -> Nat], FitsCard(g, a)
    PROVE  FitsCard(f, b)
<1>1. IsFiniteSet(g) /\ IsFiniteSet(Residents \ a)
  BY CardAssumption, FS_Subset
<1>2. IsFiniteSet(f) /\ IsFiniteSet(Residents \ b)
  BY CardAssumption, FS_Subset
<1>3. Sum(Vram, f) <= Sum(Vram, g)
  BY <1>1, CardAssumption, SumMonotone
<1>4. Sum(size, Residents \ b) <= Sum(size, Residents \ a)
  BY <1>1, SumMonotone
<1>5. /\ Sum(Vram, f) \in Nat /\ Sum(Vram, g) \in Nat
      /\ Sum(size, Residents \ b) \in Nat /\ Sum(size, Residents \ a) \in Nat
  BY <1>1, <1>2, CardAssumption, SumType
<1> QED
  BY <1>3, <1>4, <1>5, CardAssumption DEF FitsCard

\* What a step of the clients or of the arbiter may do to the leases.
LEMMA LeasesStep ==
    [Next]_vars =>
        \/ \E j \in {Job, Run} : Ask(j) \/ Return(j) \/ Lapse({j})
        \/ Serve \/ Restore \/ UNCHANGED leases
<1> SUFFICES ASSUME [Next]_vars
             PROVE  \/ \E j \in {Job, Run} : Ask(j) \/ Return(j) \/ Lapse({j})
                    \/ Serve \/ Restore \/ UNCHANGED leases
  OBVIOUS
<1>1. CASE UNCHANGED vars
  BY <1>1 DEF vars
<1>2. CASE Arbiter
  BY <1>2 DEF Arbiter
<1>3. CASE WrapperNext
  BY <1>3 DEF WrapperNext, RunFile, RunStarts, RunGivesUp, ChildExits, ChildFreezes,
       StallKill, RunBeats, RunCompletes, WrapperDies, RunLapses, Answered, Fails
<1>4. CASE \E p \in Prompts : \/ Submit(p) \/ SubmitAcquires(p) \/ Forward(p)
                              \/ Bypass(p) \/ Finish(p)
  BY <1>4 DEF Submit, SubmitAcquires, Forward, Bypass, Finish
<1>5. CASE File \/ FileFails \/ PollGranted \/ GiveUp \/ Withdraw
  BY <1>5 DEF File, FileFails, PollGranted, GiveUp, Withdraw, Filed, Answered, Fails
<1>6. CASE \/ Wedge \/ DrainElapses \/ HoldAges
           \/ ReadQueue \/ ReadFails \/ Backstop \/ CapHold \/ Hold \/ RestartUpstream
  BY <1>6 DEF Wedge, DrainElapses, HoldAges, ReadQueue, ReadFails, Backstop, CapHold,
       Hold, RestartUpstream
<1>7. CASE Heartbeat \/ NotDue \/ Refile \/ Settle \/ Release
  BY <1>7 DEF Heartbeat, NotDue, Refile, Settle, Release, Filed, Answered, Fails
<1>8. CASE Adopt \/ ClearStranded \/ Restarted \/ CleanUp \/ Crash \/ GateLapses
  BY <1>8 DEF Adopt, ClearStranded, Restarted, CleanUp, Crash, GateLapses, Answered, Fails
<1> QED
  BY <1>1, <1>2, <1>3, <1>4, <1>5, <1>6, <1>7, <1>8 DEF Next, GateNext

\* What is handed out keeps fitting the card.
LEMMA CardStep == CardInv /\ [Next]_vars => CardInv'
<1> SUFFICES ASSUME CardInv, [Next]_vars PROVE CardInv'
  OBVIOUS
<1> USE DEF CardInv
<1>1. Job \in Jobs /\ Run \in Jobs
  BY GateAssumption, RunAssumption
<1>2. ASSUME NEW j \in {Job, Run}, Ask(j) PROVE CardInv'
  BY <1>1, <1>2 DEF Ask, FitsCard
<1>3. ASSUME NEW j \in {Job, Run}, Return(j) PROVE CardInv'
  <2>1. FitsCard(granted \ {j}, away)
    BY FewerFit
  <2> QED
    BY <1>3, <2>1 DEF Return, FitsCard
<1>4. ASSUME NEW j \in {Job, Run}, Lapse({j}) PROVE CardInv'
  <2>1. FitsCard(granted \ {j}, away)
    BY FewerFit
  <2> QED
    BY <1>4, <2>1 DEF Lapse, FitsCard
<1>5. CASE Serve
  <2>1. PICK G \in SUBSET waiting, D \in SUBSET waiting, A \in SUBSET (Residents \ away) :
          /\ G # {} => FitsCard(granted \cup G, away \cup A)
          /\ waiting' = waiting \ (G \cup D)
          /\ granted' = granted \cup G
          /\ away' = away \cup A
          /\ UNCHANGED size
    BY <1>5 DEF Serve
  <2>2. FitsCard(granted, away \cup A)
    BY FewerFit
  <2>3. FitsCard(granted \cup G, away \cup A)
    <3>1. CASE G = {}
      <4>1. granted \cup G = granted
        BY <3>1
      <4> QED
        BY <4>1, <2>2
    <3> QED
      BY <2>1, <3>1
  <2> QED
    BY <2>1, <2>3 DEF FitsCard
<1>6. CASE Restore
  <2>1. PICK R \in SUBSET away :
          /\ R # {} => FitsCard(granted, away \ R)
          /\ away' = away \ R
          /\ UNCHANGED <<waiting, granted, refused, size>>
    BY <1>6 DEF Restore
  <2>2. FitsCard(granted, away \ R)
    <3>1. CASE R = {}
      <4>1. away \ R = away
        BY <3>1
      <4> QED
        BY <4>1
    <3> QED
      BY <2>1, <3>1
  <2> QED
    BY <2>1, <2>2 DEF FitsCard
<1>7. CASE UNCHANGED leases
  BY <1>7 DEF leases, FitsCard
<1> QED
  BY <1>2, <1>3, <1>4, <1>5, <1>6, <1>7, LeasesStep

-----------------------------------------------------------------------------
(* The gate's lock, its start and its stop. *)

\* Only requests that were made wait, run or are refused.
LEMMA RequestsStep == TypeOK /\ [Next]_vars =>
                         (waiting \cup granted \cup refused \cup {Job, Run} \subseteq Jobs)'
<1> SUFFICES ASSUME TypeOK, [Next]_vars
             PROVE  (waiting \cup granted \cup refused \cup {Job, Run} \subseteq Jobs)'
  OBVIOUS
<1> QED
  BY LeasesStep DEF TypeOK, Ask, Return, Lapse, Serve, Restore, leases

\* The handler of acquire or release that has the lock goes on to its end.
LEMMA LockStep == LockInv /\ [Next]_vars => LockInv'
<1> SUFFICES ASSUME LockInv, [Next]_vars PROVE LockInv'
  OBVIOUS
<1> USE GateAssumption, RequestsStep DEF LockInv, TypeOK
<1>1. CASE UNCHANGED vars
  BY <1>1 DEF vars, gateVars, lock, residency, watching, upstream, ledger, leases
<1>2. CASE Arbiter \/ (WrapperNext /\ UNCHANGED gateVars)
  BY <1>2 DEF Arbiter, gateVars, lock, residency, watching, upstream, ledger
<1>3. ASSUME NEW p \in Prompts, Submit(p) PROVE LockInv'
  BY <1>3 DEF Submit, lock, residency, watching, upstream
<1>4. ASSUME NEW p \in Prompts, SubmitAcquires(p) PROVE LockInv'
  BY <1>4 DEF SubmitAcquires, Acquire, GoesOn, lock, upstream
<1>5. ASSUME NEW p \in Prompts, Forward(p) PROVE LockInv'
  BY <1>5 DEF Forward, lock, residency, watching, upstream
<1>6. ASSUME NEW p \in Prompts, Bypass(p) PROVE LockInv'
  BY <1>6 DEF Bypass, lock, residency, watching, upstream
<1>7. ASSUME NEW p \in Prompts, Finish(p) PROVE LockInv'
  BY <1>7 DEF Finish, lock, residency, watching, upstream
<1>8. CASE File
  BY <1>8 DEF File, Granted, Unlock, GoesOn, residency, upstream
<1>9. CASE FileFails
  BY <1>9 DEF FileFails, Unlock, GoesOn, residency, upstream
<1>10. CASE PollGranted
  BY <1>10 DEF PollGranted, Granted, Unlock, GoesOn, upstream
<1>11. CASE GiveUp
  BY <1>11 DEF GiveUp, Unlock, GoesOn, residency, upstream
<1>12. CASE Withdraw
  BY <1>12 DEF Withdraw, Unlock, GoesOn, residency, upstream
<1>13. CASE Wedge
  BY <1>13 DEF Wedge, lock, residency, watching, upstream
<1>14. CASE DrainElapses \/ HoldAges
  BY <1>14 DEF DrainElapses, HoldAges, lock, watching, upstream
<1>15. CASE ReadQueue
  BY <1>15 DEF ReadQueue, lock, upstream
<1>16. CASE ReadFails
  BY <1>16 DEF ReadFails, lock, residency, upstream
<1>17. CASE Backstop
  BY <1>17 DEF Backstop, Acquire, GoesOn, lock, upstream
<1>18. CASE CapHold
  BY <1>18 DEF CapHold, lock, residency, upstream
<1>19. CASE Hold
  BY <1>19 DEF Hold, Sleeps, GoesTo, StartRelease, lock, residency, upstream
<1>20. CASE RestartUpstream
  BY <1>20 DEF RestartUpstream, StartRelease, lock, upstream
<1>21. CASE Heartbeat \/ NotDue \/ Refile
  BY <1>21 DEF Heartbeat, NotDue, Refile, lock, residency, upstream
<1>22. CASE Settle
  BY <1>22 DEF Settle, Sleeps, GoesTo, StartRelease, lock, residency, upstream
<1>23. CASE Release
  BY <1>23 DEF Release, Sleeps, upstream
<1>24. CASE Adopt
  BY <1>24 DEF Adopt, Acquire, GoesOn, lock, upstream
<1>25. CASE ClearStranded
  BY <1>25 DEF ClearStranded, lock, residency, watching, upstream
<1>26. CASE Restarted
  BY <1>26 DEF Restarted, lock, residency, watching, upstream
<1>27. CASE CleanUp
  BY <1>27 DEF CleanUp, Sleeps, StartRelease, lock, residency, upstream
<1>28. CASE Crash
  BY <1>28 DEF Crash, Sleeps
<1>29. CASE GateLapses
  BY <1>29 DEF GateLapses, lock, residency, watching, upstream
<1> QED
  BY <1>1, <1>2, <1>3, <1>4, <1>5, <1>6, <1>7, <1>8, <1>9, <1>10, <1>11, <1>12, <1>13,
     <1>14, <1>15, <1>16, <1>17, <1>18, <1>19, <1>20, <1>21, <1>22, <1>23, <1>24, <1>25,
     <1>26, <1>27, <1>28, <1>29 DEF Next, GateNext

-----------------------------------------------------------------------------
(* Who works has the lease. *)

\* The wrapper and the arbiter leave the gate's lease alone.
LEMMA GateLeaseKept ==
    WrapperNext \/ Arbiter => (Job \in granted => Job \in granted')
BY IdsAssumption DEF WrapperNext, RunFile, RunStarts, RunGivesUp, ChildExits, ChildFreezes,
   StallKill, RunBeats, RunCompletes, WrapperDies, RunLapses, Answered, Fails,
   Arbiter, Serve, Restore, Ask, Return, Lapse, leases

\* The gate leaves the wrapper's lease alone.
LEMMA RunLeaseKept ==
    LockInv /\ (GateNext \/ Arbiter) => (Run \in granted => Run \in granted')
<1> SUFFICES ASSUME LockInv, GateNext \/ Arbiter, Run \in granted PROVE Run \in granted'
  OBVIOUS
<1>1. CASE Arbiter
  BY <1>1 DEF Arbiter, Serve, Restore
<1>2. CASE \E p \in Prompts : \/ Submit(p) \/ SubmitAcquires(p) \/ Forward(p)
                              \/ Bypass(p) \/ Finish(p)
  BY <1>2 DEF Submit, SubmitAcquires, Forward, Bypass, Finish, leases
<1>3. CASE File \/ FileFails \/ PollGranted \/ GiveUp \/ Withdraw
  BY <1>3, IdsAssumption DEF File, FileFails, PollGranted, GiveUp, Withdraw, Filed,
       Answered, Fails, Ask, Return, leases
<1>4. CASE \/ Wedge \/ DrainElapses \/ HoldAges
           \/ ReadQueue \/ ReadFails \/ Backstop \/ CapHold \/ Hold \/ RestartUpstream
  BY <1>4 DEF Wedge, DrainElapses, HoldAges, ReadQueue, ReadFails, Backstop, CapHold,
       Hold, RestartUpstream, leases
<1>5. CASE Heartbeat \/ NotDue \/ Refile \/ Settle \/ Release
  BY <1>5, IdsAssumption DEF Heartbeat, NotDue, Refile, Settle, Release, Filed, Answered,
       Fails, Ask, Return, leases
<1>6. CASE Adopt \/ ClearStranded \/ Restarted \/ CleanUp \/ Crash \/ GateLapses
  BY <1>6, IdsAssumption DEF Adopt, ClearStranded, Restarted, CleanUp, Crash, GateLapses,
       Answered, Fails, Return, Lapse, leases
<1> QED
  BY <1>1, <1>2, <1>3, <1>4, <1>5, <1>6 DEF GateNext

\* The wrapper's child runs under its lease.
LEMMA WrapperStep == LockInv /\ WrapperInv /\ [Next]_vars => WrapperInv'
<1> SUFFICES ASSUME LockInv, WrapperInv, [Next]_vars PROVE WrapperInv'
  OBVIOUS
<1> USE DEF WrapperInv, Alive
<1>1. CASE UNCHANGED vars
  BY <1>1 DEF vars, leases, wrapper
<1>2. CASE (GateNext \/ Arbiter) /\ UNCHANGED wrapper
  BY <1>2, RunLeaseKept DEF wrapper
<1>3. CASE RunFile \/ RunStarts \/ RunGivesUp \/ ChildExits \/ ChildFreezes \/ StallKill
  BY <1>3 DEF RunFile, RunStarts, RunGivesUp, ChildExits, ChildFreezes, StallKill, leases,
       Answered, Fails, Ask
<1>4. CASE RunBeats \/ RunCompletes \/ WrapperDies \/ RunLapses
  BY <1>4 DEF RunBeats, RunCompletes, WrapperDies, RunLapses, leases, Answered, Fails,
       Ask, Return, Lapse
<1> QED
  BY <1>1, <1>2, <1>3, <1>4 DEF Next, WrapperNext, Arbiter

\* What the gate notes stays noted.
LEMMA SoundBefore == [Next]_vars /\ Sound' => Sound
<1> SUFFICES ASSUME [Next]_vars PROVE incidents \subseteq incidents'
  BY DEF Sound
<1>1. CASE UNCHANGED vars \/ Arbiter \/ (WrapperNext /\ UNCHANGED gateVars)
  BY <1>1 DEF vars, Arbiter, gateVars, ledger
<1>2. CASE \E p \in Prompts : \/ Submit(p) \/ SubmitAcquires(p) \/ Forward(p)
                              \/ Bypass(p) \/ Finish(p)
  BY <1>2 DEF Submit, SubmitAcquires, Forward, Bypass, Finish, ledger
<1>3. CASE File \/ FileFails \/ PollGranted \/ GiveUp \/ Withdraw
  BY <1>3 DEF File, FileFails, PollGranted, GiveUp, Withdraw, ledger
<1>4. CASE \/ Wedge \/ DrainElapses \/ HoldAges
           \/ ReadQueue \/ ReadFails \/ Backstop \/ CapHold \/ Hold \/ RestartUpstream
  BY <1>4 DEF Wedge, DrainElapses, HoldAges, ReadQueue, ReadFails, Backstop, CapHold,
       Hold, RestartUpstream, ledger, Strikes, Note
<1>5. CASE Heartbeat \/ NotDue \/ Refile \/ Settle \/ Release
  BY <1>5 DEF Heartbeat, NotDue, Refile, Settle, Release, ledger
<1>6. CASE Adopt \/ ClearStranded \/ Restarted \/ CleanUp \/ Crash \/ GateLapses
  BY <1>6 DEF Adopt, ClearStranded, Restarted, CleanUp, Crash, GateLapses, ledger,
       Strikes, Note
<1> QED
  BY <1>1, <1>2, <1>3, <1>4, <1>5, <1>6 DEF Next, GateNext

\* The gate and its work have the lease.
LEMMA GateStep ==
    ASSUME {"lapsed", "capped"} \subseteq Mishaps,
           LockInv, GateInv, [Next]_vars
    PROVE  GateInv'
<1> SUFFICES ASSUME Sound, Sound' PROVE GateInv'
  BY SoundBefore DEF GateInv
<1> USE GateAssumption DEF GateInv, LockInv, TypeOK, Passing, Proxied, Sound
<1>1. CASE UNCHANGED vars
  BY <1>1 DEF vars, gateVars, lock, residency, watching, upstream, ledger, leases
<1>2. CASE Arbiter \/ (WrapperNext /\ UNCHANGED gateVars)
  BY <1>2, GateLeaseKept DEF Arbiter, gateVars, lock, residency, watching, upstream, ledger
<1>3. ASSUME NEW p \in Prompts, Submit(p) PROVE GateInv'
  BY <1>3 DEF Submit, lock, residency, watching, upstream, leases
<1>4. ASSUME NEW p \in Prompts, SubmitAcquires(p) PROVE GateInv'
  BY <1>4 DEF SubmitAcquires, Acquire, GoesOn, lock, upstream, leases
<1>5. ASSUME NEW p \in Prompts, Forward(p) PROVE GateInv'
  BY <1>5 DEF Forward, lock, residency, watching, leases
<1>6. ASSUME NEW p \in Prompts, Bypass(p) PROVE GateInv'
  BY <1>6 DEF Bypass, lock, residency, watching, leases
<1>7. ASSUME NEW p \in Prompts, Finish(p) PROVE GateInv'
  BY <1>7 DEF Finish, lock, residency, watching, leases
<1>8. CASE File
  BY <1>8 DEF File, Filed, Ask, Granted, Unlock, GoesOn, residency, upstream
<1>9. CASE FileFails
  BY <1>9 DEF FileFails, Fails, Ask, Unlock, GoesOn, residency, upstream, leases
<1>10. CASE PollGranted
  BY <1>10 DEF PollGranted, Granted, Unlock, GoesOn, upstream, leases
<1>11. CASE GiveUp
  <2>1. /\ step = "poll"
        /\ UNCHANGED <<leases, seen, residency, upstream, late, incidents>>
        /\ Unlock(FALSE) \/ (step' = "withdraw" /\ UNCHANGED <<owner, hand, watch, gate>>)
    BY <1>11 DEF GiveUp
  <2>2. Passing' \subseteq Passing /\ Proxied' \subseteq Proxied
    BY <2>1 DEF Unlock, GoesOn, upstream
  <2>3. step' \in {"free", "withdraw"}
    BY <2>1 DEF Unlock
  <2>4. UNCHANGED <<leases, residency>> /\ watch' # "restart"
    BY <2>1 DEF Unlock, GoesOn
  <2> QED
    BY <2>1, <2>2, <2>3, <2>4 DEF residency, leases
<1>12. CASE Withdraw
  BY <1>12 DEF Withdraw, Unlock, GoesOn, residency, upstream, Answered, Fails, Return, leases
<1>13. CASE Wedge
  BY <1>13 DEF Wedge, lock, residency, watching, leases
<1>14. CASE DrainElapses \/ HoldAges
  BY <1>14 DEF DrainElapses, HoldAges, lock, watching, upstream, leases
<1>15. CASE ReadQueue
  BY <1>15 DEF ReadQueue, lock, upstream, leases
<1>16. CASE ReadFails
  BY <1>16 DEF ReadFails, Strikes, Note, lock, residency, upstream, leases
<1>17. CASE Backstop
  BY <1>17 DEF Backstop, Acquire, GoesOn, lock, upstream, leases
<1>18. CASE CapHold
  BY <1>18 DEF CapHold, Note, lock, residency, upstream, leases
<1>19. CASE Hold
  BY <1>19 DEF Hold, Sleeps, GoesTo, StartRelease, CapReleases, lock, residency, upstream, leases
<1>20. CASE RestartUpstream
  BY <1>20 DEF RestartUpstream
<1>21. CASE Heartbeat \/ NotDue \/ Refile
  BY <1>21 DEF Heartbeat, NotDue, Refile, Filed, Answered, Fails, Ask, lock, residency,
       upstream, leases
<1>22. CASE Settle
  BY <1>22 DEF Settle, Drained, Sleeps, GoesTo, StartRelease, lock, residency, upstream, leases
<1>23. CASE Release
  BY <1>23 DEF Release, Sleeps, Answered, Fails, Return, upstream, leases
<1>24. CASE Adopt
  BY <1>24 DEF Adopt, Acquire, GoesOn, lock, upstream, leases
<1>25. CASE ClearStranded
  BY <1>25 DEF ClearStranded, Strikes, Note, Answered, Fails, Return, lock, residency,
       watching, upstream, leases
<1>26. CASE Restarted
  BY <1>26 DEF Restarted, lock, residency, watching, upstream, leases
<1>27. CASE CleanUp
  BY <1>27 DEF CleanUp, Strikes, Note
<1>28. CASE Crash
  <2>1. PICK S \in SUBSET Passing :
          /\ work' = work \cup S
          /\ hand' = [p \in Prompts |->
                        IF p \in S THEN "through"
                        ELSE IF hand[p] \in {"asking", "passed"} THEN "cut"
                        ELSE hand[p]]
    BY <1>28 DEF Crash
  <2>2. Passing' = {}
    <3>1. \A p \in Prompts : hand'[p] # "passed"
      BY <2>1
    <3> QED
      BY <3>1
  <2>3. Proxied' # {} => Job \in granted
    BY <2>1
  <2>4. step' = "free" /\ ~held' /\ wedge' = "none" /\ watch' = "sleep" /\ granted' = granted
    BY <1>28 DEF Crash, Sleeps, leases
  <2> QED
    BY <2>2, <2>3, <2>4
<1>29. CASE GateLapses
  BY <1>29 DEF GateLapses, Note, Lapse, lock, residency, watching, upstream
<1> QED
  BY <1>1, <1>2, <1>3, <1>4, <1>5, <1>6, <1>7, <1>8, <1>9, <1>10, <1>11, <1>12, <1>13,
     <1>14, <1>15, <1>16, <1>17, <1>18, <1>19, <1>20, <1>21, <1>22, <1>23, <1>24, <1>25,
     <1>26, <1>27, <1>28, <1>29 DEF Next, GateNext

-----------------------------------------------------------------------------
(* The theorems. *)

\* The residents fit the card beside each other.
ResidentsFit == Sum(size, Residents) <= Total

\* The invariant holds at the start.
LEMMA InitInv == Init /\ ResidentsFit => ClientInv
<1> SUFFICES ASSUME Init, ResidentsFit PROVE ClientInv
  OBVIOUS
<1> USE DEF Init, Empty, GateInit, WrapperInit
<1>1. CardInv
  <2>1. Sum(size, Residents) \in Nat
    BY CardAssumption, SumType
  <2>2. Residents \ {} = Residents /\ Sum(Vram, {}) = 0
    BY SumEmpty
  <2> QED
    BY <2>1, <2>2 DEF CardInv, FitsCard, ResidentsFit
<1>2. LockInv
  BY GateAssumption, RunAssumption DEF LockInv, TypeOK
<1>3. GateInv
  BY DEF GateInv, Passing, Proxied
<1>4. WrapperInv
  BY DEF WrapperInv, Alive
<1> QED
  BY <1>1, <1>2, <1>3, <1>4 DEF ClientInv

\* The inductive invariant of gate, wrapper and arbiter: with residents that
\* fit the card, what is handed out fits it, the gate's lock is where its
\* handlers are, and gate and wrapper work only under their leases.
THEOREM ClientInvariant ==
    ASSUME {"lapsed", "capped"} \subseteq Mishaps
    PROVE  Spec /\ ResidentsFit => []ClientInv
<1>1. ClientInv /\ [Next]_vars => ClientInv'
  BY CardStep, LockStep, GateStep, WrapperStep DEF ClientInv
<1> QED
  BY <1>1, InitInv, PTL DEF Spec

\* The gate's fields, and who may own its lock at which step, are as typed.
THEOREM ClientsTypeCorrect == Spec => []TypeOK
<1>1. Init => LockInv
  BY GateAssumption, RunAssumption DEF Init, Empty, GateInit, LockInv, TypeOK
<1>2. LockInv => TypeOK
  BY DEF LockInv
<1> QED
  BY <1>1, <1>2, LockStep, PTL DEF Spec

\* Neither gate nor wrapper works on a card it does not hold (acquire, release,
\* clear_stranded; _acquire): what occupies the card fits it, for any residents
\* that fit it together, whatever calls fail and whenever the gate crashes.
THEOREM TenantsAlwaysFit ==
    ASSUME {"lapsed", "capped"} \subseteq Mishaps
    PROVE  Spec /\ ResidentsFit => []TenantsFit
<1>1. ClientInv => TenantsFit
  <2> SUFFICES ASSUME ClientInv, Sound, ~lost PROVE Tenants <= Total
    BY DEF TenantsFit, Sound
  <2> DEFINE W == (IF Proxied # {} THEN {Job} ELSE {}) \cup (IF Alive THEN {Run} ELSE {})
  <2>1. W \subseteq granted /\ granted \in SUBSET Jobs /\ away \in SUBSET Residents
    BY DEF ClientInv, CardInv, GateInv, WrapperInv
  <2>2. FitsCard(W, away)
    BY <2>1, FewerFit DEF ClientInv, CardInv
  <2>3. W \in SUBSET Jobs
    BY <2>1
  <2>4. IsFiniteSet(W) /\ IsFiniteSet(Residents \ away)
    BY <2>3, CardAssumption, FS_Subset
  <2>5. Sum(Vram, W) \in Nat
    BY <2>3, <2>4, CardAssumption, SumType
  <2>6. Sum(size, Residents \ away) \in Nat
    BY <2>4, SumType DEF ClientInv, CardInv
  <2> QED
    BY <2>2, <2>5, <2>6, CardAssumption DEF FitsCard, Tenants
<1> QED
  BY <1>1, ClientInvariant, PTL
=============================================================================
